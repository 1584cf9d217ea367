--------------------------- MODULE KKSystem_proofs ---------------------------
(***************************************************************************)
(* The program on the Nios processor is a legal master of the slave port,  *)
(* so that everything shown of the accelerator with any master is true of  *)
(* the accelerator with this program; its elements, although they are      *)
(* posted, reach the core before the run begins; what it reads back is the *)
(* condensation of its input; and it comes to its end in a bounded number  *)
(* of cycles, not counting those in which it computes.                     *)
(***************************************************************************)
EXTENDS KKSystem, KKAvalonSlave_proofs, WellFoundedInduction, NaturalsInduction

\* The loop counter is the number of a cell, counted line by line.
LEMMA CellOf ==
  ASSUME at \in 0 .. n * n - 1
  PROVE  <<i, j>> \in Cells
<1>1. n \in Nat /\ n > 0 /\ at \in Nat
  BY SizeAssumption
<1>2. i \in Int /\ j \in 0 .. n - 1 /\ at = n * i + j
  BY <1>1 DEF i, j
<1>3. i >= 0
  BY <1>1 DEF i
<1>4. i < n
  <2> SUFFICES ASSUME i >= n PROVE FALSE
    BY <1>1, <1>2
  <2>1. n * i >= n * n
    BY <1>1, <1>2
  <2> QED
    BY <1>1, <1>2, <2>1
<1> QED
  BY <1>1, <1>2, <1>3, <1>4 DEF Cells, Idx

\* The number of the last cell is one of them.
LEMMA Room == 0 \in 0 .. n * n - 1
<1>1. n \in Nat /\ n > 1
  BY SizeAssumption
<1>2. n * n \in Nat /\ n * n > 1
  BY <1>1
<1> QED
  BY <1>2

\* The step of the loops' invariant, statement by statement.
LEMMA ProgramTypeStep == ProgramTypeOK /\ [SystemNext]_system => ProgramTypeOK'
<1> SUFFICES ASSUME ProgramTypeOK, [SystemNext]_system PROVE ProgramTypeOK'
  OBVIOUS
<1>n. n * n \in Nat /\ n * n > 1
  <2>1. n \in Nat /\ n > 1
    BY SizeAssumption
  <2> QED
    BY <2>1
<1>0. CASE UNCHANGED program
  BY <1>0 DEF program, ProgramTypeOK
<1>1. CASE TransferMatrix
  BY <1>1, <1>n DEF TransferMatrix, last, ProgramTypeOK
<1>2. CASE StartHardware
  BY <1>2 DEF StartHardware, ProgramTypeOK
<1>3. CASE Poll \/ GetInt \/ GetDet
  BY <1>0, <1>3 DEF Poll, GetInt, GetDet, Load
<1>4. CASE Answered
  BY <1>4, <1>n DEF Answered, last, ProgramTypeOK
<1>5. CASE FinalIteration
  BY <1>5 DEF FinalIteration, ProgramTypeOK
<1>6. CASE UNCHANGED system
  BY <1>0, <1>6 DEF system, program
<1> QED
  BY <1>0, <1>1, <1>2, <1>3, <1>4, <1>5, <1>6 DEF SystemNext, Processor

\* The loops of the_algorithm stay inside the matrices.
LEMMA ProgramTypeCorrect == SystemSpec => []ProgramTypeOK
<1>1. SystemInit => ProgramTypeOK
  BY Room DEF SystemInit, ProgramTypeOK
<1> QED
  BY <1>1, ProgramTypeStep, PTL DEF SystemSpec

\* What the statements put on the wires is a request of the bus.
LEMMA RequestsKnown ==
  ASSUME ProgramTypeOK
  PROVE  /\ kk_start \in Request /\ kk_isrunning \in Request
         /\ kk_getintelem \in Request /\ kk_getdetelem \in Request
         /\ kk_putelem(matrix_O[<<i, j>>]) \in Request
<1>1. <<i, j>> \in Cells
  BY CellOf DEF ProgramTypeOK
<1>2. <<i, j>>[1] = i /\ <<i, j>>[2] = j
  OBVIOUS
<1>3. matrix_O \in Inputs
  BY DEF ProgramTypeOK
<1>4. kk_start \in Request /\ kk_isrunning \in Request
  BY ProgramRequestsAssumption
<1>5. kk_getintelem \in Request /\ kk_getdetelem \in Request
  BY <1>1, <1>2, ProgramRequestsAssumption DEF kk_getintelem, kk_getdetelem
<1>6. kk_putelem(matrix_O[<<i, j>>]) \in Request
  BY <1>1, <1>2, <1>3, ProgramRequestsAssumption DEF kk_putelem
<1> QED
  BY <1>4, <1>5, <1>6

\* A cycle of the program is a cycle of some master.
LEMMA ProcessorIsMaster ==
  ASSUME ProgramTypeOK, SlaveCycle, Processor
  PROVE  AnyRequest
<1>1. CASE Stalled
  BY <1>1 DEF Processor, Stalled, AnyRequest
<1>2. CASE ~Stalled /\ Silent
  BY <1>2 DEF Stalled, Silent, AnyRequest
<1>3. ASSUME ~Stalled, NEW r \in Request, wires' = r, issued' = r, ~awaiting'
      PROVE  AnyRequest
  BY <1>3 DEF Stalled, AnyRequest
<1>4. CASE ~Stalled /\ ~Silent
  <2>1. ~awaiting' /\ (TransferMatrix \/ StartHardware \/ Poll \/ GetInt \/ GetDet)
    BY <1>4 DEF Processor, AnswerDue
  <2> QED
    BY <1>3, <1>4, <2>1, RequestsKnown
    DEF TransferMatrix, StartHardware, Poll, GetInt, GetDet, Store, Load
<1> QED
  BY <1>1, <1>2, <1>4

\* The program in front of the accelerator keeps the rules of the bus: in
\* every behaviour of the system the accelerator is used as KKAvalonSlave
\* allows, for every size, input, arithmetic and schedule.
THEOREM Legal == SystemSpec => LegalMaster
<1>1. SystemInit => SlaveInit
  BY DEF SystemInit
<1>2. ProgramTypeOK /\ [SystemNext]_system => [SlaveNext]_all
  BY ProcessorIsMaster DEF SystemNext, SlaveNext, system, all
<1> QED
  BY <1>1, <1>2, ProgramTypeCorrect, PTL DEF SystemSpec, SlaveSpec, LegalMaster

-----------------------------------------------------------------------------
(* The elements arrive before the start.  The bus side keeps the order of   *)
(* the requests, so it is enough that the pending elements are the oldest   *)
(* ones and that the core stands still while there are some.                *)

IsPut(r) == r.command = "Write" /\ r.addr[1] = 0

AllPuts(s) == \A p \in 1 .. Len(s) : IsPut(s[p])
AnyPut(s) == \E p \in 1 .. Len(s) : IsPut(s[p])
PutsLead(s) == \A p \in 1 .. Len(s) : IsPut(s[p]) => \A q \in 1 .. p : IsPut(s[q])

TransferInv ==
  /\ PutsLead(Unserved)
  /\ AnyPut(Unserved) => Idle
  /\ pc \in {"transfer", "start"} => Idle /\ AllPuts(Unserved)

\* What is left after the oldest one has gone.
LEMMA TailPuts ==
  ASSUME NEW s \in Seq(Request), s # <<>>
  PROVE  /\ Tail(s) \in Seq(Request)
         /\ PutsLead(s) => PutsLead(Tail(s))
         /\ AllPuts(s) => AllPuts(Tail(s))
         /\ AnyPut(Tail(s)) => AnyPut(s)
<1> DEFINE t == Tail(s)
<1>1. /\ t \in Seq(Request) /\ Len(s) \in Nat /\ Len(t) = Len(s) - 1 /\ Len(t) \in Nat
      /\ \A p \in 1 .. Len(t) : t[p] = s[p + 1]
  BY HeadTailProperties, LenProperties
<1> HIDE DEF t
<1>2. ASSUME NEW p \in 1 .. Len(t) PROVE p + 1 \in 1 .. Len(s) /\ t[p] = s[p + 1]
  BY <1>1
<1>3. ASSUME PutsLead(s), NEW p \in 1 .. Len(t), IsPut(t[p]), NEW q \in 1 .. p
      PROVE  IsPut(t[q])
  <2>1. IsPut(s[p + 1]) /\ p + 1 \in 1 .. Len(s)
    BY <1>2, <1>3
  <2>2. q \in 1 .. Len(t) /\ q + 1 \in 1 .. p + 1
    BY <1>1
  <2>3. IsPut(s[q + 1])
    BY <1>3, <2>1, <2>2 DEF PutsLead
  <2> QED
    BY <1>2, <2>2, <2>3
<1>4. PutsLead(s) => PutsLead(t)
  BY <1>3 DEF PutsLead
<1>5. AllPuts(s) => AllPuts(t)
  BY <1>2 DEF AllPuts
<1>6. AnyPut(t) => AnyPut(s)
  BY <1>2 DEF AnyPut
<1> QED
  BY <1>1, <1>4, <1>5, <1>6 DEF t

\* A request may be added if it is no element, or if all the others are.
LEMMA AppendPuts ==
  ASSUME NEW s \in Seq(Request), NEW r \in Request, PutsLead(s)
  PROVE  /\ ~IsPut(r) \/ AllPuts(s) => PutsLead(s \o <<r>>)
         /\ IsPut(r) /\ AllPuts(s) => AllPuts(s \o <<r>>)
         /\ ~IsPut(r) /\ AnyPut(s \o <<r>>) => AnyPut(s)
<1> DEFINE t == s \o <<r>>
<1>1. /\ Len(s) \in Nat /\ Len(t) = Len(s) + 1
      /\ \A p \in 1 .. Len(s) : t[p] = s[p]
      /\ t[Len(s) + 1] = r
  <2>1. <<r>> \in Seq(Request) /\ Len(<<r>>) = 1 /\ <<r>>[1] = r
    OBVIOUS
  <2>2. Len(t) = Len(s) + 1
    BY <2>1, ConcatProperties
  <2> HIDE DEF t
  <2> QED
    BY <2>1, <2>2, Places DEF t
<1> HIDE DEF t
<1>2. ASSUME NEW p \in 1 .. Len(t) PROVE p \in 1 .. Len(s) \/ (p = Len(s) + 1 /\ t[p] = r)
  BY <1>1
<1>3. ASSUME AllPuts(s), IsPut(r) PROVE AllPuts(t)
  BY <1>1, <1>2, <1>3 DEF AllPuts
<1>4. ASSUME ~IsPut(r) \/ AllPuts(s),
             NEW p \in 1 .. Len(t), IsPut(t[p]), NEW q \in 1 .. p
      PROVE  IsPut(t[q])
  <2>1. CASE p \in 1 .. Len(s)
    <3>1. IsPut(s[p]) /\ q \in 1 .. Len(s)
      BY <1>1, <1>4, <2>1
    <3> QED
      BY <1>1, <2>1, <3>1 DEF PutsLead
  <2>2. CASE p = Len(s) + 1 /\ t[p] = r
    <3>1. AllPuts(t)
      BY <1>3, <1>4, <2>2
    <3>2. q \in 1 .. Len(t)
      BY <1>1
    <3> QED
      BY <3>1, <3>2 DEF AllPuts
  <2> QED
    BY <1>2, <2>1, <2>2
<1>5. ~IsPut(r) \/ AllPuts(s) => PutsLead(t)
  BY <1>4 DEF PutsLead
<1>6. ~IsPut(r) /\ AnyPut(t) => AnyPut(s)
  BY <1>1, <1>2 DEF AnyPut
<1> QED
  BY <1>3, <1>5, <1>6 DEF t

\* The oldest request is the one at the head of the FIFOs, if there is one.
LEMMA OldestAtHead ==
  ASSUME SlaveTypeOK
  PROVE  /\ Unserved \in Seq(Request)
         /\ first # Nothing => /\ first \in Request
                               /\ Unserved # <<>> /\ Len(Unserved) \in Nat \ {0}
                               /\ Unserved[1] = first
<1>1. /\ first \in Request \cup {Nothing}
      /\ AtHead \in Seq(Request) /\ Behind \in Seq(Request)
      /\ OneOrNone(wires) \in Seq(Request)
  BY BypassType, OneOrNoneType DEF SlaveTypeOK, AtHead
<1>2. Unserved = (AtHead \o Behind) \o OneOrNone(wires)
  BY BypassKeepsOrder DEF Unserved
<1>3. AtHead \o Behind \in Seq(Request) /\ Unserved \in Seq(Request)
  BY <1>1, <1>2, ConcatProperties
<1>4. ASSUME first # Nothing
      PROVE  Unserved # <<>> /\ Len(Unserved) \in Nat \ {0} /\ Unserved[1] = first
  <2>1. Len(AtHead) = 1 /\ AtHead[1] = first
    BY <1>4 DEF AtHead, OneOrNone
  <2>2. Len(AtHead \o Behind) \in Nat \ {0} /\ (AtHead \o Behind)[1] = first
    BY <1>1, <2>1, ConcatProperties, LenProperties
  <2>3. Len(Unserved) \in Nat \ {0} /\ Unserved[1] = first
    BY <1>1, <1>2, <1>3, <2>2, ConcatProperties, LenProperties
  <2> QED
    BY <2>3
<1> QED
  BY <1>1, <1>3, <1>4

\* A core that stands still goes on standing still while elements are served.
LEMMA PutsKeepIdle ==
  ASSUME SlaveTypeOK, SlaveCycle, Idle, first # Nothing => IsPut(first)
  PROVE  Idle'
<1>1. CASE CoreRules
  BY <1>1, StateFacts
  DEF CoreRules, InitCycle, init, IterateCycle, iterate, Starting, Iterating, Idle, core
<1>2. CASE processWrite
  <2>1. first.addr[1] = 0
    BY <1>2 DEF processWrite, IsPut
  <2>2. Put /\ ~Start
    BY <2>1 DEF Put, Start
  <2> QED
    BY <1>2, <2>2 DEF processWrite, PutCycle, putElem, Idle
<1> QED
  BY <1>1, <1>2 DEF SlaveCycle, processRead, NoService

\* What the program adds: an element while it transfers, and nothing that
\* is an element later on.
LEMMA ProgramIssues ==
  ASSUME ProgramTypeOK, Processor
  PROVE  /\ issued' # Nothing /\ IsPut(issued') => pc = "transfer"
         /\ pc' \in {"transfer", "start"} =>
              /\ pc \in {"transfer", "start"}
              /\ issued' # Nothing => IsPut(issued')
<1>1. CASE UNCHANGED program /\ issued' = Nothing
  BY <1>1 DEF program
<1>2. CASE Silent /\ Answered
  BY <1>2 DEF Silent, Answered
<1>3. CASE TransferMatrix
  <2>1. issued' = kk_putelem(matrix_O[<<i, j>>]) /\ pc = "transfer"
    BY <1>3 DEF TransferMatrix, Store
  <2>2. IsPut(issued')
    BY <2>1 DEF kk_putelem, Write, IsPut
  <2> QED
    BY <2>1, <2>2
<1>4. CASE StartHardware
  <2>1. issued' = kk_start /\ pc' = "poll"
    BY <1>4 DEF StartHardware, Store
  <2>2. ~IsPut(issued')
    BY <2>1 DEF kk_start, Write, IsPut
  <2> QED
    BY <2>1, <2>2
<1>5. CASE Poll \/ GetInt \/ GetDet
  <2>1. issued' \in {kk_isrunning, kk_getintelem, kk_getdetelem}
        /\ pc \in {"poll", "getint", "getdet"} /\ pc' = pc
    BY <1>5 DEF Poll, GetInt, GetDet, Load, program
  <2>2. ~IsPut(issued')
    BY <2>1 DEF kk_isrunning, kk_getintelem, kk_getdetelem, Read, IsPut
  <2> QED
    BY <2>1, <2>2
<1>6. CASE Silent /\ FinalIteration
  BY <1>6 DEF Silent, FinalIteration
<1> QED
  BY <1>1, <1>2, <1>3, <1>4, <1>5, <1>6 DEF Processor, Silent

\* What a cycle leaves of the unserved requests, before the program adds to them.
Left == IF served' = Nothing THEN Unserved ELSE Tail(Unserved)

LEMMA CycleLeaves ==
  ASSUME SlaveTypeOK, SlaveTypeOK', ProgramTypeOK, SystemNext
  PROVE  /\ Left \in Seq(Request)
         /\ Unserved' = Left \o OneOrNone(issued')
         /\ served' # Nothing => Unserved # <<>> /\ served' = Head(Unserved)
         /\ issued' \in Request \cup {Nothing}
<1>1. SlaveCycle /\ Processor /\ SlaveNext
  BY ProcessorIsMaster DEF SystemNext, SlaveNext
<1>2. Service!Next
  BY <1>1, CycleInOrder
<1>3. Service!New = OneOrNone(issued')
  BY DEF Service!New, OneOrNone
<1>4. Unserved \in Seq(Request)
  BY OldestAtHead
<1>5. CASE Service!Wait
  BY <1>2, <1>3, <1>4, <1>5 DEF Service!Wait, Service!Next, Unserved, Left
<1>6. CASE Service!Serve
  <2>1. /\ Unserved # <<>> /\ served' = Head(Unserved)
        /\ Unserved' = Tail(Unserved) \o OneOrNone(issued')
    BY <1>3, <1>6 DEF Service!Serve, Unserved
  <2>2. served' \in Request /\ Tail(Unserved) \in Seq(Request)
    BY <1>4, <2>1, HeadTailProperties
  <2>3. served' # Nothing
    BY <2>2, NothingAssumption
  <2> QED
    BY <1>2, <2>1, <2>2, <2>3 DEF Service!Next, Left
<1> QED
  BY <1>2, <1>5, <1>6 DEF Service!Next

\* A cycle serves the oldest request or none, and adds one or none at the end.
LEMMA TransferStep ==
  ASSUME SlaveTypeOK, SlaveTypeOK', ProgramTypeOK, TransferInv, SystemNext
  PROVE  TransferInv'
<1>1. SlaveCycle /\ Processor
  BY DEF SystemNext
<1>3. /\ Unserved' = Left \o OneOrNone(issued')
      /\ served' # Nothing => Unserved # <<>>
      /\ issued' \in Request \cup {Nothing}
  BY CycleLeaves
<1>4. /\ Left \in Seq(Request) /\ PutsLead(Left)
      /\ AnyPut(Left) => AnyPut(Unserved)
      /\ AllPuts(Unserved) => AllPuts(Left)
  BY <1>3, OldestAtHead, TailPuts DEF TransferInv, Left
<1>5. AnyPut(Unserved) \/ pc \in {"transfer", "start"} => Idle'
  <2> SUFFICES ASSUME AnyPut(Unserved) \/ pc \in {"transfer", "start"} PROVE Idle'
    OBVIOUS
  <2>1. Idle
    BY DEF TransferInv
  <2>2. ASSUME first # Nothing PROVE IsPut(first)
    <3>1. Len(Unserved) \in Nat \ {0} /\ Unserved[1] = first
      BY <2>2, OldestAtHead
    <3>2. IsPut(Unserved[1])
      BY <3>1 DEF TransferInv, AnyPut, AllPuts, PutsLead
    <3> QED
      BY <3>1, <3>2
  <2> QED
    BY <1>1, <2>1, <2>2, PutsKeepIdle
<1>6. CASE issued' = Nothing
  <2>1. Unserved' = Left
    BY <1>3, <1>4, <1>6, ConcatEmptySeq DEF OneOrNone
  <2> QED
    BY <1>1, <1>4, <1>5, <2>1, ProgramIssues DEF TransferInv
<1>7. CASE issued' # Nothing
  <2>1. Unserved' = Left \o <<issued'>> /\ issued' \in Request
    BY <1>3, <1>7 DEF OneOrNone
  <2>2. IsPut(issued') => pc = "transfer" /\ AllPuts(Left)
    BY <1>1, <1>4, <1>7, ProgramIssues DEF TransferInv
  <2>3. PutsLead(Unserved')
    BY <1>4, <2>1, <2>2, AppendPuts
  <2>4. AnyPut(Unserved') => Idle'
    BY <1>4, <1>5, <2>1, <2>2, AppendPuts
  <2>5. pc' \in {"transfer", "start"} => Idle' /\ AllPuts(Unserved')
    BY <1>1, <1>4, <1>5, <1>7, <2>1, <2>2, AppendPuts, ProgramIssues
  <2> QED
    BY <2>3, <2>4, <2>5 DEF TransferInv
<1> QED
  BY <1>6, <1>7

\* No element comes into a run: although the stores are posted and wait in
\* two FIFOs, all of them are served before the start, for every size, input
\* and schedule.
THEOREM ElementsFirst == SystemSpec => []PutsReachAnIdleCore
<1>1. SystemInit => TransferInv
  <2> SUFFICES ASSUME SystemInit PROVE TransferInv
    OBVIOUS
  <2>1. Unserved = <<>> /\ Idle
    BY DEF SystemInit, SlaveInit, BusInit, Init, Unserved, Pending, OneOrNone, Idle
  <2> QED
    BY <2>1 DEF TransferInv, PutsLead, AnyPut, AllPuts
<1>2. SlaveTypeOK /\ SlaveTypeOK' /\ ProgramTypeOK /\ TransferInv /\ [SystemNext]_system
        => TransferInv'
  <2> SUFFICES ASSUME SlaveTypeOK, SlaveTypeOK', ProgramTypeOK, TransferInv,
                      [SystemNext]_system
               PROVE  TransferInv'
    OBVIOUS
  <2>1. CASE UNCHANGED system
    <3>1. Unserved' = Unserved /\ pc' = pc /\ rState' = rState
      BY <2>1 DEF system, Unserved, Pending, OneOrNone
    <3> QED
      BY <3>1 DEF TransferInv, Idle
  <2> QED
    BY <2>1, TransferStep
<1>3. SlaveTypeOK /\ TransferInv => PutsReachAnIdleCore
  <2> SUFFICES ASSUME SlaveTypeOK, TransferInv, first # Nothing, first.command = "Write", Put
               PROVE  ~isRunning
    BY DEF PutsReachAnIdleCore
  <2>1. Unserved[1] = first /\ Len(Unserved) \in Nat \ {0} /\ IsPut(first)
    BY OldestAtHead DEF IsPut, Put
  <2>2. AnyPut(Unserved)
    BY <2>1 DEF AnyPut
  <2> QED
    BY <2>2 DEF TransferInv, Idle, isRunning
<1>4. SystemSpec => []SlaveTypeOK
  BY Legal, SlaveTypeCorrect, PTL DEF LegalMaster
<1> QED
  BY <1>1, <1>2, <1>3, <1>4, ProgramTypeCorrect, PTL DEF SystemSpec

-----------------------------------------------------------------------------
(* What the program reads.  Outcomes is a recursive function: a function   *)
(* that satisfies its equation exists because the smallest number of       *)
(* iterations without one would have a predecessor that has one.           *)

LEMMA NatMin ==
  ASSUME NEW S \in SUBSET Nat, S # {}
  PROVE  \E x \in S : \A y \in S : x <= y
<1> DEFINE R == {ss \in Nat \X Nat : ss[1] < ss[2]}
<1>0. IsWellFoundedOn(OpToRel(<, Nat), Nat)
  BY NatLessThanWellFounded
<1>1. R = OpToRel(<, Nat)
  BY Zenon DEF OpToRel
<1>3. IsWellFoundedOn(R, Nat)
  BY <1>0, <1>1
<1>4. \A x, y \in Nat : <<y, x>> \in R <=> y < x
  OBVIOUS
<1> HIDE DEF R
<1>2. PICK x \in S : \A y \in S : ~(<<y, x>> \in R)
  BY <1>3, WFMin
<1>5. ASSUME NEW y \in S PROVE x <= y
  <2>1. x \in Nat /\ y \in Nat /\ ~(y < x)
    BY <1>2, <1>4
  <2> QED
    BY <2>1
<1> QED
  BY <1>5

LEMMA AfterEquation ==
  ASSUME NEW m
  PROVE  After(m) = [k \in 0 .. n - 1 |->
           IF k = 0 THEN {<<m, m>>} ELSE UNION {Step(k - 1, pair) : pair \in After(m)[k - 1]}]
<1> DEFINE U(k, s) == UNION {Step(k, pair) : pair \in s}
           Rec(f, d) == f = [k \in 0 .. d |-> IF k = 0 THEN {<<m, m>>} ELSE U(k - 1, f[k - 1])]
           Bad == {d \in Nat : ~\E f : Rec(f, d)}
<1>1. \E f : Rec(f, n - 1)
  <2>1. \E f : Rec(f, 0)
    <3> DEFINE f == [k \in 0 .. 0 |-> {<<m, m>>}]
    <3> HIDE DEF U
    <3>1. Rec(f, 0)
      OBVIOUS
    <3> QED
      BY <3>1
  <2>2. ASSUME NEW d \in Nat, NEW g, Rec(g, d) PROVE \E f : Rec(f, d + 1)
    <3> DEFINE f == [k \in 0 .. d + 1 |-> IF k = d + 1 THEN U(d, g[d]) ELSE g[k]]
    <3> HIDE DEF U
    <3>1. ASSUME NEW k \in 0 .. d + 1
          PROVE  f[k] = IF k = 0 THEN {<<m, m>>} ELSE U(k - 1, f[k - 1])
      <4>1. CASE k = 0
        BY <2>2, <4>1
      <4>2. CASE k = d + 1
        <5>1. f[k] = U(d, g[d]) /\ k - 1 = d /\ k # 0 /\ d \in 0 .. d + 1 /\ d # d + 1
          BY <4>2
        <5>2. f[d] = g[d]
          BY <5>1
        <5> QED
          BY <5>1, <5>2
      <4>3. CASE k # 0 /\ k # d + 1
        <5>1. k \in 0 .. d /\ k - 1 \in 0 .. d + 1 /\ k - 1 # d + 1
          BY <4>3
        <5>2. f[k] = g[k] /\ f[k - 1] = g[k - 1]
          BY <4>3, <5>1
        <5>3. g[k] = U(k - 1, g[k - 1])
          BY <2>2, <4>3, <5>1
        <5> QED
          BY <4>3, <5>2, <5>3
      <4> QED
        BY <4>1, <4>2, <4>3
    <3>2. f = [k \in 0 .. d + 1 |-> f[k]]
      OBVIOUS
    <3> HIDE DEF f
    <3>3. f = [k \in 0 .. d + 1 |-> IF k = 0 THEN {<<m, m>>} ELSE U(k - 1, f[k - 1])]
      BY <3>1, <3>2
    <3> QED
      BY <3>3
  <2> HIDE DEF Rec
  <2>3. Bad = {}
    <3> SUFFICES ASSUME Bad # {} PROVE FALSE
      OBVIOUS
    <3>1. PICK d \in Bad : \A e \in Bad : d <= e
      <4>1. Bad \in SUBSET Nat
        OBVIOUS
      <4> HIDE DEF Bad
      <4> QED
        BY <4>1, NatMin
    <3>2. d \in Nat /\ ~\E f : Rec(f, d)
      OBVIOUS
    <3>3. d # 0
      BY <2>1, <3>2
    <3>4. d - 1 \in Nat /\ ~(d <= d - 1) /\ (d - 1) + 1 = d
      BY <3>2, <3>3
    <3>5. \E f : Rec(f, d - 1)
      BY <3>1, <3>4
    <3> QED
      BY <2>2, <3>2, <3>4, <3>5
  <2>4. n - 1 \in Nat
    BY SizeAssumption
  <2> QED
    BY <2>3, <2>4
<1>2. After(m) = CHOOSE f : Rec(f, n - 1)
  BY DEF After
<1> HIDE DEF Rec
<1>3. Rec(After(m), n - 1)
  BY <1>1, <1>2
<1> QED
  BY <1>3 DEF Rec

\* The algorithm begins with the matrix itself ...
LEMMA AfterNone == ASSUME NEW m PROVE <<m, m>> \in After(m)[0]
<1>1. 0 \in 0 .. n - 1
  BY StateFacts
<1> DEFINE U(d, s) == UNION {Step(d, before) : before \in s}
<1>2. After(m) = [d \in 0 .. n - 1 |-> IF d = 0 THEN {<<m, m>>} ELSE U(d - 1, After(m)[d - 1])]
  BY AfterEquation
<1> HIDE DEF U
<1>3. After(m)[0] = {<<m, m>>}
  BY <1>1, <1>2
<1> QED
  BY <1>3

\* ... and an iteration goes on with what the ones before it may give.
LEMMA AfterOneMore ==
  ASSUME NEW m, NEW k \in Nat, k < n - 1, NEW pair \in After(m)[k], NEW more \in Step(k, pair)
  PROVE  more \in After(m)[k + 1]
<1>1. k + 1 \in 0 .. n - 1 /\ k + 1 # 0 /\ (k + 1) - 1 = k
  BY StateFacts
<1>2. After(m)[k + 1] = UNION {Step(k, before) : before \in After(m)[k]}
  <2> DEFINE U(d, s) == UNION {Step(d, before) : before \in s}
  <2>1. After(m) = [d \in 0 .. n - 1 |-> IF d = 0 THEN {<<m, m>>} ELSE U(d - 1, After(m)[d - 1])]
    BY AfterEquation
  <2> HIDE DEF U
  <2>2. After(m)[k + 1] = U(k, After(m)[k])
    BY <1>1, <2>1
  <2> QED
    BY <2>2 DEF U
<1> QED
  BY <1>2

-----------------------------------------------------------------------------
(* The cells in the order of the loops. *)

CellNo(p) == <<p \div n, p % n>>

LEMMA Square == n \in Nat /\ n > 1 /\ n * n \in Nat /\ n * n > 1
<1>1. n \in Nat /\ n > 1
  BY SizeAssumption
<1> QED
  BY <1>1

LEMMA CellNoIsCell ==
  ASSUME NEW p \in 0 .. n * n - 1
  PROVE  /\ p \div n \in 0 .. n - 1 /\ p % n \in 0 .. n - 1
         /\ CellNo(p) \in Cells
<1> DEFINE q == p \div n
           r == p % n
<1>1. n \in Nat /\ n > 0 /\ p \in Nat /\ p < n * n
  BY SizeAssumption
<1>2. q \in Int /\ r \in 0 .. n - 1 /\ p = n * q + r /\ q >= 0
  BY <1>1
<1> HIDE DEF q, r
<1>3. q < n
  <2> SUFFICES ASSUME q >= n PROVE FALSE
    BY <1>1, <1>2
  <2>1. n * q >= n * n
    BY <1>1, <1>2
  <2> QED
    BY <1>1, <1>2, <2>1
<1>4. q \in 0 .. n - 1 /\ <<q, r>> \in Cells
  BY <1>1, <1>2, <1>3 DEF Cells, Idx
<1> QED
  BY <1>2, <1>4 DEF q, r, CellNo

LEMMA EveryCell ==
  ASSUME NEW c \in Cells
  PROVE  \E p \in 0 .. n * n - 1 : CellNo(p) = c
<1>1. PICK q \in Idx, r \in Idx : c = <<q, r>>
  BY DEF Cells
<1>2. n \in Nat \ {0} /\ q \in Nat /\ r \in 0 .. n - 1 /\ q <= n - 1
  BY <1>1, SizeAssumption DEF Idx
<1> DEFINE p == n * q + r
<1>3. p \in 0 .. n * n - 1
  <2>1. n * q \in Nat
    BY <1>2
  <2>2. n * q <= n * (n - 1)
    BY <1>2
  <2>3. n * (n - 1) = n * n - n
    BY <1>2
  <2> QED
    BY <1>2, <2>1, <2>2, <2>3
<1>4. p % n = r
  BY <1>2, ModUnique
<1>5. p \div n = q
  <2>1. p = n * (p \div n) + (p % n) /\ p \div n \in Int
    BY <1>2, <1>3
  <2> DEFINE d == p \div n
  <2>2. n * q = n * d /\ d \in Int
    BY <1>2, <1>4, <2>1
  <2> HIDE DEF d
  <2>3. ~(q < d) /\ ~(d < q)
    <3>1. ASSUME q < d PROVE FALSE
      <4>1. n * d >= n * (q + 1)
        BY <1>2, <2>2, <3>1
      <4> QED
        BY <1>2, <2>2, <4>1
    <3>2. ASSUME d < q PROVE FALSE
      <4>1. n * q >= n * (d + 1)
        BY <1>2, <2>2, <3>2
      <4> QED
        BY <1>2, <2>2, <4>1
    <3> QED
      BY <3>1, <3>2
  <2>4. q = d
    BY <1>2, <2>2, <2>3
  <2> QED
    BY <2>4 DEF d
<1> QED
  BY <1>1, <1>3, <1>4, <1>5 DEF CellNo

-----------------------------------------------------------------------------
(* The requests of the program.  It writes the elements, then the start,   *)
(* and has one load at a time after that; the unserved requests are the    *)
(* writes that the core has not seen yet, and that load.                   *)

WriteNo(p) ==
  IF p = n * n THEN kk_start
  ELSE Write(<<0, (p \div n) % 256, (p % n) % 256>>, to_bit(matrix_O[CellNo(p)]))

WritesIssued == CASE pc = "transfer" -> at [] pc = "start" -> n * n [] OTHER -> n * n + 1

CurrentLoad == CASE pc = "poll" -> kk_isrunning
                 [] pc = "getint" -> kk_getintelem
                 [] OTHER -> kk_getdetelem

\* The writes from number m to the last one before w.
Writes(s, m, w) ==
  /\ s \in Seq(Request)
  /\ Len(s) = w - m
  /\ \A p \in 1 .. Len(s) : s[p] = WriteNo(m + p - 1)

\* The writes before number m have been served.
Queued(m) ==
  \E s : /\ Writes(s, m, WritesIssued)
         /\ \/ Unserved = s
            \/ pc \in Loads /\ Unserved = s \o <<CurrentLoad>>

LEMMA LoadIsRead ==
  ASSUME ProgramTypeOK, pc \in Loads
  PROVE  CurrentLoad \in Request /\ IsRead(CurrentLoad)
<1>1. CurrentLoad \in {kk_isrunning, kk_getintelem, kk_getdetelem}
  BY DEF CurrentLoad, Loads
<1>2. CurrentLoad \in Request
  BY <1>1, RequestsKnown
<1>3. CurrentLoad.command = "Read"
  BY <1>1 DEF kk_isrunning, kk_getintelem, kk_getdetelem, Read
<1> QED
  BY <1>2, <1>3, NothingAssumption DEF IsRead

LEMMA WriteIsWrite ==
  ASSUME NEW p
  PROVE  WriteNo(p).command = "Write" /\ ~IsRead(WriteNo(p))
BY DEF WriteNo, kk_start, Write, IsRead

\* Which write is the next one.
LEMMA NextWrite ==
  ASSUME ProgramTypeOK
  PROVE  /\ pc = "transfer" => kk_putelem(matrix_O[<<i, j>>]) = WriteNo(WritesIssued)
         /\ pc = "start" => kk_start = WriteNo(WritesIssued)
         /\ WritesIssued \in 0 .. n * n + 1
<1>1. at \in 0 .. n * n - 1 /\ n * n \in Nat /\ at # n * n
  BY Square DEF ProgramTypeOK
<1>2. pc = "transfer" => kk_putelem(matrix_O[<<i, j>>]) = WriteNo(WritesIssued)
  BY <1>1 DEF WritesIssued, WriteNo, kk_putelem, CellNo, i, j
<1>3. pc = "start" => kk_start = WriteNo(WritesIssued)
  BY DEF WritesIssued, WriteNo
<1>4. WritesIssued \in 0 .. n * n + 1
  <2>1. WritesIssued \in {at, n * n, n * n + 1}
    BY DEF WritesIssued
  <2> QED
    BY <1>1, <2>1
<1> QED
  BY <1>2, <1>3, <1>4

\* The oldest write is number m, and the others follow it.
LEMMA WritesFirst ==
  ASSUME NEW m \in Nat, NEW w \in Nat, NEW s, Writes(s, m, w), s # <<>>
  PROVE  /\ Head(s) = WriteNo(m) /\ m < w
         /\ Writes(Tail(s), m + 1, w)
<1>1. s \in Seq(Request) /\ Len(s) \in Nat /\ Len(s) # 0 /\ Len(s) = w - m
  BY LenProperties, EmptySeq DEF Writes
<1> DEFINE t == Tail(s)
           l == Len(s)
<1>2. /\ t \in Seq(Request) /\ Len(t) = l - 1
      /\ \A p \in 1 .. Len(t) : t[p] = s[p + 1]
  BY <1>1, HeadTailProperties
<1>3. Head(s) = s[1]
  BY <1>1
<1>4. \A p \in 1 .. l : s[p] = WriteNo(m + p - 1)
  BY DEF Writes
<1>5. l \in Nat /\ l # 0 /\ l = w - m
  BY <1>1
<1> HIDE DEF t, l
<1>6. m < w /\ Len(t) = w - (m + 1) /\ 1 \in 1 .. l /\ m + 1 - 1 = m
  BY <1>2, <1>5
<1>7. s[1] = WriteNo(m)
  BY <1>4, <1>6
<1>8. ASSUME NEW p \in 1 .. Len(t) PROVE t[p] = WriteNo((m + 1) + p - 1)
  <2>1. p + 1 \in 1 .. l /\ m + (p + 1) - 1 = (m + 1) + p - 1
    BY <1>2, <1>5
  <2>2. s[p + 1] = WriteNo(m + (p + 1) - 1)
    BY <1>4, <2>1
  <2> QED
    BY <1>2, <2>1, <2>2
<1>9. Writes(t, m + 1, w)
  BY <1>2, <1>6, <1>8 DEF Writes
<1> QED
  BY <1>3, <1>6, <1>7, <1>9 DEF t

\* A write that is issued goes behind the others.
LEMMA WritesMore ==
  ASSUME NEW m \in Nat, NEW w \in Nat, NEW s, Writes(s, m, w), WriteNo(w) \in Request
  PROVE  Writes(s \o <<WriteNo(w)>>, m, w + 1)
<1> DEFINE r == WriteNo(w)
           u == <<r>>
           t == s \o u
           l == Len(s)
<1>1. s \in Seq(Request) /\ l \in Nat /\ l = w - m
  BY LenProperties DEF Writes
<1>2. \A p \in 1 .. l : s[p] = WriteNo(m + p - 1)
  BY DEF Writes
<1>3. u \in Seq(Request) /\ Len(u) = 1 /\ u[1] = r
  OBVIOUS
<1> HIDE DEF u, r
<1>4. /\ t \in Seq(Request) /\ Len(t) = l + 1
      /\ \A p \in 1 .. l : t[p] = s[p]
      /\ t[l + 1] = r
  <2>1. t \in Seq(Request) /\ Len(t) = Len(s) + Len(u)
    BY <1>1, <1>3, ConcatProperties
  <2>2. /\ \A p \in 1 .. Len(s) : (s \o u)[p] = s[p]
        /\ \A p \in 1 .. Len(u) : (s \o u)[Len(s) + p] = u[p]
    BY <1>1, <1>3, Places
  <2>3. 1 \in 1 .. Len(u)
    BY <1>3
  <2> QED
    BY <1>3, <2>1, <2>2, <2>3
<1> HIDE DEF t, l
<1>5. ASSUME NEW p \in 1 .. Len(t) PROVE t[p] = WriteNo(m + p - 1)
  <2>1. CASE p \in 1 .. l
    BY <1>2, <1>4, <2>1
  <2>2. CASE p = l + 1
    <3>1. m + p - 1 = w
      BY <1>1, <2>2
    <3> QED
      BY <1>4, <2>2, <3>1 DEF r
  <2> QED
    BY <1>1, <1>4, <2>1, <2>2
<1>6. Len(t) = (w + 1) - m
  BY <1>1, <1>4
<1>7. Writes(t, m, w + 1)
  BY <1>4, <1>5, <1>6 DEF Writes
<1> QED
  BY <1>7 DEF t, u, r

\* A concatenation loses its head as its first part does.
LEMMA HeadOfConcat ==
  ASSUME NEW s \in Seq(Request), NEW t \in Seq(Request), s # <<>>
  PROVE  Head(s \o t) = Head(s) /\ Tail(s \o t) = Tail(s) \o t
<1> DEFINE h == Head(s)
           u == <<h>>
           r == Tail(s)
<1>1. h \in Request /\ r \in Seq(Request) /\ u \in Seq(Request)
  BY HeadTailProperties
<1>2. s = u \o r
  OBVIOUS
<1>3. s \o t = u \o (r \o t)
  <2> HIDE DEF h, u, r
  <2> QED
    BY <1>1, <1>2, ConcatAssociative
<1>4. r \o t \in Seq(Request)
  BY <1>1, ConcatProperties
<1> DEFINE v == r \o t
<1> HIDE DEF v, r, h
<1>5. Head(u \o v) = h /\ Tail(u \o v) = v
  BY <1>1, <1>4 DEF v
<1> QED
  BY <1>3, <1>5 DEF v, r, h

\* Either nothing is served, or the next write, or the load, when there are no
\* writes left.
Served(m, k) ==
  \/ served' = Nothing /\ k = m
  \/ /\ served' # Nothing
     /\ \/ served' = WriteNo(m) /\ k = m + 1 /\ m < WritesIssued
        \/ served' = CurrentLoad /\ pc \in Loads /\ k = m /\ m = WritesIssued

LEMMA QueueLeft ==
  ASSUME SlaveTypeOK, SlaveTypeOK', ProgramTypeOK, SystemNext,
         NEW m \in Nat, Queued(m)
  PROVE  \E s : \E k \in {m, m + 1} :
           /\ Writes(s, k, WritesIssued)
           /\ \/ Left = s
              \/ pc \in Loads /\ Left = s \o <<CurrentLoad>> /\ ~IsRead(served')
           /\ Served(m, k)
<1> DEFINE w == WritesIssued
           l == CurrentLoad
<1>1. PICK s : Writes(s, m, w) /\ (Unserved = s \/ (pc \in Loads /\ Unserved = s \o <<l>>))
  BY DEF Queued
<1>2. w \in Nat /\ s \in Seq(Request)
  BY <1>1, NextWrite, Square DEF Writes
<1>3. CASE served' = Nothing
  BY <1>1, <1>3 DEF Left, IsRead, Served
<1>4. CASE served' # Nothing
  <2>1. Unserved # <<>> /\ served' = Head(Unserved) /\ Left = Tail(Unserved)
    BY <1>4, CycleLeaves DEF Left
  <2>2. CASE s = <<>>
    <3>1. pc \in Loads /\ Unserved = <<>> \o <<l>>
      BY <1>1, <2>1, <2>2
    <3>2. l \in Request /\ <<l>> \in Seq(Request)
      BY <3>1, LoadIsRead
    <3>3. Unserved = <<l>>
      <4> HIDE DEF l
      <4> QED
        BY <3>1, <3>2, ConcatEmptySeq
    <3>4. served' = l /\ Left = s
      <4> HIDE DEF l
      <4> QED
        BY <2>1, <2>2, <3>3
    <3>5. m = w
      <4>1. Len(s) = w - m /\ Len(s) = 0
        BY <1>1, <2>2 DEF Writes
      <4> HIDE DEF w
      <4> QED
        BY <1>2, <4>1
    <3> QED
      BY <1>1, <1>4, <3>1, <3>4, <3>5 DEF Served
  <2>3. CASE s # <<>>
    <3>1. Head(s) = WriteNo(m) /\ m < w /\ Writes(Tail(s), m + 1, w)
      BY <1>1, <1>2, <2>3, WritesFirst
    <3>2. CASE Unserved = s
      BY <1>4, <2>1, <3>1, <3>2 DEF Served
    <3>3. CASE pc \in Loads /\ Unserved = s \o <<l>>
      <4>1. <<l>> \in Seq(Request)
        BY <3>3, LoadIsRead
      <4> DEFINE u == <<l>>
      <4> HIDE DEF u
      <4>2. Head(s \o u) = Head(s) /\ Tail(s \o u) = Tail(s) \o u
        BY <1>2, <2>3, <4>1, HeadOfConcat DEF u
      <4>3. served' = WriteNo(m) /\ Left = Tail(s) \o <<l>>
        BY <2>1, <3>1, <3>3, <4>2 DEF u
      <4>4. ~IsRead(served')
        BY <4>3, WriteIsWrite
      <4> QED
        BY <1>4, <3>1, <3>3, <4>3, <4>4 DEF Served
    <3> QED
      BY <1>1, <3>2, <3>3
  <2> QED
    BY <2>2, <2>3
<1> QED
  BY <1>3, <1>4

\* A load whose read is not awaited has been served.
LEMMA NoLoadLeft ==
  ASSUME SlaveTypeOK, SlaveTypeOK', ProgramTypeOK, SystemNext, WaitInv',
         ~awaiting', wires' = issued',
         NEW s \in Seq(Request), NEW r \in Request, IsRead(r)
  PROVE  Left # s \o <<r>>
<1> DEFINE u == <<r>>
           v == OneOrNone(issued')
<1>1. u \in Seq(Request) /\ Left \in Seq(Request) /\ Unserved' = Left \o v /\ v \in Seq(Request)
  BY CycleLeaves, OneOrNoneType
<1>2. Unserved' = Pending' \o v
  BY DEF Unserved, OneOrNone
<1>3. NoRead(Pending')
  BY DEF WaitInv
<1>4. Pending' \in Seq(Request)
  <2>1. OneOrNone(cliReq') \in Seq(Request) /\ reqFIFO' \in Seq(Request)
    BY OneOrNoneType DEF SlaveTypeOK
  <2> DEFINE c == OneOrNone(cliReq')
  <2>2. Pending' = c \o reqFIFO'
    BY DEF Pending, OneOrNone
  <2> HIDE DEF c
  <2> QED
    BY <2>1, <2>2, ConcatProperties DEF c
<1>5. Pending' = Left
  <2> DEFINE a == Pending'
             b == Left
  <2>1. a \in Seq(Request) /\ b \in Seq(Request) /\ v \in Seq(Request) /\ a \o v = b \o v
    BY <1>1, <1>2, <1>4
  <2> HIDE DEF a, b, v
  <2>2. a = b
    BY <2>1, ConcatSimplifications
  <2> QED
    BY <2>2 DEF a, b
<1>6. ~NoRead(u)
  <2>1. DOMAIN u = {1} /\ u[1] = r
    OBVIOUS
  <2> QED
    BY <2>1 DEF NoRead
<1> HIDE DEF u, v
<1>7. ~NoRead(s \o u)
  BY <1>1, <1>6, NoReadConcat
<1> QED
  BY <1>3, <1>5, <1>7 DEF u

\* The program adds the next write, or the load, or nothing.
LEMMA QueueStep ==
  ASSUME SlaveTypeOK, SlaveTypeOK', CoreTypeOK, ProgramTypeOK, SystemNext, WaitInv',
         NEW m \in Nat, Queued(m)
  PROVE  \E k \in {m, m + 1} : Queued(k)' /\ Served(m, k)
<1> DEFINE w == WritesIssued
           l == CurrentLoad
<1>0. PICK s : \E k \in {m, m + 1} :
        /\ Writes(s, k, w) /\ Served(m, k)
        /\ \/ Left = s
           \/ pc \in Loads /\ Left = s \o <<l>> /\ ~IsRead(served')
  BY QueueLeft
<1>1. PICK k \in {m, m + 1} :
        /\ Writes(s, k, w) /\ Served(m, k)
        /\ \/ Left = s
           \/ pc \in Loads /\ Left = s \o <<l>> /\ ~IsRead(served')
  BY <1>0
<1>2. k \in Nat /\ w \in Nat /\ s \in Seq(Request) /\ Left \in Seq(Request)
  BY <1>1, NextWrite, Square, CycleLeaves DEF Writes
<1>3. SlaveCycle /\ Processor /\ matrix_O' = matrix_O
  BY DEF SystemNext, Processor, program, Silent, TransferMatrix, StartHardware, Poll, GetInt,
         GetDet, Load, FinalIteration, Answered
<1>4. \A p : WriteNo(p)' = WriteNo(p)
  BY <1>3 DEF WriteNo
<1>5. \A t, v : Writes(t, k, v) => Writes(t, k, v)'
  BY <1>4 DEF Writes
<1>6. issued' = Nothing => Unserved' = Left
  BY <1>2, CycleLeaves, ConcatEmptySeq DEF OneOrNone
<1>7. issued' # Nothing => Unserved' = Left \o <<issued'>>
  BY CycleLeaves DEF OneOrNone
<1>8. CASE UNCHANGED program /\ issued' = Nothing
  <2>1. w' = w /\ l' = l /\ pc' = pc
    BY <1>8 DEF program, WritesIssued, CurrentLoad, kk_getintelem, kk_getdetelem, i, j,
                kk_isrunning
  <2>2. Writes(s, k, w)'
    BY <1>1, <1>5, <2>1
  <2> HIDE DEF w, l
  <2>3. Queued(k)'
    BY <1>1, <1>6, <1>8, <2>1, <2>2 DEF Queued, w, l
  <2> QED
    BY <1>1, <2>3
<1>9. CASE readdata' # Nothing /\ Silent /\ Answered
  <2>1. IsRead(served')
    BY <1>3, <1>9, AnswerIsService
  <2>2. Unserved' = s
    BY <1>1, <1>6, <1>9, <2>1 DEF Silent
  <2>3. w' = w
    BY <1>9 DEF Answered, WritesIssued
  <2>4. Writes(s, k, w)'
    BY <1>1, <1>5, <2>3
  <2>5. Queued(k)'
    BY <2>2, <2>4 DEF Queued
  <2> QED
    BY <1>1, <2>5
<1>10. CASE Silent /\ FinalIteration
  <2>1. w' = w /\ pc \notin Loads
    BY <1>10 DEF FinalIteration, WritesIssued, Loads
  <2>2. Unserved' = s
    BY <1>1, <1>6, <1>10, <2>1 DEF Silent
  <2>3. Writes(s, k, w)'
    BY <1>1, <1>5, <2>1
  <2>4. Queued(k)'
    BY <2>2, <2>3 DEF Queued
  <2> QED
    BY <1>1, <2>4
<1>11. CASE TransferMatrix \/ StartHardware
  <2>1. pc \notin Loads /\ Left = s
    BY <1>1, <1>11 DEF TransferMatrix, StartHardware, Loads
  <2>2. issued' = WriteNo(w)
    BY <1>11, NextWrite DEF TransferMatrix, StartHardware, Store
  <2>3. issued' \in Request /\ issued' # Nothing
    BY <1>11, RequestsKnown, NothingAssumption DEF TransferMatrix, StartHardware, Store
  <2>4. w' = w + 1
    <3>1. at \in 0 .. n * n - 1 /\ n * n \in Nat
      BY Square DEF ProgramTypeOK
    <3>2. CASE TransferMatrix
      BY <3>1, <3>2 DEF TransferMatrix, last, WritesIssued
    <3>3. CASE StartHardware
      BY <3>3 DEF StartHardware, WritesIssued
    <3> QED
      BY <1>11, <3>2, <3>3
  <2>5. Unserved' = s \o <<WriteNo(w)>>
    BY <1>7, <2>1, <2>2, <2>3
  <2>6. Writes(s \o <<WriteNo(w)>>, k, w + 1)
    BY <1>1, <1>2, <2>2, <2>3, WritesMore
  <2>7. Writes(Unserved', k, w + 1)
    BY <2>5, <2>6
  <2>8. Writes(Unserved, k, w)'
    BY <1>4, <2>4, <2>7 DEF Writes
  <2>9. Queued(k)'
    BY <2>8 DEF Queued
  <2> QED
    BY <1>1, <2>9
<1>12. CASE (Poll \/ GetInt \/ GetDet) /\ ~awaiting'
  <2>1. pc \in Loads /\ issued' = l /\ wires' = issued' /\ UNCHANGED program
    BY <1>12 DEF Poll, GetInt, GetDet, Load, Loads, CurrentLoad
  <2>2. l \in Request /\ IsRead(l)
    BY <2>1, LoadIsRead
  <2>3. Left = s
    BY <1>1, <1>2, <1>12, <2>1, <2>2, NoLoadLeft
  <2>4. w' = w /\ l' = l /\ pc' = pc
    BY <2>1 DEF program, WritesIssued, CurrentLoad, kk_getintelem, kk_getdetelem, i, j,
                kk_isrunning
  <2>5. Writes(s, k, w)'
    BY <1>1, <1>5, <2>4
  <2>6. Unserved' = s \o <<l>>
    BY <1>7, <2>1, <2>2, <2>3, NothingAssumption
  <2> HIDE DEF w, l
  <2>7. Queued(k)'
    BY <2>1, <2>4, <2>5, <2>6 DEF Queued, w, l
  <2> QED
    BY <1>1, <2>7
<1> QED
  BY <1>3, <1>8, <1>9, <1>10, <1>11, <1>12 DEF Processor, AnswerDue, Silent

LEMMA QueueStands ==
  ASSUME UNCHANGED system, NEW m, Queued(m)
  PROVE  Queued(m)'
<1>1. Unserved' = Unserved /\ pc' = pc /\ at' = at /\ matrix_O' = matrix_O
  BY DEF system, Unserved, Pending, OneOrNone
<1>2. WritesIssued' = WritesIssued /\ CurrentLoad' = CurrentLoad
  BY <1>1 DEF WritesIssued, CurrentLoad, kk_isrunning, kk_getintelem, kk_getdetelem, i, j
<1>3. \A p : WriteNo(p)' = WriteNo(p)
  BY <1>1 DEF WriteNo
<1>4. \A s, v : Writes(s, m, v) => Writes(s, m, v)'
  BY <1>3 DEF Writes
<1>5. PICK s : /\ Writes(s, m, WritesIssued)
               /\ \/ Unserved = s
                  \/ pc \in Loads /\ Unserved = s \o <<CurrentLoad>>
  BY DEF Queued
<1>6. Writes(s, m, WritesIssued)'
  BY <1>2, <1>4, <1>5
<1> QED
  BY <1>1, <1>2, <1>5, <1>6 DEF Queued

-----------------------------------------------------------------------------
(* The core.  Until the start is served it is idle and takes the elements; *)
(* then it goes through the iterations of the algorithm.                   *)

\* The two matrices that matter after k iterations, when b is what was put.
PairAt(b, k) == <<IF k = 0 THEN b ELSE rX[k % 3], rX[(k + 1) % 3]>>

\* A run over b.
RunOver(b) ==
  /\ Starting => rX[1] = b
  /\ Iterating => PairAt(b, rState) \in After(b)[rState]
  /\ Idle => PairAt(b, n - 1) \in After(b)[n - 1]

\* The writes before number m have been served.
Computed(m) ==
  /\ m <= n * n => /\ Idle
                   /\ \A p \in 0 .. n * n - 1 :
                        p < m => rX[1][CellNo(p)] = to_bit(matrix_O[CellNo(p)])
  /\ m = n * n + 1 => RunOver(Bits(matrix_O))

LEMMA ThreeBuffers ==
  ASSUME NEW k \in Nat
  PROVE  /\ k % 3 \in 0 .. 2 /\ (k + 1) % 3 \in 0 .. 2 /\ (k + 2) % 3 \in 0 .. 2
         /\ (k + 2) % 3 # k % 3 /\ (k + 2) % 3 # (k + 1) % 3 /\ k % 3 # (k + 1) % 3
OBVIOUS

\* iterate does an iteration of the algorithm.
LEMMA IterateStep ==
  ASSUME CoreTypeOK, iterate, NEW b, PairAt(b, rState) \in After(b)[rState]
  PROVE  \/ /\ rState = n - 1 /\ rState' = stateMaxVal
            /\ PairAt(b, n - 1)' \in After(b)[n - 1]
         \/ /\ rState < n - 1 /\ rState' = rState + 1
            /\ PairAt(b, rState)' \in After(b)[rState']
<1> DEFINE k == rState
<1>1. /\ k \in 0 .. n - 1 /\ n - 1 \in Nat /\ n - 1 # 0
      /\ rState' = IF k = n - 1 THEN stateMaxVal ELSE k + 1
      /\ ComputeNext
  BY StateFacts DEF CoreTypeOK, iterate, Iterating
<1>2. /\ iPrev = k % 3 /\ iCurr = (k + 1) % 3 /\ iNext = (k + 2) % 3
      /\ iPrev \in 0 .. 2 /\ iCurr \in 0 .. 2 /\ iNext \in 0 .. 2
      /\ iNext # iPrev /\ iNext # iCurr
  BY <1>1, ThreeBuffers DEF iPrev, iCurr, iNext
<1>3. PICK junk \in [ZeroDivisions(Divisors) -> Junk] :
        rX' = [rX EXCEPT ![iNext] = Condensed(rX[iCurr], Divisors, junk)]
  BY <1>1 DEF ComputeNext
<1>4. /\ rX'[iPrev] = rX[iPrev] /\ rX'[iCurr] = rX[iCurr]
      /\ rX'[iNext] = Condensed(rX[iCurr], Divisors, junk)
  BY <1>2, <1>3 DEF CoreTypeOK
<1>5. CASE k = n - 1
  <2>1. rState' = stateMaxVal /\ k # 0
    BY <1>1, <1>5
  <2>2. PairAt(b, n - 1)' = PairAt(b, k)
    <3>1. PairAt(b, n - 1)' = <<rX'[k % 3], rX'[(k + 1) % 3]>>
      BY <1>5, <2>1 DEF PairAt
    <3>2. PairAt(b, k) = <<rX[k % 3], rX[(k + 1) % 3]>>
      BY <2>1 DEF PairAt
    <3> QED
      BY <1>2, <1>4, <3>1, <3>2
  <2> QED
    BY <1>5, <2>1, <2>2
<1>6. CASE k # n - 1
  <2>1. rState' = k + 1 /\ k < n - 1 /\ k \in Nat /\ k + 1 # 0 /\ (k + 1) + 1 = k + 2
    BY <1>1, <1>6
  <2> DEFINE pair == PairAt(b, k)
             more == <<rX'[(k + 1) % 3], rX'[(k + 2) % 3]>>
             div == Algorithm!Divisor(k = 0, pair[1])
  <2>2. PairAt(b, rState)' = more
    BY <2>1 DEF PairAt
  <2>3. pair[2] = rX[iCurr] /\ (k # 0 => pair[1] = rX[iPrev])
    BY <1>2 DEF PairAt
  <2>4. div = Divisors
    <3>1. div = [c \in Cells |-> IF k = 0 THEN FRAC ELSE pair[1][<<Up(c[1]), Up(c[2])>>]]
      BY DEF Algorithm!Divisor, Algorithm!Cells, Algorithm!Idx, Algorithm!Up, Cells, Idx, Up
    <3> HIDE DEF pair, div
    <3> QED
      BY <2>3, <3>1 DEF Divisors
  <2>5. more = <<pair[2], Condensed(pair[2], div, junk)>>
    BY <1>2, <1>4, <2>3, <2>4
  <2>6. more \in Step(k, pair)
    <3> DEFINE f(x) == <<pair[2], Condensed(pair[2], div, x)>>
    <3>1. Step(k, pair) = {f(x) : x \in [ZeroDivisions(div) -> Junk]}
      BY DEF Step
    <3>2. junk \in [ZeroDivisions(div) -> Junk] /\ more = f(junk)
      BY <2>4, <2>5
    <3> HIDE DEF f, div, more, pair
    <3> QED
      BY <3>1, <3>2
  <2>7. more \in After(b)[k + 1]
    BY <2>1, <2>6, AfterOneMore
  <2> QED
    BY <2>1, <2>2, <2>7
<1> QED
  BY <1>5, <1>6

\* The states are apart, so one rule at most is ready.
LEMMA OneRule ==
  ASSUME CoreTypeOK
  PROVE  /\ Idle => ~Starting /\ ~Iterating
         /\ Starting => ~Iterating
         /\ Idle \/ Starting \/ Iterating
BY StateFacts DEF CoreTypeOK, Idle, Starting, Iterating

LEMMA IdleWaits ==
  ASSUME CoreTypeOK, CoreRules, Idle
  PROVE  UNCHANGED core
BY OneRule DEF CoreRules, InitCycle, init, IterateCycle, iterate

\* A run that goes on.
LEMMA RunGoesOn ==
  ASSUME CoreTypeOK, CoreTypeOK', CoreRules, NEW b, RunOver(b)
  PROVE  RunOver(b)'
<1>2. /\ Starting => rX[1] = b
      /\ Iterating => PairAt(b, rState) \in After(b)[rState]
      /\ Idle => PairAt(b, n - 1) \in After(b)[n - 1]
  BY DEF RunOver
<1> SUFFICES /\ Starting' => rX'[1] = b
             /\ Iterating' => PairAt(b, rState)' \in After(b)[rState']
             /\ Idle' => PairAt(b, n - 1)' \in After(b)[n - 1]
  BY DEF RunOver
<1>4. CASE InitCycle
  <2>1. rX[1] = b /\ rX' = rX /\ rState' = 0
    BY <1>2, <1>4 DEF InitCycle, init
  <2>2. ~Starting' /\ ~Idle'
    BY <2>1, StateFacts DEF Starting, Idle
  <2>3. PairAt(b, rState)' = <<b, b>>
    <3>1. PairAt(b, rState)' = <<b, rX[(0 + 1) % 3]>>
      BY <2>1 DEF PairAt
    <3>2. (0 + 1) % 3 = 1
      OBVIOUS
    <3> QED
      BY <2>1, <3>1, <3>2
  <2> QED
    BY <2>1, <2>2, <2>3, AfterNone
<1>5. CASE IterateCycle
  <2>1. iterate /\ Iterating
    BY <1>5 DEF IterateCycle, iterate
  <2>2. CASE /\ rState = n - 1 /\ rState' = stateMaxVal
             /\ PairAt(b, n - 1)' \in After(b)[n - 1]
    BY <2>2, StateFacts DEF Starting, Iterating, Idle
  <2>3. CASE /\ rState < n - 1 /\ rState' = rState + 1
             /\ PairAt(b, rState)' \in After(b)[rState']
    <3>1. ~Starting' /\ ~Idle'
      BY <2>3, StateFacts DEF Starting, Idle, CoreTypeOK
    <3>2. Iterating' => PairAt(b, rState)' \in After(b)[rState']
      BY <2>3
    <3> QED
      BY <3>1, <3>2
  <2> QED
    BY <1>2, <2>1, <2>2, <2>3, IterateStep
<1>6. CASE Idle /\ UNCHANGED core
  <2>1. rX' = rX /\ rState' = rState
    BY <1>6 DEF core
  <2>2. PairAt(b, n - 1)' = PairAt(b, n - 1)
    BY <2>1 DEF PairAt
  <2>3. Idle' /\ ~Starting' /\ ~Iterating'
    BY <1>6, <2>1, OneRule DEF Idle, Starting, Iterating
  <2> QED
    BY <1>2, <1>6, <2>2, <2>3
<1> QED
  BY <1>4, <1>5, <1>6 DEF CoreRules

\* An element reaches its cell, because the bus carries the whole index.
LEMMA ElementServed ==
  ASSUME n <= 256, CoreTypeOK, ProgramTypeOK, processWrite, Idle,
         NEW m \in 0 .. n * n - 1, first = WriteNo(m)
  PROVE  /\ rX' = [rX EXCEPT ![1][CellNo(m)] = to_bit(matrix_O[CellNo(m)])]
         /\ rState' = rState
<1> DEFINE l == m \div n
           c == m % n
           e == to_bit(matrix_O[CellNo(m)])
<1>1. /\ l \in 0 .. n - 1 /\ c \in 0 .. n - 1 /\ CellNo(m) \in Cells /\ CellNo(m) = <<l, c>>
      /\ m # n * n /\ n \in Nat
  BY CellNoIsCell, Square DEF CellNo
<1> HIDE DEF l, c, e
<1>2. l % 256 = l /\ c % 256 = c
  BY <1>1
<1>3. first = Write(<<0, l, c>>, e)
  BY <1>1, <1>2 DEF WriteNo, l, c, e
<1>4. /\ first.addr = <<0, l, c>> /\ first.data = e
      /\ first.addr[1] = 0 /\ first.addr[2] = l /\ first.addr[3] = c
      /\ first.addr # <<1, 0, 0>>
  BY <1>3 DEF Write
<1>5. putElem(l, c, e)
  BY <1>4 DEF processWrite, Put, Start, line, column, PutCycle
<1> QED
  BY <1>1, <1>5 DEF putElem, e

LEMMA StartServed ==
  ASSUME processWrite, Idle, first = WriteNo(n * n)
  PROVE  rX' = rX /\ rState' = stateMaxVal - 1
<1>1. first.addr = <<1, 0, 0>> /\ first.addr[1] = 1
  BY DEF WriteNo, kk_start, Write
<1>2. StartCycle
  BY <1>1 DEF processWrite, Put, Start
<1> QED
  BY <1>2 DEF StartCycle, start

\* The cycle that serves number m, or none.
LEMMA ComputedStep ==
  ASSUME n <= 256, SlaveTypeOK, CoreTypeOK, CoreTypeOK', ProgramTypeOK, SlaveCycle,
         matrix_O' = matrix_O,
         NEW m \in 0 .. n * n + 1, Computed(m), NEW k \in {m, m + 1}, Served(m, k)
  PROVE  Computed(k)'
<1>n. n * n \in Nat
  BY Square
<1>1. CASE CoreRules /\ k = m
  <2>1. CASE m = n * n + 1
    <3>1. PICK b : b = Bits(matrix_O)
      OBVIOUS
    <3>2. RunOver(b)'
      BY <1>1, <2>1, <3>1, RunGoesOn DEF Computed
    <3>3. Bits(matrix_O)' = b /\ ~(k <= n * n)
      BY <1>1, <1>n, <2>1, <3>1 DEF Bits
    <3> QED
      BY <1>1, <2>1, <3>2, <3>3 DEF Computed, RunOver, PairAt
  <2>2. CASE m # n * n + 1
    <3>1. Idle /\ m <= n * n
      BY <1>n, <2>2 DEF Computed
    <3>2. rX' = rX /\ rState' = rState
      BY <1>1, <3>1, IdleWaits DEF core
    <3> QED
      BY <1>1, <2>2, <3>1, <3>2 DEF Computed, Idle
  <2> QED
    BY <2>1, <2>2
<1>2. CASE processWrite /\ served' = first
  <2>1. first # Nothing /\ first.command = "Write"
    BY <1>2 DEF processWrite
  <2>2. served' = WriteNo(m) /\ k = m + 1 /\ m < WritesIssued
    <3>1. ~(served' = CurrentLoad /\ pc \in Loads)
      BY <1>2, <2>1, LoadIsRead DEF IsRead
    <3> QED
      BY <1>2, <2>1, <3>1 DEF Served
  <2>3. m < n * n + 1 /\ m \in 0 .. n * n
    BY <1>n, <2>2, NextWrite
  <2>4. Idle
    BY <2>3 DEF Computed
  <2>5. CASE m < n * n
    <3> DEFINE e == to_bit(matrix_O[CellNo(m)])
    <3>1. m \in 0 .. n * n - 1 /\ m + 1 <= n * n /\ m + 1 # n * n + 1
      BY <1>n, <2>3, <2>5
    <3>2. rX' = [rX EXCEPT ![1][CellNo(m)] = e] /\ Idle'
      BY <1>2, <2>2, <2>4, <3>1, ElementServed DEF Idle
    <3>3. ASSUME NEW p \in 0 .. n * n - 1, p < m + 1
          PROVE  rX'[1][CellNo(p)] = to_bit(matrix_O[CellNo(p)])
      <4>1. CellNo(p) \in Cells /\ CellNo(m) \in Cells /\ rX[1] \in Matrix
        BY <3>1, CellNoIsCell DEF CoreTypeOK
      <4>2. rX'[1] = [rX[1] EXCEPT ![CellNo(m)] = e]
        BY <3>2 DEF CoreTypeOK
      <4>3. CASE CellNo(p) = CellNo(m)
        BY <4>1, <4>2, <4>3 DEF Matrix
      <4>4. CASE CellNo(p) # CellNo(m)
        <5>1. p < m
          <6>1. p # m
            BY <4>4
          <6> QED
            BY <3>1, <3>3, <6>1
        <5>2. rX'[1][CellNo(p)] = rX[1][CellNo(p)]
          BY <4>1, <4>2, <4>4 DEF Matrix
        <5> QED
          BY <2>3, <5>1, <5>2 DEF Computed
      <4> QED
        BY <4>3, <4>4
    <3>4. \A p : CellNo(p)' = CellNo(p)
      BY DEF CellNo
    <3> QED
      BY <2>2, <3>1, <3>2, <3>3, <3>4 DEF Computed
  <2>6. CASE m = n * n
    <3>1. rX' = rX /\ rState' = stateMaxVal - 1
      BY <1>2, <2>2, <2>4, <2>6, StartServed
    <3>2. ~Idle' /\ ~Iterating'
      BY <3>1, StateFacts DEF Idle, Iterating
    <3>3. rX[1] = Bits(matrix_O)
      <4>1. rX[1] = [c \in Cells |-> rX[1][c]]
        BY DEF CoreTypeOK, Matrix
      <4>2. ASSUME NEW c \in Cells PROVE rX[1][c] = to_bit(matrix_O[c])
        <5>1. PICK p \in 0 .. n * n - 1 : CellNo(p) = c
          BY EveryCell
        <5>2. p < m
          BY <1>n, <2>6, <5>1
        <5> QED
          BY <2>3, <5>1, <5>2 DEF Computed
      <4> QED
        BY <4>1, <4>2 DEF Bits
    <3>4. k = n * n + 1 /\ ~(k <= n * n) /\ rX'[1] = Bits(matrix_O)'
      BY <1>n, <2>2, <2>6, <3>1, <3>3 DEF Bits
    <3> QED
      BY <3>2, <3>4 DEF Computed, RunOver
  <2> QED
    BY <1>n, <2>3, <2>5, <2>6
<1>3. CASE processRead /\ served' = first
  <2>1. IsRead(served') /\ served' # Nothing /\ CoreRules
    BY <1>3 DEF processRead, IsRead
  <2>2. k = m
    BY <2>1, WriteIsWrite DEF Served
  <2> QED
    BY <1>1, <2>1, <2>2
<1>4. CASE NoService /\ served' = Nothing
  BY <1>1, <1>4 DEF NoService, Served
<1> QED
  BY <1>2, <1>3, <1>4 DEF SlaveCycle

-----------------------------------------------------------------------------
(* What the program has read.  From the end of the run on, the core stands *)
(* still, so the elements come from one pair of matrices.                  *)

Reading == {"getint", "getdet", "final", "done"}

\* The elements of the two matrices that the loop has stored.
IntRead(p) == \/ pc \in {"final", "done"}
              \/ pc \in {"getint", "getdet"} /\ p < at
              \/ pc = "getdet" /\ p = at
DetRead(p) == \/ pc \in {"final", "done"}
              \/ pc \in {"getint", "getdet"} /\ p < at

Copied(m) ==
  /\ pc \in Reading => Idle /\ m = n * n + 1
  /\ pc \in {"start", "poll"} => at = 0
  /\ matrix_K = [b \in 0 .. 2 |-> matrix_K[b]]
  /\ \A b \in {prev, curr} : matrix_K[b] = [c \in Cells |-> matrix_K[b][c]]
  /\ \A p \in 0 .. n * n - 1 :
       /\ IntRead(p) => matrix_K[prev][CellNo(p)] = to_float(rX[(n - 1) % 3][CellNo(p)])
       /\ DetRead(p) => matrix_K[curr][CellNo(p)] = to_float(rX[n % 3][CellNo(p)])

\* An answer is the answer of the load that the program waits for.
LEMMA AnswerComes ==
  ASSUME CoreTypeOK, SlaveCycle, readdata' # Nothing, NEW m, NEW k, Served(m, k)
  PROVE  /\ pc \in Loads /\ k = m /\ m = WritesIssued
         /\ first = CurrentLoad /\ readdata' \in Result /\ CoreRules
<1>1. IsRead(served')
  BY AnswerIsService
<1>2. served' = CurrentLoad /\ pc \in Loads /\ k = m /\ m = WritesIssued
  BY <1>1, WriteIsWrite DEF Served, IsRead
<1>3. processRead /\ served' = first
  BY <1>1 DEF SlaveCycle, processWrite, NoService, IsRead
<1> QED
  BY <1>2, <1>3 DEF processRead

\* After the run, nothing moves the core.
LEMMA ReadingStands ==
  ASSUME CoreTypeOK, SlaveCycle, pc \in Reading, Idle,
         NEW k, Served(n * n + 1, k)
  PROVE  UNCHANGED core /\ k = n * n + 1
<1>1. ~(n * n + 1 < WritesIssued)
  <2>1. WritesIssued = n * n + 1
    BY DEF WritesIssued, Reading
  <2> QED
    BY <2>1, Square
<1>2. k = n * n + 1 /\ (served' # Nothing => served' = CurrentLoad /\ pc \in Loads)
  BY <1>1 DEF Served
<1>3. ~processWrite \/ served' # first
  <2> SUFFICES ASSUME processWrite, served' = first PROVE FALSE
    OBVIOUS
  <2>1. served' = CurrentLoad /\ pc \in Loads /\ served'.command = "Write"
    BY <1>2 DEF processWrite
  <2>2. CurrentLoad.command = "Read"
    BY <2>1 DEF CurrentLoad, Loads, kk_isrunning, kk_getintelem, kk_getdetelem, Read
  <2> QED
    BY <2>1, <2>2
<1>4. CoreRules
  BY <1>3 DEF SlaveCycle, processRead, NoService
<1> QED
  BY <1>2, <1>4, IdleWaits

\* What the answers are.
LEMMA PollAnswer ==
  ASSUME first = kk_isrunning, readdata' \in Result, readdata' = 0
  PROVE  Idle
<1>1. first.addr = <<1, 0, 1>>
  BY DEF kk_isrunning, Read
<1>2. readdata' = Bool(isRunning)
  BY <1>1 DEF Result
<1> QED
  BY <1>2 DEF Bool, isRunning, Idle

LEMMA WordRead ==
  ASSUME n <= 256, ProgramTypeOK, readdata' \in Result
  PROVE  /\ first = kk_getintelem => readdata' = rX[(n - 1) % 3][CellNo(at)]
         /\ first = kk_getdetelem => readdata' = rX[n % 3][CellNo(at)]
<1> DEFINE l == at \div n
           c == at % n
<1>1. /\ l \in 0 .. n - 1 /\ c \in 0 .. n - 1 /\ CellNo(at) \in Cells /\ CellNo(at) = <<l, c>>
      /\ n \in Nat /\ i = l /\ j = c
  BY CellNoIsCell, Square DEF CellNo, ProgramTypeOK, i, j
<1> HIDE DEF l, c
<1>2. i % 256 = l /\ j % 256 = c
  BY <1>1
<1>3. ASSUME NEW s \in {2, 3}, first = Read(<<s, i % 256, j % 256>>)
      PROVE  /\ first.addr = <<s, l, c>> /\ first.addr[1] = s
             /\ line = l /\ column = c
             /\ \A x \in 1 .. 3 : first.addr # <<1, 0, x>>
  BY <1>2, <1>3 DEF Read, line, column
<1>4. ASSUME first = kk_getintelem PROVE readdata' = rX[(n - 1) % 3][CellNo(at)]
  <2>1. /\ first.addr[1] = 2 /\ line = l /\ column = c
        /\ \A x \in 1 .. 3 : first.addr # <<1, 0, x>>
    BY <1>3, <1>4 DEF kk_getintelem
  <2>2. Result = {getIntElem(l, c)}
    BY <1>1, <2>1 DEF Result
  <2> QED
    BY <1>1, <2>2 DEF getIntElem
<1>5. ASSUME first = kk_getdetelem PROVE readdata' = rX[n % 3][CellNo(at)]
  <2>1. /\ first.addr[1] = 3 /\ line = l /\ column = c
        /\ \A x \in 1 .. 3 : first.addr # <<1, 0, x>>
    BY <1>3, <1>5 DEF kk_getdetelem
  <2>2. Result = {getDetElem(l, c)}
    BY <1>1, <2>1 DEF Result
  <2> QED
    BY <1>1, <2>2 DEF getDetElem
<1> QED
  BY <1>4, <1>5

\* The buffers of the loop and the one of the final iteration.
LEMMA ThreeMatrices ==
  /\ prev \in 0 .. 2 /\ curr \in 0 .. 2 /\ next \in 0 .. 2
  /\ prev # curr /\ next # prev /\ next # curr
BY SizeAssumption, ThreeBuffers DEF prev, curr, next

\* One more element is stored.
LEMMA CellStored ==
  ASSUME NEW K, NEW K2, NEW b \in 0 .. 2, NEW d \in 0 .. 2, NEW c \in Cells, NEW e,
         K = [x \in 0 .. 2 |-> K[x]],
         \A x \in {b, d} : K[x] = [y \in Cells |-> K[x][y]],
         K2 = [K EXCEPT ![b][c] = e]
  PROVE  /\ K2 = [x \in 0 .. 2 |-> K2[x]]
         /\ \A x \in {b, d} : K2[x] = [y \in Cells |-> K2[x][y]]
         /\ K2[b][c] = e
         /\ \A y \in Cells : y # c => K2[b][y] = K[b][y]
         /\ d # b => K2[d] = K[d]
<1>1. K2 = [x \in 0 .. 2 |-> IF x = b THEN [K[b] EXCEPT ![c] = e] ELSE K[x]]
  OBVIOUS
<1>2. K2[b] = [K[b] EXCEPT ![c] = e] /\ (d # b => K2[d] = K[d])
  BY <1>1
<1>3. K2[b] = [y \in Cells |-> IF y = c THEN e ELSE K[b][y]]
  BY <1>2
<1> QED
  BY <1>1, <1>2, <1>3

LEMMA CopiedStep ==
  ASSUME n <= 256, CoreTypeOK, CoreTypeOK', ProgramTypeOK, ProgramTypeOK', SystemNext,
         NEW m \in 0 .. n * n + 1, Copied(m), NEW k \in {m, m + 1}, Served(m, k)
  PROVE  Copied(k)'
<1>1. SlaveCycle /\ Processor
  BY DEF SystemNext
<1>2. at \in 0 .. n * n - 1 /\ at' \in 0 .. n * n - 1 /\ n * n \in Nat
  BY Square DEF ProgramTypeOK
<1>3. pc \in Reading => rX' = rX /\ Idle' /\ k = n * n + 1
  BY <1>1, ReadingStands DEF Copied, core, Idle
<1>4. CASE UNCHANGED program
  <2>1. pc' = pc /\ at' = at /\ matrix_K' = matrix_K
    BY <1>4 DEF program
  <2>2. ASSUME pc \notin Reading PROVE \A p : ~IntRead(p) /\ ~DetRead(p)
    BY <2>2 DEF IntRead, DetRead, Reading
  <2>3. \A p : (IntRead(p)' <=> IntRead(p)) /\ (DetRead(p)' <=> DetRead(p))
    BY <2>1 DEF IntRead, DetRead
  <2>4. CASE pc \in Reading
    BY <1>3, <2>1, <2>3, <2>4 DEF Copied, CellNo, prev, curr
  <2>5. CASE pc \notin Reading
    BY <2>1, <2>2, <2>3, <2>5 DEF Copied, CellNo, prev, curr
  <2> QED
    BY <2>4, <2>5
<1>5. CASE readdata' # Nothing /\ Answered
  <2>1. /\ pc \in Loads /\ k = m /\ m = WritesIssued /\ m = n * n + 1
        /\ first = CurrentLoad /\ readdata' \in Result /\ CoreRules
    BY <1>1, <1>5, AnswerComes DEF WritesIssued, Loads
  <2>2. CASE pc = "poll" /\ pc' = "poll"
    <3>1. at' = at /\ matrix_K' = matrix_K
      BY <1>5, <2>2 DEF Answered
    <3> QED
      BY <2>2, <3>1 DEF Copied, Reading, IntRead, DetRead, CellNo, prev, curr
  <2>3. CASE pc = "poll" /\ pc' # "poll"
    <3>1. at' = at /\ matrix_K' = matrix_K /\ pc' = "getint" /\ readdata' = 0 /\ at = 0
      BY <1>5, <2>3 DEF Answered, pollEnds, Copied
    <3>2. Idle
      BY <2>1, <2>3, <3>1, PollAnswer DEF CurrentLoad
    <3>3. Idle'
      BY <2>1, <3>2, IdleWaits DEF core, Idle
    <3>4. \A p \in 0 .. n * n - 1 : ~(p < at')
      BY <1>2, <3>1
    <3>5. \A p \in 0 .. n * n - 1 : ~IntRead(p)' /\ ~DetRead(p)'
      BY <3>1, <3>4 DEF IntRead, DetRead
    <3> QED
      BY <2>1, <3>1, <3>3, <3>5 DEF Copied, CellNo, prev, curr
  <2>4. CASE pc = "getint"
    <3> DEFINE c == CellNo(at)
               e == to_float(readdata')
    <3>1. /\ c \in Cells /\ <<i, j>> = c /\ rX' = rX /\ Idle' /\ k = n * n + 1
          /\ e = to_float(rX[(n - 1) % 3][c])
          /\ pc' = "getdet" /\ at' = at /\ matrix_K' = [matrix_K EXCEPT ![prev][c] = e]
      BY <1>2, <1>3, <1>5, <2>1, <2>4, CellNoIsCell, WordRead
      DEF Answered, CurrentLoad, Reading, CellNo, i, j
    <3> HIDE DEF c, e
    <3>2. /\ matrix_K' = [x \in 0 .. 2 |-> matrix_K'[x]]
          /\ \A x \in {prev, curr} : matrix_K'[x] = [y \in Cells |-> matrix_K'[x][y]]
          /\ matrix_K'[prev][c] = e
          /\ \A y \in Cells : y # c => matrix_K'[prev][y] = matrix_K[prev][y]
          /\ matrix_K'[curr] = matrix_K[curr]
      BY <3>1, CellStored, ThreeMatrices DEF Copied
    <3>3. ASSUME NEW p \in 0 .. n * n - 1, IntRead(p)'
          PROVE  matrix_K'[prev][CellNo(p)] = to_float(rX'[(n - 1) % 3][CellNo(p)])
      <4>1. CASE CellNo(p) = c
        BY <3>1, <3>2, <4>1
      <4>2. CASE CellNo(p) # c
        <5>1. p # at /\ IntRead(p)
          BY <2>4, <3>1, <3>3, <4>2 DEF IntRead, c
        <5>2. matrix_K[prev][CellNo(p)] = to_float(rX[(n - 1) % 3][CellNo(p)])
          BY <5>1 DEF Copied
        <5> QED
          BY <3>1, <3>2, <4>2, <5>2, CellNoIsCell
      <4> QED
        BY <4>1, <4>2
    <3>4. ASSUME NEW p \in 0 .. n * n - 1, DetRead(p)'
          PROVE  matrix_K'[curr][CellNo(p)] = to_float(rX'[n % 3][CellNo(p)])
      <4>1. DetRead(p)
        BY <2>4, <3>1, <3>4 DEF DetRead
      <4> QED
        BY <3>1, <3>2, <4>1 DEF Copied
    <3> QED
      BY <3>1, <3>2, <3>3, <3>4 DEF Copied, CellNo, prev, curr
  <2>5. CASE pc = "getdet"
    <3> DEFINE c == CellNo(at)
               e == to_float(readdata')
    <3>1. /\ c \in Cells /\ <<i, j>> = c /\ rX' = rX /\ Idle' /\ k = n * n + 1
          /\ e = to_float(rX[n % 3][c])
          /\ pc' = IF last THEN "final" ELSE "getint"
          /\ at' = IF last THEN 0 ELSE at + 1
          /\ matrix_K' = [matrix_K EXCEPT ![curr][c] = e]
      BY <1>2, <1>3, <1>5, <2>1, <2>5, CellNoIsCell, WordRead
      DEF Answered, CurrentLoad, Reading, CellNo, i, j
    <3> HIDE DEF c, e
    <3>2. /\ matrix_K' = [x \in 0 .. 2 |-> matrix_K'[x]]
          /\ \A x \in {prev, curr} : matrix_K'[x] = [y \in Cells |-> matrix_K'[x][y]]
          /\ matrix_K'[curr][c] = e
          /\ \A y \in Cells : y # c => matrix_K'[curr][y] = matrix_K[curr][y]
          /\ matrix_K'[prev] = matrix_K[prev]
      BY <3>1, CellStored, ThreeMatrices DEF Copied
    <3>3. ASSUME NEW p \in 0 .. n * n - 1, IntRead(p)' \/ DetRead(p)'
          PROVE  IntRead(p) /\ (p # at => DetRead(p))
      <4>1. p < at \/ p = at
        <5>1. CASE last
          BY <1>2, <5>1 DEF last
        <5>2. CASE ~last
          <6>1. p < at + 1
            BY <3>1, <3>3, <5>2 DEF IntRead, DetRead
          <6> QED
            BY <1>2, <6>1
        <5> QED
          BY <5>1, <5>2
      <4> QED
        BY <2>5, <4>1 DEF IntRead, DetRead
    <3>4. ASSUME NEW p \in 0 .. n * n - 1, IntRead(p)'
          PROVE  matrix_K'[prev][CellNo(p)] = to_float(rX'[(n - 1) % 3][CellNo(p)])
      BY <3>1, <3>2, <3>3, <3>4 DEF Copied
    <3>5. ASSUME NEW p \in 0 .. n * n - 1, DetRead(p)'
          PROVE  matrix_K'[curr][CellNo(p)] = to_float(rX'[n % 3][CellNo(p)])
      <4>1. CASE CellNo(p) = c
        BY <3>1, <3>2, <4>1
      <4>2. CASE CellNo(p) # c
        <5>1. p # at /\ DetRead(p)
          BY <3>3, <3>5, <4>2 DEF c
        <5>2. matrix_K[curr][CellNo(p)] = to_float(rX[n % 3][CellNo(p)])
          BY <5>1 DEF Copied
        <5> QED
          BY <3>1, <3>2, <4>2, <5>2, CellNoIsCell
      <4> QED
        BY <4>1, <4>2
    <3> QED
      BY <3>1, <3>2, <3>4, <3>5 DEF Copied, CellNo, prev, curr
  <2> QED
    BY <2>1, <2>2, <2>3, <2>4, <2>5 DEF Loads
<1>6. CASE TransferMatrix \/ StartHardware
  <2>1. pc' \notin Reading /\ (pc' \in {"start", "poll"} => at' = 0) /\ matrix_K' = matrix_K
    BY <1>6 DEF TransferMatrix, StartHardware, Copied, Reading
  <2> QED
    BY <2>1 DEF Copied, Reading, IntRead, DetRead, CellNo, prev, curr
<1>7. CASE FinalIteration
  <2>1. /\ pc = "final" /\ pc' = "done" /\ rX' = rX /\ Idle' /\ k = n * n + 1
        /\ matrix_K' = [matrix_K EXCEPT ![next] = Quotients(matrix_K[prev], matrix_K[curr])]
    BY <1>3, <1>7 DEF FinalIteration, Reading
  <2>2. /\ matrix_K' = [x \in 0 .. 2 |-> matrix_K'[x]]
        /\ matrix_K'[prev] = matrix_K[prev] /\ matrix_K'[curr] = matrix_K[curr]
    BY <2>1, ThreeMatrices DEF Copied
  <2> QED
    BY <2>1, <2>2 DEF Copied, IntRead, DetRead, CellNo, prev, curr
<1> QED
  BY <1>1, <1>4, <1>5, <1>6, <1>7 DEF Processor, Poll, GetInt, GetDet, Load

-----------------------------------------------------------------------------
SystemInv == \E m \in 0 .. n * n + 1 : Queued(m) /\ Computed(m) /\ Copied(m)

LEMMA SystemBegins == SystemInit => SystemInv
<1> SUFFICES ASSUME SystemInit PROVE SystemInv
  OBVIOUS
<1>1. pc = "transfer" /\ at = 0 /\ Idle /\ Unserved = <<>> /\ n * n \in Nat
  BY Square DEF SystemInit, SlaveInit, BusInit, Init, Unserved, Pending, OneOrNone, Idle
<1>2. Queued(0)
  <2>1. WritesIssued = 0
    BY <1>1 DEF WritesIssued
  <2>2. Writes(<<>>, 0, 0)
    BY DEF Writes
  <2> QED
    BY <1>1, <2>1, <2>2 DEF Queued
<1>3. Computed(0)
  BY <1>1 DEF Computed
<1>4. Copied(0)
  <2>1. /\ matrix_K = [b \in 0 .. 2 |-> matrix_K[b]]
        /\ \A b \in 0 .. 2 : matrix_K[b] = [c \in Cells |-> matrix_K[b][c]]
    BY DEF SystemInit
  <2> QED
    BY <1>1, <2>1, ThreeMatrices DEF Copied, Reading, IntRead, DetRead
<1>5. 0 \in 0 .. n * n + 1
  BY <1>1
<1> QED
  BY <1>2, <1>3, <1>4, <1>5 DEF SystemInv

LEMMA SystemStep ==
  ASSUME n <= 256, AnswerInv, AnswerInv', ProgramTypeOK, ProgramTypeOK', SystemInv,
         [SystemNext]_system
  PROVE  SystemInv'
<1>0. /\ SlaveTypeOK /\ SlaveTypeOK' /\ CoreTypeOK /\ CoreTypeOK' /\ WaitInv'
      /\ n * n \in Nat
  BY Square DEF AnswerInv
<1>1. PICK m \in 0 .. n * n + 1 : Queued(m) /\ Computed(m) /\ Copied(m)
  BY DEF SystemInv
<1>2. CASE UNCHANGED system
  <2>1. /\ Unserved' = Unserved /\ pc' = pc /\ at' = at /\ matrix_K' = matrix_K
        /\ matrix_O' = matrix_O /\ rX' = rX /\ rState' = rState
    BY <1>2 DEF system, Unserved, Pending, OneOrNone
  <2>2. Queued(m)'
    BY <1>1, <1>2, QueueStands
  <2>3. Computed(m)'
    BY <1>1, <2>1 DEF Computed, RunOver, PairAt, Starting, Iterating, Idle, CellNo
  <2>4. Copied(m)'
    BY <1>1, <2>1 DEF Copied, IntRead, DetRead, Idle, CellNo, prev, curr
  <2> QED
    BY <2>2, <2>3, <2>4 DEF SystemInv
<1>3. CASE SystemNext
  <2>1. SlaveCycle /\ matrix_O' = matrix_O
    BY <1>3 DEF SystemNext, Processor, program, Silent, TransferMatrix, StartHardware, Poll,
                GetInt, GetDet, Load, FinalIteration, Answered
  <2>2. PICK k \in {m, m + 1} : Queued(k)' /\ Served(m, k)
    BY <1>0, <1>1, <1>3, QueueStep
  <2>3. Computed(k)'
    BY <1>0, <1>1, <2>1, <2>2, ComputedStep
  <2>4. Copied(k)'
    BY <1>0, <1>1, <1>3, <2>2, CopiedStep
  <2>5. k \in 0 .. n * n + 1
    <3>1. WritesIssued \in 0 .. n * n + 1
      BY NextWrite
    <3> QED
      BY <1>0, <2>2, <3>1 DEF Served
  <2> QED
    BY <2>2, <2>3, <2>4, <2>5 DEF SystemInv
<1> QED
  BY <1>2, <1>3

LEMMA CondensationRead ==
  ASSUME SystemInv PROVE ReadsTheCondensation
<1> SUFFICES ASSUME pc \in {"final", "done"}
             PROVE  \E pair \in Outcomes(Bits(matrix_O)) :
                      matrix_K[prev] = Floats(pair[1]) /\ matrix_K[curr] = Floats(pair[2])
  BY DEF ReadsTheCondensation
<1>1. PICK m \in 0 .. n * n + 1 : Computed(m) /\ Copied(m)
  BY DEF SystemInv
<1>2. Idle /\ m = n * n + 1
  BY <1>1 DEF Copied, Reading
<1> DEFINE b == Bits(matrix_O)
           pair == PairAt(b, n - 1)
<1>3. pair \in Outcomes(b)
  BY <1>1, <1>2 DEF Computed, RunOver, Outcomes
<1>4. pair[1] = rX[(n - 1) % 3] /\ pair[2] = rX[n % 3]
  <2>1. n - 1 # 0 /\ (n - 1) + 1 = n
    BY StateFacts
  <2> QED
    BY <2>1 DEF PairAt
<1> HIDE DEF pair
<1>5. ASSUME NEW c \in Cells
      PROVE  /\ matrix_K[prev][c] = to_float(pair[1][c])
             /\ matrix_K[curr][c] = to_float(pair[2][c])
  <2>1. PICK p \in 0 .. n * n - 1 : CellNo(p) = c
    BY EveryCell
  <2> QED
    BY <1>1, <1>4, <2>1 DEF Copied, IntRead, DetRead
<1>6. matrix_K[prev] = Floats(pair[1]) /\ matrix_K[curr] = Floats(pair[2])
  BY <1>1, <1>5 DEF Copied, Floats
<1> QED
  BY <1>3, <1>6

\* What the program has read when it comes to the final iteration is what the
\* algorithm makes of its input: for every size that fits the index fields of an
\* address, input, arithmetic, content of the registers at power up, schedule
\* of the core, and delay on the bus.
THEOREM ReadsRight ==
  ASSUME n <= 256
  PROVE  SystemSpec => []ReadsTheCondensation
<1>1. AnswerInv /\ AnswerInv' /\ ProgramTypeOK /\ ProgramTypeOK' /\ SystemInv /\ [SystemNext]_system
        => SystemInv'
  BY SystemStep
<1>2. SystemSpec => []AnswerInv
  BY Legal, AnswerAlways, PTL DEF LegalMaster
<1>3. SystemInv => ReadsTheCondensation
  BY CondensationRead
<1> QED
  BY <1>1, <1>2, <1>3, SystemBegins, ProgramTypeCorrect, PTL DEF SystemSpec

-----------------------------------------------------------------------------
(* How long the program takes.  Every access that comes to the head of the *)
(* FIFOs is served at once, because writes find the core idle: so a cycle  *)
(* serves an access, or carries the one on the wires, or both are at rest. *)

\* The start is on its way, or still to be issued, until it is served.
LEMMA StartLeft ==
  ASSUME ProgramTypeOK, NEW m \in 0 .. n * n, Queued(m)
  PROVE  StartToCome
<1>1. CASE pc \in {"transfer", "start"}
  BY <1>1 DEF StartToCome
<1>2. CASE pc \notin {"transfer", "start"}
  <2> DEFINE l == CurrentLoad
  <2>1. PICK s : /\ Writes(s, m, WritesIssued)
                 /\ Unserved = s \/ (pc \in Loads /\ Unserved = s \o <<l>>)
    BY DEF Queued
  <2>2. WritesIssued = n * n + 1
    BY <1>2 DEF WritesIssued
  <2>3. s \in Seq(Request) /\ Len(s) \in Nat /\ DOMAIN s = 1 .. Len(s)
    BY <2>1, LenProperties DEF Writes
  <2>4. 1 \in 1 .. Len(s) /\ m + 1 - 1 = m
    <3> DEFINE w == WritesIssued
               q == n * n
               x == Len(s)
    <3>1. x = w - m /\ w = q + 1 /\ q \in Nat /\ m \in 0 .. q /\ x \in Nat
      BY <2>1, <2>2, <2>3, Square DEF Writes
    <3> HIDE DEF w, q, x
    <3>2. x >= 1 /\ m + 1 - 1 = m
      BY <3>1
    <3> QED
      BY <3>1, <3>2 DEF x
  <2>5. s[1] = WriteNo(m)
    BY <2>1, <2>4 DEF Writes
  <2>6. 1 \in DOMAIN Unserved /\ Unserved[1] = s[1]
    <3>1. CASE pc \in Loads /\ Unserved = s \o <<l>>
      <4> DEFINE u == <<l>>
      <4>1. u \in Seq(Request)
        BY <3>1, LoadIsRead
      <4> HIDE DEF u
      <4>2. DOMAIN (s \o u) = 1 .. Len(s) + Len(u) /\ Len(u) \in Nat /\ (s \o u)[1] = s[1]
        BY <2>3, <2>4, <4>1, Places
      <4>3. 1 \in DOMAIN (s \o u)
        BY <2>3, <2>4, <4>2
      <4> QED
        BY <3>1, <4>2, <4>3 DEF u
    <3> QED
      BY <2>1, <2>3, <2>4, <3>1
  <2> QED
    BY <2>5, <2>6, WriteIsWrite DEF StartToCome
<1> QED
  BY <1>1, <1>2

LEMMA StartGone == ProgramTypeOK /\ Queued(n * n + 1) => ~StartToCome
<1> SUFFICES ASSUME ProgramTypeOK, Queued(n * n + 1) PROVE ~StartToCome
  OBVIOUS
<1> DEFINE l == CurrentLoad
           w == WritesIssued
<1>1. PICK s : /\ Writes(s, n * n + 1, w)
               /\ Unserved = s \/ (pc \in Loads /\ Unserved = s \o <<l>>)
  BY DEF Queued
<1>2. s \in Seq(Request) /\ Len(s) \in Nat /\ Len(s) = w - (n * n + 1) /\ w \in 0 .. n * n + 1
  BY <1>1, LenProperties, NextWrite DEF Writes
<1>3. w = n * n + 1 /\ Len(s) = 0
  <2> HIDE DEF w
  <2> QED
    BY <1>2, Square
<1>4. s = <<>>
  BY <1>2, <1>3, EmptySeq
<1>5. pc \notin {"transfer", "start"}
  <2>1. at \in 0 .. n * n - 1
    BY DEF ProgramTypeOK
  <2>2. pc = "transfer" => w = at
    BY DEF WritesIssued
  <2>3. pc = "start" => w = n * n
    BY DEF WritesIssued
  <2> HIDE DEF w
  <2> QED
    BY <1>3, <2>1, <2>2, <2>3, Square
<1>6. \A p \in DOMAIN Unserved : IsRead(Unserved[p])
  <2>1. CASE Unserved = s
    BY <1>4, <2>1
  <2>2. CASE pc \in Loads /\ Unserved = s \o <<l>>
    <3>1. l \in Request /\ IsRead(l)
      BY <2>2, LoadIsRead
    <3> HIDE DEF l, IsRead
    <3>2. Unserved = <<l>>
      BY <1>4, <2>2, <3>1, ConcatEmptySeq
    <3> QED
      BY <3>1, <3>2
  <2> QED
    BY <1>1, <2>1, <2>2
<1> QED
  BY <1>5, <1>6 DEF StartToCome

LEMMA StartGoneAfter == (ProgramTypeOK /\ Queued(n * n + 1) => ~StartToCome)'
BY StartGone, PTL

\* The parts of the effort are numbers.
EffortOK ==
  /\ Statements \in Nat
  /\ RunCycles \in 0 .. n + 2
  /\ Accesses \in Nat
  /\ Effort \in Nat

LEMMA EffortType == SlaveTypeOK /\ CoreTypeOK /\ ProgramTypeOK => EffortOK
<1> SUFFICES ASSUME SlaveTypeOK, CoreTypeOK, ProgramTypeOK PROVE EffortOK
  OBVIOUS
<1>1. Statements \in Nat
  <2> DEFINE q == n * n
  <2>1. q \in Nat /\ at \in 0 .. q - 1
    BY Square DEF ProgramTypeOK
  <2>2. Statements \in {3 * q - at + 3, 2 * q + 3, 2 * q + 2, 2 * (q - at) + 1, 2 * (q - at), 1, 0}
    BY DEF Statements, ProgramTypeOK
  <2> HIDE DEF q
  <2> QED
    BY <2>1, <2>2
<1>2. RunCycles \in 0 .. n + 2
  <2> DEFINE c == CyclesToIdle
  <2>1. c \in 0 .. n + 1
    BY CycleCounts
  <2>2. RunCycles \in {n + 2, c}
    BY DEF RunCycles
  <2> HIDE DEF c
  <2> QED
    BY <2>1, <2>2, StateFacts
<1>3. Accesses \in Nat
  <2> DEFINE u == Len(Unserved)
  <2>1. u \in Nat
    BY OldestAtHead, LenProperties
  <2> HIDE DEF u
  <2>2. Accesses = u + IF wires = Nothing THEN 0 ELSE 1
    BY DEF Accesses, u
  <2> QED
    BY <2>1, <2>2
<1>4. Effort \in Nat
  <2> DEFINE s == Statements
             r == RunCycles
             a == Accesses
             x == IF LoadToCome THEN 3 ELSE 0
  <2>1. s \in Nat /\ r \in Nat /\ a \in Nat /\ x \in {0, 3}
    BY <1>1, <1>2, <1>3, StateFacts
  <2>2. Effort = 6 * (s + r) + a + x
    BY DEF Effort
  <2> HIDE DEF s, r, a, x
  <2> QED
    BY <2>1, <2>2
<1> QED
  BY <1>1, <1>2, <1>3, <1>4 DEF EffortOK

\* The head of the FIFOs is served in the cycle in which it comes there.
LEMMA ServedAtOnce ==
  ASSUME SlaveTypeOK, CoreTypeOK, ProgramTypeOK, SlaveCycle, first # Nothing,
         NEW m \in 0 .. n * n + 1, Queued(m), m <= n * n => Idle
  PROVE  served' = first
<1> SUFFICES ASSUME NoService PROVE FALSE
  BY DEF SlaveCycle
<1> DEFINE l == CurrentLoad
           w == WritesIssued
<1>1. first.command = "Write" /\ ~CallerMayFire /\ ~Idle
  BY OneRule DEF NoService, NothingToServe, CallerMayFire
<1>2. PICK s : /\ Writes(s, m, w)
               /\ Unserved = s \/ (pc \in Loads /\ Unserved = s \o <<l>>)
  BY DEF Queued
<1>3. Unserved # <<>> /\ Unserved[1] = first
  BY OldestAtHead
<1>4. s # <<>>
  <2> SUFFICES ASSUME s = <<>> PROVE FALSE
    OBVIOUS
  <2>1. pc \in Loads /\ Unserved = <<>> \o <<l>>
    BY <1>2, <1>3
  <2>2. l \in Request /\ IsRead(l)
    BY <2>1, LoadIsRead
  <2> HIDE DEF l
  <2>3. Unserved = <<l>>
    BY <2>1, <2>2, ConcatEmptySeq
  <2> QED
    BY <1>1, <1>3, <2>2, <2>3 DEF IsRead
<1>5. m < w
  BY <1>2, <1>4, WritesFirst, NextWrite, Square
<1> HIDE DEF w
<1>6. w \in 0 .. n * n + 1
  BY NextWrite DEF w
<1> QED
  BY <1>1, <1>5, <1>6, Square

\* When nothing comes to the head, the FIFOs are empty.
LEMMA NothingComes ==
  ASSUME SlaveTypeOK, first = Nothing
  PROVE  reqFIFO = <<>> /\ Unserved = OneOrNone(wires) /\ ~Stalled
<1>1. cliReq = Nothing
  BY DEF first
<1>2. reqFIFO = <<>>
  <2> SUFFICES ASSUME reqFIFO # <<>> PROVE FALSE
    OBVIOUS
  <2>1. first = Head(reqFIFO)
    BY <1>1 DEF first, Connect
  <2>2. Head(reqFIFO) \in Request
    BY HeadTailProperties DEF SlaveTypeOK
  <2> QED
    BY <2>1, <2>2, NothingAssumption
<1>3. OneOrNone(wires) \in Seq(Request)
  BY OneOrNoneType DEF SlaveTypeOK
<1>4. Unserved = (<<>> \o <<>>) \o OneOrNone(wires)
  BY <1>1, <1>2 DEF Unserved, Pending, OneOrNone
<1>5. Unserved = OneOrNone(wires)
  <2> DEFINE v == OneOrNone(wires)
  <2>1. Unserved = <<>> \o v
    BY <1>4
  <2> HIDE DEF v
  <2>2. Unserved = v
    BY <1>3, <2>1, ConcatEmptySeq DEF v
  <2> QED
    BY <2>2 DEF v
<1>6. ~Stalled
  BY <1>2 DEF Stalled, waitrequest, notFull, Depth
<1> QED
  BY <1>2, <1>5, <1>6

\* The accesses that the statement of this cycle adds.
Issues == IF issued' = Nothing THEN 0 ELSE 2

\* Each cycle brings the accesses on their way forward.
LEMMA AccessStep ==
  ASSUME SlaveTypeOK, SlaveTypeOK', CoreTypeOK, ProgramTypeOK, SystemNext,
         NEW m \in 0 .. n * n + 1, Queued(m), m <= n * n => Idle
  PROVE  /\ Unserved # <<>> => Accesses' <= Accesses - 1 + Issues
         /\ Unserved = <<>> => /\ Accesses' <= Accesses + Issues
                               /\ wires = Nothing
<1>1. SlaveCycle /\ Processor /\ AnyRequest
  BY ProcessorIsMaster DEF SystemNext
<1>2. /\ Left \in Seq(Request) /\ Unserved \in Seq(Request)
      /\ Unserved' = Left \o OneOrNone(issued')
      /\ issued' \in Request \cup {Nothing}
      /\ served' # Nothing => Unserved # <<>>
  BY CycleLeaves, OldestAtHead
<1> DEFINE u == Len(Unserved)
           l == Len(Left)
           x == IF wires = Nothing THEN 0 ELSE 1
           y == IF wires' = Nothing THEN 0 ELSE 1
           z == IF issued' = Nothing THEN 0 ELSE 1
<1>3. u \in Nat /\ l \in Nat
  BY <1>2, LenProperties
<1>4. Accesses = u + x
  BY DEF Accesses
<1>5. Accesses' = l + z + y
  <2>1. Accesses' = Len(Unserved') + y
    BY DEF Accesses
  <2> DEFINE v == OneOrNone(issued')
  <2>2. v \in Seq(Request) /\ Len(v) = z
    BY <1>2, OneOrNoneType DEF OneOrNone
  <2> HIDE DEF v
  <2>3. Len(Unserved') = l + Len(v)
    BY <1>2, <2>2, ConcatProperties DEF v
  <2> QED
    BY <2>1, <2>2, <2>3
<1>6. Issues = 2 * z
  BY DEF Issues
<1>7. /\ Stalled => x = 1 /\ y = 1 /\ z = 0
      /\ ~Stalled => y = z
  BY <1>1 DEF Stalled, AnyRequest
<1>8. x \in {0, 1} /\ y \in {0, 1} /\ z \in {0, 1}
  OBVIOUS
<1>9. CASE first # Nothing
  <2>1. served' = first
    BY <1>1, <1>9, ServedAtOnce
  <2>2. Unserved # <<>> /\ Left = Tail(Unserved)
    BY <1>2, <1>9, <2>1 DEF Left
  <2>3. l = u - 1
    BY <1>2, <2>2, HeadTailProperties
  <2> HIDE DEF u, l, x, y, z
  <2>4. l + z + y <= (u + x) - 1 + 2 * z
    BY <1>3, <1>7, <1>8, <2>3
  <2> QED
    BY <1>4, <1>5, <1>6, <2>2, <2>4
<1>10. CASE first = Nothing
  <2>1. Unserved = OneOrNone(wires) /\ ~Stalled
    BY <1>10, NothingComes
  <2>2. served' = Nothing
    BY <1>1, <1>10 DEF SlaveCycle, processWrite, processRead
  <2>3. Left = Unserved
    BY <2>2 DEF Left
  <2>4. u = x /\ (Unserved = <<>> <=> wires = Nothing)
    BY <2>1 DEF OneOrNone
  <2>5. l = u
    BY <2>3
  <2>6. x = 0 <=> wires = Nothing
    OBVIOUS
  <2> HIDE DEF u, l, x, y, z
  <2>7. l + z + y = x + 2 * z /\ u + x = 2 * x
    BY <1>3, <1>7, <1>8, <2>1, <2>4, <2>5
  <2>8. CASE Unserved = <<>>
    BY <1>4, <1>5, <1>6, <1>8, <2>4, <2>7, <2>8
  <2>9. CASE Unserved # <<>>
    <3>1. x = 1
      BY <1>8, <2>4, <2>6, <2>9
    <3> QED
      BY <1>4, <1>5, <1>6, <1>8, <2>7, <2>9, <3>1
  <2> QED
    BY <2>8, <2>9
<1> QED
  BY <1>9, <1>10

\* The writes find the core idle, and a run goes on when they are served.
LEMMA RunStep ==
  ASSUME CoreTypeOK, CoreTypeOK', ProgramTypeOK, ProgramTypeOK', EffortOK', SlaveCycle,
         NEW m \in 0 .. n * n + 1, Queued(m), m <= n * n => Idle,
         NEW k \in {m, m + 1}, Queued(k)', Served(m, k)
  PROVE  /\ k \in 0 .. n * n + 1
         /\ k <= n * n => Idle'
         /\ RunCycles' <= RunCycles
         /\ ~Idle => RunCycles' <= RunCycles - 1
<1>n. n * n \in Nat /\ n \in Nat /\ RunCycles' \in 0 .. n + 2
  BY Square DEF EffortOK
<1>1. CASE m = n * n + 1
  <2>1. ~(m < WritesIssued)
    BY <1>1, <1>n, NextWrite
  <2>2. k = m /\ (served' # Nothing => served' = CurrentLoad /\ pc \in Loads)
    BY <2>1 DEF Served
  <2>3. CoreRules
    <3> SUFFICES ASSUME processWrite, served' = first PROVE FALSE
      BY DEF SlaveCycle, processRead, NoService
    <3>1. IsRead(served')
      BY <2>2, LoadIsRead DEF processWrite
    <3> QED
      BY <3>1 DEF processWrite, IsRead
  <2>4. ~StartToCome /\ ~StartToCome'
    BY <1>1, <2>2, StartGone, StartGoneAfter
  <2>5. RunCycles = CyclesToIdle /\ RunCycles' = CyclesToIdle'
    BY <2>4 DEF RunCycles
  <2> DEFINE c == CyclesToIdle
             d == CyclesToIdle'
  <2>6. c \in 0 .. n + 1 /\ (c = 0 <=> Idle) /\ d = IF Idle THEN 0 ELSE c - 1
    BY <2>3, CycleCounts, CoreCounts
  <2> HIDE DEF c, d
  <2>7. d <= c /\ (~Idle => d <= c - 1)
    BY <1>n, <2>6
  <2> QED
    BY <1>1, <1>n, <2>2, <2>5, <2>7 DEF c, d
<1>2. CASE m # n * n + 1
  <2>1. m \in 0 .. n * n /\ Idle
    BY <1>2, <1>n
  <2>2. RunCycles = n + 2
    BY <2>1, StartLeft DEF RunCycles
  <2>3. k \in 0 .. n * n + 1
    BY <1>n, <2>1
  <2>4. ASSUME k <= n * n PROVE Idle'
    <3>1. CASE CoreRules
      BY <2>1, <3>1, IdleWaits DEF core, Idle
    <3>2. CASE processWrite /\ served' = first
      <4>1. served' = WriteNo(m) /\ k = m + 1
        <5>1. ~(served' = CurrentLoad /\ pc \in Loads)
          BY <3>2, LoadIsRead DEF processWrite, IsRead
        <5> QED
          BY <3>2, <5>1 DEF Served, processWrite
      <4>2. m # n * n
        BY <1>n, <2>1, <2>4, <4>1
      <4>3. first.addr[1] = 0 /\ first.addr # <<1, 0, 0>>
        <5> DEFINE l == (m \div n) % 256
                   c == (m % n) % 256
                   e == to_bit(matrix_O[CellNo(m)])
        <5>1. first = Write(<<0, l, c>>, e)
          BY <3>2, <4>1, <4>2 DEF WriteNo
        <5> HIDE DEF l, c, e
        <5>2. first.addr = <<0, l, c>>
          BY <5>1 DEF Write
        <5> QED
          BY <5>2
      <4>4. rState' = rState
        BY <3>2, <4>3 DEF processWrite, Put, Start, PutCycle, putElem
      <4> QED
        BY <2>1, <4>4 DEF Idle
    <3> QED
      BY <3>1, <3>2 DEF SlaveCycle, processRead, NoService
  <2> QED
    BY <1>n, <2>1, <2>2, <2>3, <2>4
<1> QED
  BY <1>1, <1>2

\* Where the reads are, in the cycles that serve none.
LEMMA ReadsLeft ==
  ASSUME SlaveTypeOK, SlaveTypeOK', ProgramTypeOK, SystemNext, ~IsRead(served')
  PROVE  /\ NoRead(Left) <=> NoRead(Unserved)
         /\ NoRead(Unserved') <=> NoRead(Left) /\ ~IsRead(issued')
<1>1. /\ Left \in Seq(Request) /\ Unserved \in Seq(Request)
      /\ Unserved' = Left \o OneOrNone(issued')
      /\ served' # Nothing => Unserved # <<>> /\ served' = Head(Unserved)
      /\ issued' \in Request \cup {Nothing}
  BY CycleLeaves, OldestAtHead
<1>2. NoRead(Left) <=> NoRead(Unserved)
  <2>1. CASE served' = Nothing
    BY <2>1 DEF Left
  <2>2. CASE served' # Nothing
    <3> DEFINE r == Head(Unserved)
               t == Tail(Unserved)
               u == <<r>>
    <3>1. /\ r \in Request /\ t \in Seq(Request) /\ u \in Seq(Request)
          /\ ~IsRead(r) /\ r # Nothing /\ Left = t
      BY <1>1, <2>2, HeadTailProperties DEF Left
    <3>2. Unserved = u \o t
      BY <1>1, <2>2
    <3>3. u = OneOrNone(r)
      BY <3>1 DEF OneOrNone
    <3> HIDE DEF r, t, u
    <3>4. NoRead(u)
      BY <3>1, <3>3, ReadsOfOne
    <3> QED
      BY <3>1, <3>2, <3>4, NoReadConcat
  <2> QED
    BY <2>1, <2>2
<1>3. NoRead(Unserved') <=> NoRead(Left) /\ ~IsRead(issued')
  <2> DEFINE v == OneOrNone(issued')
  <2>1. v \in Seq(Request) /\ (NoRead(v) <=> ~IsRead(issued'))
    BY <1>1, OneOrNoneType, ReadsOfOne, NotBoth
  <2> HIDE DEF v
  <2> QED
    BY <1>1, <2>1, NoReadConcat DEF v
<1> QED
  BY <1>2, <1>3

\* A load that is issued had no other before it.
LEMMA LoadAlone ==
  ASSUME SlaveTypeOK, SlaveTypeOK', ProgramTypeOK, SystemNext, WaitInv',
         ~awaiting', wires' = issued', ~IsRead(served'), pc \in Loads,
         NEW m \in Nat, Queued(m)
  PROVE  NoRead(Unserved)
<1> DEFINE l == CurrentLoad
<1>1. l \in Request /\ IsRead(l)
  BY LoadIsRead
<1>2. PICK s : \E k \in {m, m + 1} : /\ Writes(s, k, WritesIssued)
                                     /\ Left = s \/ Left = s \o <<l>>
  BY QueueLeft
<1>3. s \in Seq(Request)
  BY <1>2 DEF Writes
<1>4. Left = s
  BY <1>1, <1>2, <1>3, NoLoadLeft
<1>5. NoRead(s)
  <2>1. DOMAIN s = 1 .. Len(s)
    BY <1>3, LenProperties
  <2> QED
    BY <1>2, <2>1, WriteIsWrite DEF NoRead, Writes
<1> QED
  BY <1>4, <1>5, ReadsLeft

\* The statements: one less with an answer, unless the program polls again, which
\* it does only while the core runs; one less with a store; and one less at
\* the end.
LEMMA StatementsLeft ==
  ASSUME ProgramTypeOK, ProgramTypeOK'
  PROVE  /\ Answered /\ pc' # pc => Statements' <= Statements - 1
         /\ TransferMatrix \/ StartHardware => Statements' <= Statements - 1
         /\ FinalIteration => Statements' <= Statements - 1
         /\ UNCHANGED program => Statements' = Statements
<1> DEFINE q == n * n
           f(c, a) == CASE c = "transfer" -> 3 * q - a + 3
                        [] c = "start" -> 2 * q + 3
                        [] c = "poll" -> 2 * q + 2
                        [] c = "getint" -> 2 * (q - a) + 1
                        [] c = "getdet" -> 2 * (q - a)
                        [] c = "final" -> 1
                        [] c = "done" -> 0
           a == at
           b == at'
<1>1. Statements = f(pc, a) /\ Statements' = f(pc', b)
  BY DEF Statements
<1>2. q \in Nat /\ a \in 0 .. q - 1 /\ b \in 0 .. q - 1
  BY Square DEF ProgramTypeOK
<1>3. /\ f("transfer", a) = 3 * q - a + 3 /\ f("transfer", b) = 3 * q - b + 3
      /\ f("start", a) = 2 * q + 3 /\ f("start", b) = 2 * q + 3
      /\ f("poll", a) = 2 * q + 2 /\ f("poll", b) = 2 * q + 2
      /\ f("getint", a) = 2 * (q - a) + 1 /\ f("getint", b) = 2 * (q - b) + 1
      /\ f("getdet", a) = 2 * (q - a) /\ f("getdet", b) = 2 * (q - b)
      /\ f("final", a) = 1 /\ f("final", b) = 1
      /\ f("done", a) = 0 /\ f("done", b) = 0
  OBVIOUS
<1>4. last <=> a = q - 1
  BY DEF last
<1>5. ASSUME Answered, pc' # pc PROVE Statements' <= Statements - 1
  <2>1. \/ pc = "poll" /\ pc' = "getint"
        \/ pc = "getint" /\ pc' = "getdet" /\ b = a
        \/ pc = "getdet" /\ last /\ pc' = "final"
        \/ pc = "getdet" /\ ~last /\ pc' = "getint" /\ b = a + 1
    BY <1>5 DEF Answered
  <2> HIDE DEF f, q, a, b
  <2> QED
    BY <1>1, <1>2, <1>3, <1>4, <2>1
<1>6. ASSUME TransferMatrix \/ StartHardware PROVE Statements' <= Statements - 1
  <2>1. \/ pc = "transfer" /\ last /\ pc' = "start"
        \/ pc = "transfer" /\ ~last /\ pc' = "transfer" /\ b = a + 1
        \/ pc = "start" /\ pc' = "poll"
    BY <1>6 DEF TransferMatrix, StartHardware
  <2> HIDE DEF f, q, a, b
  <2> QED
    BY <1>1, <1>2, <1>3, <1>4, <2>1
<1>7. ASSUME FinalIteration PROVE Statements' <= Statements - 1
  <2>1. pc = "final" /\ pc' = "done"
    BY <1>7 DEF FinalIteration
  <2> HIDE DEF f
  <2> QED
    BY <1>1, <1>3, <2>1
<1>8. ASSUME UNCHANGED program PROVE Statements' = Statements
  BY <1>8 DEF program, Statements
<1> QED
  BY <1>5, <1>6, <1>7, <1>8

\* The program polls again only while the core runs.
LEMMA PollsAgain ==
  ASSUME CoreTypeOK, ProgramTypeOK, SlaveCycle, readdata' # Nothing, Answered, pc' = pc,
         NEW m, NEW k, Served(m, k)
  PROVE  ~Idle
<1>1. first = CurrentLoad /\ readdata' \in Result
  BY AnswerComes
<1>2. pc = "poll" /\ readdata' # 0
  BY DEF Answered, pollEnds
<1>3. first.addr = <<1, 0, 1>>
  BY <1>1, <1>2 DEF CurrentLoad, kk_isrunning, Read
<1>4. readdata' = Bool(isRunning)
  BY <1>1, <1>3 DEF Result
<1> QED
  BY <1>2, <1>4 DEF Bool, isRunning, Idle

\* The read that is served is the last request of the program, so that the
\* processor takes the answer.
LEMMA AnswerIsLast ==
  ASSUME SlaveTypeOK, SlaveTypeOK', ProgramTypeOK, SystemNext, IsRead(served'),
         NEW m \in Nat, Queued(m)
  PROVE  ~Stalled
<1> SUFFICES ASSUME Stalled PROVE FALSE
  OBVIOUS
<1>1. PICK s : \E k \in {m, m + 1} : Writes(s, k, WritesIssued) /\ Served(m, k) /\ Left = s
  BY QueueLeft
<1>2. PICK k \in {m, m + 1} : Writes(s, k, WritesIssued) /\ Served(m, k)
  BY <1>1
<1>3. k = WritesIssued
  BY <1>2, WriteIsWrite DEF Served, IsRead
<1>4. Left = <<>>
  <2>1. s \in Seq(Request) /\ Len(s) = k - k
    BY <1>2, <1>3 DEF Writes
  <2>2. Len(s) = 0
    BY <2>1
  <2> QED
    BY <1>1, <2>1, <2>2, EmptySeq
<1>5. wires' = wires /\ issued' = Nothing /\ wires \in Request
  BY DEF SystemNext, Processor, Stalled, SlaveTypeOK
<1>6. Unserved' = <<>>
  BY <1>4, <1>5, CycleLeaves DEF OneOrNone
<1> DEFINE c == OneOrNone(cliReq')
           p == Pending'
           e == <<wires>>
<1>7. p \in Seq(Request)
  <2>1. c \in Seq(Request) /\ reqFIFO' \in Seq(Request)
    BY OneOrNoneType DEF SlaveTypeOK
  <2>2. p = c \o reqFIFO'
    BY DEF Pending, OneOrNone
  <2> HIDE DEF c, p
  <2> QED
    BY <2>1, <2>2, ConcatProperties
<1>8. Unserved' = p \o e
  BY <1>5 DEF Unserved, OneOrNone, Stalled
<1>9. e \in Seq(Request) /\ Len(e) = 1
  BY <1>5
<1> HIDE DEF p, e
<1>10. Len(p \o e) = Len(p) + Len(e) /\ Len(p) \in Nat
  BY <1>7, <1>9, ConcatProperties, LenProperties
<1>11. p \o e = <<>>
  BY <1>6, <1>8
<1>12. Len(p \o e) = 0
  BY <1>11
<1> QED
  BY <1>9, <1>10, <1>12

\* The effort, cycle by cycle.  What the bus gains by an answer or a statement is
\* less than what the program loses.
LEMMA EffortStep ==
  ASSUME AnswerInv, AnswerInv', ProgramTypeOK, ProgramTypeOK', EffortOK, EffortOK', SystemNext,
         NEW m \in 0 .. n * n + 1, Queued(m), m <= n * n => Idle,
         NEW k \in {m, m + 1}, Queued(k)', Served(m, k)
  PROVE  Effort' < Effort \/ (Effort' = Effort /\ Computing)
<1>1. /\ SlaveTypeOK /\ SlaveTypeOK' /\ CoreTypeOK /\ CoreTypeOK' /\ WaitInv'
      /\ SlaveCycle /\ Processor /\ m \in Nat
  BY Square DEF AnswerInv, SystemNext
<1> DEFINE s == Statements
           t == Statements'
           r == RunCycles
           q == RunCycles'
           a == Accesses
           b == Accesses'
           x == IF LoadToCome THEN 3 ELSE 0
           y == IF LoadToCome' THEN 3 ELSE 0
<1>2. Effort = 6 * (s + r) + a + x /\ Effort' = 6 * (t + q) + b + y
  BY DEF Effort
<1>3. /\ s \in Int /\ t \in Int /\ r \in Int /\ q \in Int /\ a \in Int /\ b \in Int
      /\ x \in {0, 3} /\ y \in {0, 3}
  BY StateFacts DEF EffortOK
<1>4. /\ q <= r /\ (~Idle => q <= r - 1)
      /\ Unserved # <<>> => b <= a - 1 + Issues
      /\ Unserved = <<>> => b <= a + Issues /\ wires = Nothing
  BY <1>1, RunStep, AccessStep
<1>5. Issues = IF issued' = Nothing THEN 0 ELSE 2
  BY DEF Issues
<1>6. readdata' # Nothing <=> IsRead(served')
  BY <1>1, AnswerIsService
<1>7. /\ LoadToCome <=> pc \in Loads /\ NoRead(Unserved)
      /\ LoadToCome' <=> pc' \in Loads /\ NoRead(Unserved')
  BY DEF LoadToCome, NoRead
<1>8. CASE UNCHANGED program /\ issued' = Nothing /\ readdata' = Nothing
  <2>1. t = s /\ pc' = pc
    BY <1>8, StatementsLeft DEF program
  <2>2. ~IsRead(issued') /\ ~IsRead(served')
    BY <1>6, <1>8 DEF IsRead
  <2>3. y = x
    BY <1>1, <1>7, <2>1, <2>2, ReadsLeft
  <2>4. Issues = 0
    BY <1>5, <1>8
  <2> HIDE DEF s, t, r, q, a, b, x, y
  <2>5. CASE Unserved # <<>> \/ ~Idle
    BY <1>2, <1>3, <1>4, <2>1, <2>3, <2>4, <2>5
  <2>6. CASE Unserved = <<>> /\ Idle
    <3>1. wires = Nothing /\ ~Stalled
      BY <1>4, <2>6 DEF Stalled
    <3>2. wires' = Nothing
      BY <1>1, <1>8, <3>1, ProcessorIsMaster DEF AnyRequest
    <3>3. Computing
      BY <1>8, <2>6, <3>2 DEF Computing, Silent, isRunning, Idle
    <3> QED
      BY <1>2, <1>3, <1>4, <2>1, <2>3, <2>4, <2>6, <3>3
  <2> QED
    BY <2>5, <2>6
<1>9. CASE readdata' # Nothing /\ Silent /\ Answered
  <2>1. served' # Nothing
    BY <1>6, <1>9 DEF IsRead
  <2>2. Unserved # <<>>
    BY <1>1, <2>1, CycleLeaves
  <2>3. Issues = 0
    BY <1>5, <1>9 DEF Silent
  <2>4. CASE pc' # pc
    <3>1. t <= s - 1
      BY <1>9, <2>4, StatementsLeft
    <3> HIDE DEF s, t, r, q, a, b, x, y
    <3> QED
      BY <1>2, <1>3, <1>4, <2>2, <2>3, <3>1
  <2>5. CASE pc' = pc
    <3>1. ~Idle
      BY <1>1, <1>9, <2>5, PollsAgain
    <3>2. t = s
      <4>1. at' = at
        BY <1>9, <2>5 DEF Answered
      <4> QED
        BY <2>5, <4>1 DEF Statements
    <3> HIDE DEF s, t, r, q, a, b, x, y
    <3> QED
      BY <1>2, <1>3, <1>4, <2>2, <2>3, <3>1, <3>2
  <2> QED
    BY <2>4, <2>5
<1>10. CASE TransferMatrix \/ StartHardware
  <2>1. t <= s - 1
    BY <1>10, StatementsLeft
  <2>2. b <= a + 2
    <3>1. Issues \in {0, 2}
      BY <1>5
    <3> HIDE DEF a, b
    <3> QED
      BY <1>3, <1>4, <3>1
  <2> HIDE DEF s, t, r, q, a, b, x, y
  <2> QED
    BY <1>2, <1>3, <1>4, <2>1, <2>2
<1>11. CASE (Poll \/ GetInt \/ GetDet) /\ ~awaiting' /\ readdata' = Nothing
  <2>1. pc \in Loads /\ issued' = CurrentLoad /\ wires' = issued' /\ UNCHANGED program
    BY <1>11 DEF Poll, GetInt, GetDet, Load, Loads, CurrentLoad
  <2>2. IsRead(issued') /\ ~IsRead(served') /\ issued' # Nothing
    BY <1>6, <1>11, <2>1, LoadIsRead DEF IsRead
  <2>3. t = s
    BY <2>1, StatementsLeft
  <2>4. x = 3
    BY <1>1, <1>7, <1>11, <2>1, <2>2, LoadAlone
  <2>5. y = 0
    BY <1>1, <1>7, <2>2, ReadsLeft
  <2>6. Issues = 2
    BY <1>5, <2>2
  <2> HIDE DEF s, t, r, q, a, b, x, y
  <2> QED
    BY <1>2, <1>3, <1>4, <2>3, <2>4, <2>5, <2>6
<1>12. CASE Silent /\ FinalIteration
  <2>1. t <= s - 1
    BY <1>12, StatementsLeft
  <2>2. Issues = 0
    BY <1>5, <1>12 DEF Silent
  <2> HIDE DEF s, t, r, q, a, b, x, y
  <2> QED
    BY <1>2, <1>3, <1>4, <2>1, <2>2
<1>13. Stalled => readdata' = Nothing
  BY <1>1, <1>6, AnswerIsLast
<1> QED
  BY <1>1, <1>8, <1>9, <1>10, <1>11, <1>12, <1>13 DEF Processor, AnswerDue, Silent

\* The writes that are still to be served find the core idle.
WorkInv == \E m \in 0 .. n * n + 1 : Queued(m) /\ (m <= n * n => Idle)

LEMMA WorkBegins == SystemInit => WorkInv
BY SystemBegins DEF SystemInv, Computed, WorkInv

LEMMA WorkStep ==
  ASSUME AnswerInv, AnswerInv', ProgramTypeOK, ProgramTypeOK', EffortOK, EffortOK', SystemNext,
         WorkInv
  PROVE  WorkInv' /\ (Effort' < Effort \/ (Effort' = Effort /\ Computing))
<1>1. /\ SlaveTypeOK /\ SlaveTypeOK' /\ CoreTypeOK /\ CoreTypeOK' /\ WaitInv' /\ SlaveCycle
  BY DEF AnswerInv, SystemNext
<1>2. PICK m \in 0 .. n * n + 1 : Queued(m) /\ (m <= n * n => Idle)
  BY DEF WorkInv
<1>3. m \in Nat
  BY Square
<1>4. PICK k \in {m, m + 1} : Queued(k)' /\ Served(m, k)
  BY <1>1, <1>2, <1>3, QueueStep
<1>5. k \in 0 .. n * n + 1 /\ (k <= n * n => Idle')
  BY <1>1, <1>2, <1>4, RunStep
<1>6. WorkInv'
  BY <1>4, <1>5 DEF WorkInv
<1>7. Effort' < Effort \/ (Effort' = Effort /\ Computing)
  BY <1>2, <1>4, EffortStep
<1> QED
  BY <1>6, <1>7

\* The effort of the whole program.
WholeEffort == 18 * (n * n) + 6 * n + 30
EffortBounded == Effort \in 0 .. WholeEffort

LEMMA EffortBegins == SystemInit => Effort = WholeEffort
<1> SUFFICES ASSUME SystemInit PROVE Effort = WholeEffort
  OBVIOUS
<1>1. pc = "transfer" /\ at = 0 /\ Idle /\ wires = Nothing /\ Unserved = <<>>
  BY DEF SystemInit, SlaveInit, BusInit, Init, Unserved, Pending, OneOrNone, Idle
<1>2. StartToCome /\ ~LoadToCome
  BY <1>1 DEF StartToCome, LoadToCome, Loads
<1>3. Statements = 3 * (n * n) - 0 + 3
  BY <1>1 DEF Statements
<1>4. RunCycles = n + 2
  BY <1>1, <1>2 DEF RunCycles
<1>5. Accesses = 0
  BY <1>1 DEF Accesses
<1> DEFINE q == n * n
<1>6. q \in Nat /\ n \in Nat
  BY Square
<1> HIDE DEF q
<1>7. 6 * ((3 * q - 0 + 3) + (n + 2)) + 0 + 0 = 18 * q + 6 * n + 30
  BY <1>6
<1> QED
  BY <1>2, <1>3, <1>4, <1>5, <1>7 DEF Effort, WholeEffort, q

\* Every cycle brings the program nearer to its end, but those in which it
\* computes while nothing else goes on, and there are at most
\* 18 n n + 6 n + 30 of these cycles: for every size, input, arithmetic,
\* content of the registers at power up and schedule of the core.  The program
\* ends, therefore, unless it computes forever between two statements.
THEOREM EndsInTime == SystemSpec => []EffortBounded /\ EveryCycleCounts
<1>1. SystemSpec => []AnswerInv
  BY Legal, AnswerAlways, PTL DEF LegalMaster
<1>2. AnswerInv /\ ProgramTypeOK => EffortOK
  BY EffortType DEF AnswerInv
<1>3. SystemSpec => []EffortOK
  BY <1>1, <1>2, ProgramTypeCorrect, PTL
<1>4. AnswerInv /\ AnswerInv' /\ ProgramTypeOK /\ ProgramTypeOK' /\ EffortOK /\ EffortOK'
        /\ WorkInv /\ [SystemNext]_system
        => WorkInv' /\ [Effort' < Effort \/ (Effort' = Effort /\ Computing)]_system
  <2> SUFFICES ASSUME AnswerInv, AnswerInv', ProgramTypeOK, ProgramTypeOK', EffortOK, EffortOK',
                      WorkInv, [SystemNext]_system
               PROVE  WorkInv' /\ [Effort' < Effort \/ (Effort' = Effort /\ Computing)]_system
    OBVIOUS
  <2>1. CASE SystemNext
    BY <2>1, WorkStep
  <2>2. CASE UNCHANGED system
    <3>1. rState' = rState
      BY <2>2 DEF system
    <3>2. WorkInv'
      BY <2>2, <3>1, QueueStands DEF WorkInv, Idle
    <3> QED
      BY <2>2, <3>2
  <2> QED
    BY <2>1, <2>2
<1>5. EffortOK /\ EffortOK' /\ EffortBounded
        /\ [Effort' < Effort \/ (Effort' = Effort /\ Computing)]_system
        => EffortBounded'
  <2> SUFFICES ASSUME EffortOK, EffortOK', EffortBounded,
                      [Effort' < Effort \/ (Effort' = Effort /\ Computing)]_system
               PROVE  EffortBounded'
    OBVIOUS
  <2>1. UNCHANGED system => Effort' = Effort
    <3> SUFFICES ASSUME UNCHANGED system PROVE Effort' = Effort
      OBVIOUS
    <3>1. /\ Unserved' = Unserved /\ pc' = pc /\ at' = at /\ wires' = wires
          /\ rState' = rState
      BY DEF system, Unserved, Pending, OneOrNone
    <3>2. StartToCome' = StartToCome /\ LoadToCome' = LoadToCome
      BY <3>1 DEF StartToCome, LoadToCome
    <3>3. /\ Statements' = Statements /\ RunCycles' = RunCycles
          /\ Accesses' = Accesses
      BY <3>1, <3>2 DEF Statements, RunCycles, CyclesToIdle, Idle, Starting, Accesses
    <3> QED
      BY <3>2, <3>3 DEF Effort
  <2>2. Effort' <= Effort
    BY <2>1 DEF EffortOK
  <2> DEFINE e == Effort
             f == Effort'
             w == WholeEffort
  <2>3. e \in 0 .. w /\ f \in Nat /\ f <= e /\ w \in Int
    BY <2>2, Square DEF EffortOK, EffortBounded, WholeEffort
  <2>4. f \in 0 .. w
    <3> HIDE DEF e, f, w
    <3> QED
      BY <2>3
  <2>5. WholeEffort' = w
    BY DEF WholeEffort
  <2> QED
    BY <2>4, <2>5 DEF EffortBounded
<1>6. SystemInit => EffortBounded
  BY EffortBegins, Square DEF EffortBounded, WholeEffort
<1> QED
  BY <1>1, <1>3, <1>4, <1>5, <1>6, WorkBegins, ProgramTypeCorrect, PTL
  DEF SystemSpec, EveryCycleCounts
=============================================================================
