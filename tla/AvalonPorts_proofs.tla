-------------------------- MODULE AvalonPorts_proofs --------------------------
(***************************************************************************)
(* The parts of the bus ports, one by one.  FIFO2, of which the request    *)
(* queue of the slave port is made, keeps its types and implements the     *)
(* abstract queue, for every width of the words and for both values of     *)
(* guarded.  The master port in front of the slave port serves the reads   *)
(* of its clients in order, for any requests.                              *)
(***************************************************************************)
EXTENDS FIFO2, AvalonMaster, SequenceTheorems, TLAPS


\* Every edge keeps the widths of the data registers: the selector gates
\* whole words.
LEMMA DataEdgeType ==
  ASSUME TypeOK, DataEdge
  PROVE  data0_reg' \in Word /\ data1_reg' \in Word
BY DEF TypeOK, Inputs, DataEdge, Gate, Word

\* The new inputs have the types of the inputs.
LEMMA InputsType == ASSUME NewInputs PROVE Inputs'
BY DEF NewInputs, Inputs

\* The inductive step of TypeOK: the flags never say full and empty at once.
LEMMA TypeStep == TypeOK /\ [Next]_vars => TypeOK'
<1> SUFFICES ASSUME TypeOK, [Next]_vars PROVE TypeOK'
  OBVIOUS
<1>1. CASE UNCHANGED vars
  BY <1>1 DEF TypeOK, vars, Inputs, NoWarning
<1>2. CASE Next
  <2>1. DataEdge /\ Inputs'
    BY <1>2, InputsType DEF Next, Edge
  <2>2. data0_reg' \in Word /\ data1_reg' \in Word
    BY <2>1, DataEdgeType
  <2>3. full_reg' \in BOOLEAN /\ empty_reg' \in BOOLEAN /\ (full_reg' \/ empty_reg')
    <3>1. CASE Clear
      BY <3>1 DEF Clear
    <3>2. CASE Enqueue
      BY <3>2 DEF Enqueue, TypeOK
    <3>3. CASE Dequeue
      BY <3>3 DEF Dequeue, TypeOK
    <3>4. CASE Keep
      BY <3>4 DEF Keep, TypeOK
    <3> QED
      BY <1>2, <3>1, <3>2, <3>3, <3>4 DEF Next, Edge
  <2> QED
    BY <2>1, <2>2, <2>3 DEF TypeOK
<1> QED
  BY <1>1, <1>2

\* The flags of FIFO2.v are consistent after every edge: at most one of full
\* and empty holds, so FULL_N and EMPTY_N never both refuse the callers.
THEOREM TypeCorrect == Spec => []TypeOK
<1>1. Init => TypeOK
  BY DEF Init, TypeOK
<1> QED
  BY <1>1, TypeStep, PTL DEF Spec

-----------------------------------------------------------------------------
\* What the buffer holds after an edge, if it goes as it should.
NewContents == IF CLR THEN <<>> ELSE Abstract!Kept \o Abstract!Stored

\* A word enters an empty queue at the head, another one behind the head.
LEMMA EnqueueRefines ==
  ASSUME TypeOK, DataEdge, Enqueue
  PROVE  Contents' = NewContents
<1>1. ~CLR /\ ENQ /\ ~DEQ /\ full_reg /\ empty_reg'
  BY DEF Enqueue, TypeOK, Inputs, NoWarning
<1>2. CASE ~empty_reg
  <2>1. full_reg' /\ data0_reg' = D_IN
    BY <1>1, <1>2 DEF TypeOK, Enqueue, DataEdge, Gate, d0di, d0d1, d0h
  <2>2. NewContents = <<>> \o <<D_IN>>
    BY <1>1, <1>2 DEF NewContents, Contents, Abstract!Kept, Abstract!Stored
  <2> QED
    BY <1>1, <2>1, <2>2 DEF Contents
<1>3. CASE empty_reg
  <2>1. ~full_reg' /\ data0_reg' = data0_reg /\ data1_reg' = D_IN
    BY <1>1, <1>3 DEF TypeOK, Enqueue, DataEdge, Gate, d0di, d0d1, d0h, d1di
  <2>2. NewContents = <<data0_reg>> \o <<D_IN>>
    BY <1>1, <1>3 DEF NewContents, Contents, Abstract!Kept, Abstract!Stored
  <2> QED
    BY <1>1, <2>1, <2>2 DEF Contents
<1> QED
  BY <1>2, <1>3

\* The head leaves, and the word behind it takes its place.
LEMMA DequeueRefines ==
  ASSUME TypeOK, DataEdge, Dequeue
  PROVE  Contents' = NewContents
<1>1. ~CLR /\ DEQ /\ ~ENQ /\ empty_reg /\ full_reg'
  BY DEF Dequeue, TypeOK, Inputs, NoWarning
<1>2. CASE full_reg
  <2>1. ~empty_reg'
    BY <1>2 DEF Dequeue
  <2>2. NewContents = Tail(<<data0_reg>>) \o <<>>
    BY <1>1, <1>2 DEF NewContents, Contents, Abstract!Kept, Abstract!Stored
  <2> QED
    BY <2>1, <2>2 DEF Contents
<1>3. CASE ~full_reg
  <2>1. empty_reg' /\ data0_reg' = data1_reg
    BY <1>1, <1>3 DEF TypeOK, Dequeue, DataEdge, Gate, d0di, d0d1, d0h
  <2>2. NewContents = Tail(<<data0_reg, data1_reg>>) \o <<>>
    BY <1>1, <1>3 DEF NewContents, Contents, Abstract!Kept, Abstract!Stored
  <2> QED
    BY <1>1, <2>1, <2>2 DEF Contents
<1> QED
  BY <1>2, <1>3

\* Both or neither: the word that enters goes to the place that gets free,
\* which is the head if there was one word.
LEMMA KeepRefines ==
  ASSUME TypeOK, DataEdge, Keep
  PROVE  Contents' = NewContents
<1>1. ~CLR /\ full_reg' = full_reg /\ empty_reg' = empty_reg
  BY DEF Keep
<1>2. CASE ~ENQ /\ ~DEQ
  <2>1. (empty_reg => data0_reg' = data0_reg) /\ data1_reg' = data1_reg
    BY <1>2 DEF TypeOK, DataEdge, Gate, d0di, d0d1, d0h, d1di
  <2>2. NewContents = Contents \o <<>>
    BY <1>1, <1>2 DEF NewContents, Abstract!Kept, Abstract!Stored
  <2> QED
    BY <1>1, <2>1, <2>2 DEF Contents
<1>3. CASE ENQ /\ DEQ
  <2>1. empty_reg
    BY <1>1, <1>3 DEF TypeOK, Inputs, NoWarning
  <2>2. CASE full_reg
    <3>1. data0_reg' = D_IN
      BY <1>3, <2>1, <2>2 DEF TypeOK, DataEdge, Gate, d0di, d0d1, d0h
    <3>2. NewContents = Tail(<<data0_reg>>) \o <<D_IN>>
      BY <1>1, <1>3, <2>1, <2>2 DEF NewContents, Contents, Abstract!Kept, Abstract!Stored
    <3> QED
      BY <1>1, <2>1, <2>2, <3>1, <3>2 DEF Contents
  <2>3. CASE ~full_reg
    <3>1. data0_reg' = data1_reg /\ data1_reg' = D_IN
      BY <1>3, <2>1, <2>3 DEF TypeOK, DataEdge, Gate, d0di, d0d1, d0h, d1di
    <3>2. NewContents = Tail(<<data0_reg, data1_reg>>) \o <<D_IN>>
      BY <1>1, <1>3, <2>1, <2>3 DEF NewContents, Contents, Abstract!Kept, Abstract!Stored
    <3> QED
      BY <1>1, <2>1, <2>3, <3>1, <3>2 DEF Contents
  <2> QED
    BY <2>2, <2>3
<1> QED
  BY <1>2, <1>3 DEF Keep, TypeOK, Inputs

\* What the FIFO lets its users ask is what the buffer lets them ask.
LEMMA InputsAllowed == TypeOK => Abstract!Allowed
<1> SUFFICES ASSUME TypeOK PROVE Abstract!Allowed
  OBVIOUS
<1>1. empty_reg => Contents # <<>>
  BY DEF Contents
<1>2. full_reg => Len(Contents) < 2
  BY DEF Contents
<1> QED
  BY <1>1, <1>2 DEF TypeOK, Inputs, NoWarning, Abstract!Allowed

LEMMA StepRefines ==
  TypeOK /\ TypeOK' /\ [Next]_vars => [Abstract!Next]_(Abstract!vars)
<1> SUFFICES ASSUME TypeOK, TypeOK', [Next]_vars
             PROVE  [Abstract!Next]_(Abstract!vars)
  OBVIOUS
<1>1. CASE UNCHANGED vars
  BY <1>1 DEF vars, Contents, Abstract!vars
<1>2. CASE Next
  <2>1. Contents' = NewContents
    <3>1. CASE Clear
      BY <3>1 DEF Clear, Contents, NewContents
    <3> QED
      BY <1>2, <3>1, EnqueueRefines, DequeueRefines, KeepRefines DEF Next, Edge
  <2>2. Abstract!Allowed'
    BY InputsAllowed, PTL
  <2> QED
    BY <2>1, <2>2 DEF NewContents, Abstract!Next
<1> QED
  BY <1>1, <1>2

\* Every behaviour of the registers of FIFO2.v is a behaviour of a queue of
\* two words: no word is lost, duplicated, merged or overtaken.
THEOREM Implements == Spec => IsFIFO
<1>1. Init => Abstract!Init
  <2> SUFFICES ASSUME Init PROVE Abstract!Init
    OBVIOUS
  <2>1. TypeOK
    BY DEF Init, TypeOK
  <2> QED
    BY <2>1, InputsAllowed DEF Init, Contents, Abstract!Init
<1> QED
  BY <1>1, StepRefines, TypeCorrect, PTL DEF Spec, IsFIFO, Abstract!Spec

-----------------------------------------------------------------------------
(* The master port.  No answer is lost although handleResp cannot wait: an *)
(* eager client never leaves one in respFIFO, and a single one has its     *)
(* only read in one place.                                                 *)

MasterTypeOK ==
  /\ wires \in Request \cup {Nothing}
  /\ reqFIFO \in Seq(Request) /\ Len(reqFIFO) <= 2
  /\ respFIFO \in Request \cup {Nothing}
  /\ awaiting \in BOOLEAN
  /\ client \in Clients

EagerOK == client = "eager" => respFIFO = Nothing

\* What the single client awaits is in respFIFO or the only read in the slave.
SingleOK ==
  client = "single" =>
    /\ IsRead(wires) => ~awaiting
    /\ ~awaiting => respFIFO = Nothing /\ Reads(reqFIFO) = <<>>
    /\ awaiting => \/ respFIFO # Nothing /\ Reads(reqFIFO) = <<>>
                   \/ respFIFO = Nothing /\ \E r \in Request : Reads(reqFIFO) = <<r>>

MasterInv == MasterTypeOK /\ EagerOK /\ SingleOK

LEMMA ReadOfType ==
  ASSUME NEW r \in Request \cup {Nothing}
  PROVE  /\ ReadOf(r) \in Seq(Request)
         /\ IsRead(r) => r \in Request /\ r # Nothing
BY NothingAssumption, EmptySeq DEF ReadOf, IsRead

LEMMA BothEmpty ==
  ASSUME NEW S, NEW s \in Seq(S), NEW t \in Seq(S), s \o t = <<>>
  PROVE  s = <<>> /\ t = <<>>
<1> DEFINE e == <<>>
           st == s \o t
<1>1. /\ Len(s) \in Nat /\ Len(t) \in Nat
      /\ Len(st) = Len(s) + Len(t) /\ Len(e) = 0 /\ st = e
  BY LenProperties, ConcatProperties
<1> HIDE DEF e, st
<1>2. Len(s) = 0 /\ Len(t) = 0
  BY <1>1
<1> QED
  BY <1>2, EmptySeq

\* A queue of two places, by what is in it.
LEMMA QueueShapes ==
  ASSUME NEW s \in Seq(Request), Len(s) <= 2
  PROVE  \/ s = <<>>
         \/ \E a \in Request : s = <<a>>
         \/ \E a, b \in Request : s = <<a, b>>
<1>1. Len(s) = 0 \/ Len(s) = 1 \/ Len(s) = 2
  <2> DEFINE l == Len(s)
  <2>1. l \in Nat /\ l <= 2
    BY LenProperties
  <2> HIDE DEF l
  <2>2. l = 0 \/ l = 1 \/ l = 2
    BY <2>1
  <2> QED
    BY <2>2 DEF l
<1>2. CASE Len(s) = 0
  BY <1>2, EmptySeq
<1>3. CASE Len(s) = 1
  <2>1. s[1] \in Request
    BY <1>3, ElementOfSeq
  <2> DEFINE t == <<s[1]>>
  <2>2. t \in Seq(Request) /\ Len(t) = 1 /\ t[1] = s[1]
    BY <2>1
  <2> HIDE DEF t
  <2>3. s = t
    BY <1>3, <2>2, SeqEqual
  <2> QED
    BY <2>1, <2>3 DEF t
<1>4. CASE Len(s) = 2
  <2>1. s[1] \in Request /\ s[2] \in Request
    <3>1. 1 \in 1 .. Len(s) /\ 2 \in 1 .. Len(s)
      BY <1>4
    <3> QED
      BY <3>1, ElementOfSeq
  <2> DEFINE t == <<s[1], s[2]>>
  <2>2. t \in Seq(Request) /\ Len(t) = 2 /\ t[1] = s[1] /\ t[2] = s[2]
    BY <2>1
  <2> HIDE DEF t
  <2>3. \A x \in 1 .. Len(s) : s[x] = t[x]
    BY <1>4, <2>2
  <2>4. s = t
    BY <1>4, <2>2, <2>3, SeqEqual
  <2> QED
    BY <2>1, <2>4 DEF t
<1> QED
  BY <1>1, <1>2, <1>3, <1>4

LEMMA ReadsOfShapes ==
  /\ Reads(<<>>) = <<>>
  /\ \A a \in Request : Reads(<<a>>) = ReadOf(a)
  /\ \A a, b \in Request : Reads(<<a, b>>) = ReadOf(a) \o ReadOf(b)
<1>1. Reads(<<>>) = <<>>
  BY DEF Reads
<1>2. ASSUME NEW a \in Request PROVE Reads(<<a>>) = ReadOf(a)
  <2>1. Reads(<<a>>) = ReadOf(a) \o <<>>
    BY DEF Reads
  <2> QED
    BY <2>1, ReadOfType, ConcatEmptySeq
<1>3. ASSUME NEW a \in Request, NEW b \in Request
      PROVE  Reads(<<a, b>>) = ReadOf(a) \o ReadOf(b)
  BY DEF Reads
<1> QED
  BY <1>1, <1>2, <1>3

LEMMA ReadsType ==
  ASSUME NEW s \in Seq(Request), Len(s) <= 2
  PROVE  Reads(s) \in Seq(Request)
<1>1. CASE s = <<>>
  BY <1>1, ReadsOfShapes, EmptySeq
<1>2. CASE \E a \in Request : s = <<a>>
  BY <1>2, ReadsOfShapes, ReadOfType
<1>3. CASE \E a, b \in Request : s = <<a, b>>
  <2>1. PICK a, b \in Request : s = <<a, b>>
    BY <1>3
  <2>2. Reads(s) = ReadOf(a) \o ReadOf(b)
    BY <2>1, ReadsOfShapes
  <2>3. ReadOf(a) \in Seq(Request) /\ ReadOf(b) \in Seq(Request)
    BY ReadOfType
  <2> QED
    BY <2>2, <2>3, ConcatProperties
<1> QED
  BY <1>1, <1>2, <1>3, QueueShapes

\* What enters the queue goes behind, and what leaves it was in front.
LEMMA ReadsAppend ==
  ASSUME NEW s \in Seq(Request), Len(s) < 2, NEW r \in Request
  PROVE  /\ s \o <<r>> \in Seq(Request) /\ Len(s \o <<r>>) = Len(s) + 1
         /\ Reads(s \o <<r>>) = Reads(s) \o ReadOf(r)
<1>1. <<r>> \in Seq(Request) /\ Len(<<r>>) = 1
  OBVIOUS
<1>2. s \o <<r>> \in Seq(Request) /\ Len(s \o <<r>>) = Len(s) + 1
  BY <1>1, ConcatProperties
<1>3. CASE s = <<>>
  <2>1. s \o <<r>> = <<r>>
    BY <1>1, <1>3, ConcatEmptySeq
  <2> QED
    BY <1>2, <1>3, <2>1, ReadsOfShapes, ReadOfType, ConcatEmptySeq
<1>4. CASE \E a \in Request : s = <<a>>
  <2>1. PICK a \in Request : s = <<a>>
    BY <1>4
  <2>2. <<a>> \o <<r>> = <<a, r>>
    <3> DEFINE t == <<a>>
               u == <<r>>
               v == <<a, r>>
    <3>1. /\ t \in Seq(Request) /\ Len(t) = 1 /\ t[1] = a
          /\ u \in Seq(Request) /\ Len(u) = 1 /\ u[1] = r
          /\ v \in Seq(Request) /\ Len(v) = 2 /\ v[1] = a /\ v[2] = r
      OBVIOUS
    <3> HIDE DEF t, u, v
    <3>2. /\ t \o u \in Seq(Request) /\ Len(t \o u) = 2
          /\ (t \o u)[1] = a /\ (t \o u)[2] = r
      BY <3>1, ConcatProperties
    <3>3. \A x \in 1 .. Len(v) : (t \o u)[x] = v[x]
      BY <3>1, <3>2
    <3>4. t \o u = v
      BY <3>1, <3>2, <3>3, SeqEqual
    <3> QED
      BY <3>4 DEF t, u, v
  <2> QED
    BY <1>2, <2>1, <2>2, ReadsOfShapes
<1>5. ~\E a, b \in Request : s = <<a, b>>
  <2>1. ASSUME NEW a \in Request, NEW b \in Request, s = <<a, b>> PROVE FALSE
    <3>1. Len(<<a, b>>) = 2
      OBVIOUS
    <3>2. ~(2 < 2)
      OBVIOUS
    <3> QED
      BY <2>1, <3>1, <3>2
  <2> QED
    BY <2>1
<1>6. Len(s) <= 2
  <2>1. Len(s) \in Nat
    BY LenProperties
  <2> QED
    BY <2>1
<1> QED
  BY <1>3, <1>4, <1>5, <1>6, QueueShapes

LEMMA ReadsTail ==
  ASSUME NEW s \in Seq(Request), Len(s) <= 2, s # <<>>
  PROVE  /\ Head(s) \in Request
         /\ Tail(s) \in Seq(Request) /\ Len(Tail(s)) = Len(s) - 1
         /\ Reads(s) = ReadOf(Head(s)) \o Reads(Tail(s))
<1>1. Head(s) \in Request /\ Tail(s) \in Seq(Request) /\ Len(Tail(s)) = Len(s) - 1
  BY HeadTailProperties
<1>2. CASE \E a \in Request : s = <<a>>
  <2>1. PICK a \in Request : s = <<a>>
    BY <1>2
  <2>2. Head(s) = a /\ Tail(s) = <<>>
    BY <2>1
  <2> QED
    BY <1>1, <2>1, <2>2, ReadsOfShapes, ReadOfType, ConcatEmptySeq
<1>3. CASE \E a, b \in Request : s = <<a, b>>
  <2>1. PICK a, b \in Request : s = <<a, b>>
    BY <1>3
  <2>2. Head(s) = a /\ Tail(s) = <<b>>
    BY <2>1
  <2> QED
    BY <1>1, <2>1, <2>2, ReadsOfShapes
<1> QED
  BY <1>1, <1>2, <1>3, QueueShapes

\* What a cycle does: the queue of the slave without the request that is
\* served, and with the one that is accepted.
Base(serve) == IF serve THEN Tail(reqFIFO) ELSE reqFIFO
Answer(serve) == IF serve /\ IsRead(Head(reqFIFO)) THEN Head(reqFIFO) ELSE Nothing
AnswerSeq(r) == IF r = Nothing THEN <<>> ELSE <<r>>

LEMMA BaseFacts ==
  ASSUME MasterInv, NEW serve \in BOOLEAN, MasterCycle(serve)
  PROVE  /\ Base(serve) \in Seq(Request) /\ Len(Base(serve)) <= 2
         /\ Reads(Base(serve)) \in Seq(Request)
         /\ Accepted => Len(Base(serve)) < 2
         /\ Answer(serve) \in Request \cup {Nothing}
         /\ AnswerSeq(Answer(serve)) \in Seq(Request)
         /\ Reads(reqFIFO) = AnswerSeq(Answer(serve)) \o Reads(Base(serve))
<1>1. /\ reqFIFO \in Seq(Request) /\ Len(reqFIFO) <= 2 /\ Len(reqFIFO) \in Nat
      /\ serve => reqFIFO # <<>>
  BY LenProperties DEF MasterInv, MasterTypeOK, MasterCycle
<1>2. CASE ~serve
  <2>1. Base(serve) = reqFIFO /\ Answer(serve) = Nothing /\ AnswerSeq(Answer(serve)) = <<>>
    BY <1>2 DEF Base, Answer, AnswerSeq
  <2>2. Reads(reqFIFO) \in Seq(Request)
    BY <1>1, ReadsType
  <2>3. Accepted => Len(reqFIFO) < 2
    BY DEF Accepted, waitrequest, notFull, Depth
  <2> QED
    BY <1>1, <2>1, <2>2, <2>3, ConcatEmptySeq, EmptySeq
<1>3. CASE serve
  <2>1. Base(serve) = Tail(reqFIFO)
    BY <1>3 DEF Base
  <2>2. /\ Head(reqFIFO) \in Request
        /\ Tail(reqFIFO) \in Seq(Request) /\ Len(Tail(reqFIFO)) = Len(reqFIFO) - 1
        /\ Reads(reqFIFO) = ReadOf(Head(reqFIFO)) \o Reads(Tail(reqFIFO))
    BY <1>1, <1>3, ReadsTail
  <2>3. Len(Tail(reqFIFO)) <= 2 /\ Len(Tail(reqFIFO)) < 2
    BY <1>1, <2>2
  <2>4. Head(reqFIFO) # Nothing
    BY <2>2, NothingAssumption
  <2>5. AnswerSeq(Answer(serve)) = ReadOf(Head(reqFIFO))
    BY <1>3, <2>4 DEF AnswerSeq, Answer, ReadOf
  <2>6. Answer(serve) \in Request \cup {Nothing}
    BY <2>2 DEF Answer
  <2>7. ReadOf(Head(reqFIFO)) \in Seq(Request)
    BY <2>2, ReadOfType
  <2>8. Reads(Tail(reqFIFO)) \in Seq(Request)
    BY <2>2, <2>3, ReadsType
  <2> QED
    BY <2>1, <2>2, <2>3, <2>5, <2>6, <2>7, <2>8
<1> QED
  BY <1>2, <1>3

LEMMA EdgeFacts ==
  ASSUME MasterInv, NEW serve \in BOOLEAN, MasterCycle(serve)
  PROVE  /\ wires' \in Request \cup {Nothing}
         /\ reqFIFO' \in Seq(Request) /\ Len(reqFIFO') <= 2
         /\ Accepted => Reads(reqFIFO') = Reads(Base(serve)) \o ReadOf(wires)
         /\ ~Accepted => Reads(reqFIFO') = Reads(Base(serve))
         /\ \/ /\ wires # Nothing /\ ~Accepted
               /\ wires' = wires /\ issued' = Nothing
            \/ /\ Accepted \/ wires = Nothing
               /\ issued' = wires'
               /\ IsRead(wires') => ~(client = "single" /\ awaiting')
<1>1. wires \in Request \cup {Nothing}
  BY DEF MasterInv, MasterTypeOK
<1>2. handleReq /\ QueueEdge(serve)
  BY DEF MasterCycle
<1>3. /\ Base(serve) \in Seq(Request) /\ Len(Base(serve)) <= 2
      /\ Accepted => Len(Base(serve)) < 2
  BY BaseFacts
<1>4. wires' \in Request \cup {Nothing}
  BY <1>1, <1>2 DEF handleReq
<1>5. \/ /\ wires # Nothing /\ ~Accepted
         /\ wires' = wires /\ issued' = Nothing
      \/ /\ Accepted \/ wires = Nothing
         /\ issued' = wires'
         /\ IsRead(wires') => ~(client = "single" /\ awaiting')
  BY <1>2 DEF handleReq, ackReq, Accepted
<1>6. CASE Accepted
  <2>1. reqFIFO' = Base(serve) \o <<wires>> /\ wires \in Request
    BY <1>1, <1>2, <1>6 DEF QueueEdge, produceRequest, Accepted, waitrequest, Base
  <2>2. /\ reqFIFO' \in Seq(Request) /\ Len(reqFIFO') = Len(Base(serve)) + 1
        /\ Reads(reqFIFO') = Reads(Base(serve)) \o ReadOf(wires)
    BY <1>3, <1>6, <2>1, ReadsAppend
  <2>3. Len(reqFIFO') <= 2
    <3>1. Len(Base(serve)) \in Nat /\ Len(Base(serve)) < 2
      BY <1>3, <1>6, LenProperties
    <3> HIDE DEF Base
    <3> QED
      BY <2>2, <3>1
  <2> QED
    BY <1>4, <1>5, <1>6, <2>2, <2>3
<1>7. CASE ~Accepted
  <2>1. reqFIFO' = Base(serve) \o <<>>
    BY <1>1, <1>2, <1>7 DEF QueueEdge, produceRequest, Accepted, waitrequest, Base
  <2>2. reqFIFO' = Base(serve)
    BY <1>3, <2>1, ConcatEmptySeq
  <2> QED
    BY <1>3, <1>4, <1>5, <1>7, <2>2
<1> QED
  BY <1>6, <1>7

\* Either there is an answer in respFIFO or one comes, not both: handleResp
\* loses none.
LEMMA NoAnswerLost ==
  ASSUME MasterInv, NEW serve \in BOOLEAN, MasterCycle(serve)
  PROVE  /\ respFIFO = Nothing \/ Answer(serve) = Nothing
         /\ \/ /\ handleResp(Answer(serve)) # Nothing
               /\ got' = handleResp(Answer(serve)) /\ respFIFO' = Nothing
            \/ /\ client = "eager" => handleResp(Answer(serve)) = Nothing
               /\ got' = Nothing /\ respFIFO' = handleResp(Answer(serve))
<1>1. Reads(reqFIFO) = AnswerSeq(Answer(serve)) \o Reads(Base(serve))
      /\ AnswerSeq(Answer(serve)) \in Seq(Request) /\ Reads(Base(serve)) \in Seq(Request)
  BY BaseFacts
<1>2. respFIFO = Nothing \/ Reads(reqFIFO) = <<>>
  BY DEF MasterInv, MasterTypeOK, EagerOK, SingleOK, Clients
<1>3. ASSUME Reads(reqFIFO) = <<>> PROVE Answer(serve) = Nothing
  <2>1. AnswerSeq(Answer(serve)) = <<>>
    BY <1>1, <1>3, BothEmpty
  <2> QED
    BY <2>1 DEF AnswerSeq
<1>4. respFIFO = Nothing \/ Answer(serve) = Nothing
  BY <1>2, <1>3
<1> DEFINE there == handleResp(Answer(serve))
<1>5. \/ there # Nothing /\ got' = there /\ respFIFO' = Nothing
      \/ (client = "eager" => there = Nothing) /\ got' = Nothing /\ respFIFO' = there
  BY DEF MasterCycle, Answer
<1> QED
  BY <1>4, <1>5

LEMMA MasterInvStep ==
  ASSUME MasterInv, NEW serve \in BOOLEAN, MasterCycle(serve)
  PROVE  MasterInv'
<1> DEFINE a == Answer(serve)
           left == Reads(Base(serve))
<1>1. /\ respFIFO \in Request \cup {Nothing} /\ awaiting \in BOOLEAN /\ client \in Clients
      /\ wires \in Request \cup {Nothing}
  BY DEF MasterInv, MasterTypeOK
<1>2. /\ a \in Request \cup {Nothing} /\ left \in Seq(Request)
      /\ AnswerSeq(a) \in Seq(Request) /\ Reads(reqFIFO) = AnswerSeq(a) \o left
  BY BaseFacts
<1>3. /\ client' = client
      /\ awaiting' = ((Accepted /\ IsRead(wires)) \/ (awaiting /\ got' = Nothing))
  BY DEF MasterCycle
<1>4. /\ wires' \in Request \cup {Nothing}
      /\ reqFIFO' \in Seq(Request) /\ Len(reqFIFO') <= 2
      /\ Accepted => Reads(reqFIFO') = left \o ReadOf(wires)
      /\ ~Accepted => Reads(reqFIFO') = left
      /\ \/ /\ wires # Nothing /\ ~Accepted
            /\ wires' = wires /\ issued' = Nothing
         \/ /\ Accepted \/ wires = Nothing
            /\ issued' = wires'
            /\ IsRead(wires') => ~(client = "single" /\ awaiting')
  BY EdgeFacts
<1>5. /\ respFIFO = Nothing \/ a = Nothing
      /\ \/ handleResp(a) # Nothing /\ got' = handleResp(a) /\ respFIFO' = Nothing
         \/ /\ client = "eager" => handleResp(a) = Nothing
            /\ got' = Nothing /\ respFIFO' = handleResp(a)
  BY NoAnswerLost
<1> HIDE DEF a, left
<1>6. handleResp(a) = IF respFIFO = Nothing THEN a ELSE respFIFO
  BY DEF handleResp
<1>7. MasterTypeOK'
  BY <1>1, <1>2, <1>3, <1>4, <1>5, <1>6 DEF MasterTypeOK
<1>8. EagerOK'
  BY <1>3, <1>5 DEF EagerOK
<1>9. SingleOK'
  <2> SUFFICES ASSUME client = "single" PROVE SingleOK'
    BY <1>3 DEF SingleOK
  <2>1. /\ IsRead(wires) => ~awaiting
        /\ ~awaiting => respFIFO = Nothing /\ Reads(reqFIFO) = <<>>
        /\ awaiting => \/ respFIFO # Nothing /\ Reads(reqFIFO) = <<>>
                       \/ respFIFO = Nothing /\ \E r \in Request : Reads(reqFIFO) = <<r>>
    BY DEF MasterInv, SingleOK
  <2>2. IsRead(wires') => ~awaiting'
    BY <1>3, <1>4, <2>1
  <2>3. Reads(reqFIFO) = <<>> => a = Nothing /\ left = <<>>
    <3>1. ASSUME Reads(reqFIFO) = <<>> PROVE a = Nothing /\ left = <<>>
      <4>1. AnswerSeq(a) = <<>> /\ left = <<>>
        BY <1>2, <3>1, BothEmpty
      <4> QED
        BY <4>1 DEF AnswerSeq
    <3> QED
      BY <3>1
  <2>4. ASSUME NEW r \in Request, Reads(reqFIFO) = <<r>>
        PROVE  \/ a = r /\ left = <<>>
               \/ a = Nothing /\ left = <<r>>
    <3>1. CASE a = Nothing
      <4>1. AnswerSeq(a) = <<>>
        BY <3>1 DEF AnswerSeq
      <4> QED
        BY <1>2, <2>4, <3>1, <4>1, ConcatEmptySeq
    <3>2. CASE a # Nothing
      <4> DEFINE t == <<a>>
                 u == <<r>>
      <4>1. /\ t \in Seq(Request) /\ Len(t) = 1 /\ t[1] = a
            /\ u \in Seq(Request) /\ Len(u) = 1 /\ u[1] = r
        BY <1>2, <3>2
      <4>2. u = t \o left
        BY <1>2, <2>4, <3>2 DEF AnswerSeq
      <4> HIDE DEF t, u
      <4>3. Len(left) = 0 /\ a = r
        BY <1>2, <4>1, <4>2, ConcatProperties, LenProperties
      <4> QED
        BY <1>2, <4>3, EmptySeq
    <3> QED
      BY <3>1, <3>2
  <2>5. CASE ~awaiting
    <3>1. respFIFO = Nothing /\ a = Nothing /\ left = <<>> /\ handleResp(a) = Nothing
      BY <1>6, <2>1, <2>3, <2>5
    <3>2. respFIFO' = Nothing /\ got' = Nothing
      BY <1>5, <3>1
    <3>3. CASE Accepted /\ IsRead(wires)
      <4>1. awaiting' /\ Reads(reqFIFO') = <<>> \o <<wires>> /\ wires \in Request
        <5>1. wires \in Request
          BY <1>1, <3>3 DEF IsRead
        <5>2. awaiting'
          BY <1>3, <3>3
        <5>3. ReadOf(wires) = <<wires>>
          BY <3>3 DEF ReadOf
        <5> QED
          BY <1>4, <3>1, <3>3, <5>1, <5>2, <5>3
      <4>2. Reads(reqFIFO') = <<wires>>
        <5>1. <<wires>> \in Seq(Request)
          BY <4>1
        <5> QED
          BY <4>1, <5>1, ConcatEmptySeq
      <4> QED
        BY <2>2, <3>2, <4>1, <4>2 DEF SingleOK
    <3>4. CASE ~(Accepted /\ IsRead(wires))
      <4>1. ~awaiting'
        BY <1>3, <2>5, <3>4
      <4>2. Reads(reqFIFO') = <<>>
        BY <1>4, <3>1, <3>4, EmptySeq, ConcatEmptySeq DEF ReadOf
      <4> QED
        BY <2>2, <3>2, <4>1, <4>2 DEF SingleOK
    <3> QED
      BY <3>3, <3>4
  <2>6. CASE awaiting
    <3>1. ~IsRead(wires) /\ awaiting' = (got' = Nothing)
      BY <1>3, <2>1, <2>6
    <3>2. Reads(reqFIFO') = left
      <4>1. left \o <<>> = left
        BY <1>2, ConcatEmptySeq
      <4> QED
        BY <1>4, <3>1, <4>1 DEF ReadOf
    <3>3. \/ handleResp(a) # Nothing /\ left = <<>>
          \/ handleResp(a) = Nothing /\ \E r \in Request : left = <<r>>
      <4>1. CASE respFIFO # Nothing /\ Reads(reqFIFO) = <<>>
        BY <1>6, <2>3, <4>1
      <4>2. CASE respFIFO = Nothing /\ \E r \in Request : Reads(reqFIFO) = <<r>>
        BY <1>6, <2>4, <4>2, NothingAssumption
      <4> QED
        BY <2>1, <2>6, <4>1, <4>2
    <3>4. <<>> # left \/ left = <<>>
      OBVIOUS
    <3> QED
      BY <1>5, <2>2, <3>1, <3>2, <3>3 DEF SingleOK
  <2> QED
    BY <1>1, <2>5, <2>6
<1> QED
  BY <1>7, <1>8, <1>9 DEF MasterInv

LEMMA MasterInitOK == MasterInit => MasterInv /\ ClientView!Init
<1> SUFFICES ASSUME MasterInit PROVE MasterInv /\ ClientView!Init
  OBVIOUS
<1>1. /\ wires = Nothing /\ awaiting = FALSE /\ reqFIFO = <<>> /\ issued = Nothing
      /\ client \in Clients /\ respFIFO = Nothing /\ got = Nothing
  BY DEF MasterInit, BusInit
<1>2. reqFIFO \in Seq(Request) /\ Len(reqFIFO) <= 2 /\ Reads(reqFIFO) = <<>>
  BY <1>1, EmptySeq, ReadsOfShapes
<1>3. ~IsRead(Nothing) /\ ReadOf(Nothing) = <<>>
  BY DEF IsRead, ReadOf
<1>4. MasterInv
  BY <1>1, <1>2, <1>3 DEF MasterInv, MasterTypeOK, EagerOK, SingleOK
<1>5. ClientView!Init
  BY <1>1, <1>2, <1>3 DEF ClientView!Init
<1> QED
  BY <1>4, <1>5

LEMMA MasterInvariant == MasterSpec => []MasterInv
<1>1. MasterInv /\ [MasterNext]_masterVars => MasterInv'
  <2>1. MasterInv /\ UNCHANGED masterVars => MasterInv'
    BY DEF masterVars, MasterInv, MasterTypeOK, EagerOK, SingleOK, Reads, ReadOf, IsRead
  <2>2. MasterInv /\ MasterNext => MasterInv'
    BY MasterInvStep DEF MasterNext
  <2> QED
    BY <2>1, <2>2
<1> QED
  BY <1>1, MasterInitOK, PTL DEF MasterSpec

LEMMA Regroup ==
  \A s, t, u \in Seq(Request) : (s \o t) \o u = s \o (t \o u)
<1> SUFFICES ASSUME NEW s \in Seq(Request), NEW t \in Seq(Request), NEW u \in Seq(Request)
             PROVE  (s \o t) \o u = s \o (t \o u)
  OBVIOUS
<1> QED
  BY ConcatAssociative

\* The requests of the client, oldest first, before a cycle and after it.
LEMMA ClientQueue ==
  ASSUME MasterInv, NEW serve \in BOOLEAN, MasterCycle(serve)
  PROVE  LET there == AnswerSeq(handleResp(Answer(serve)))
             rest  == Reads(Base(serve)) \o ReadOf(wires)
         IN  /\ there \in Seq(Request) /\ rest \in Seq(Request)
             /\ ReadOf(issued') \in Seq(Request) /\ issued' \in Request \cup {Nothing}
             /\ AnswerSeq(respFIFO) \o Reads(reqFIFO) \o ReadOf(wires) = there \o rest
             /\ AnswerSeq(respFIFO') \o Reads(reqFIFO') \o ReadOf(wires')
                  = AnswerSeq(respFIFO') \o (rest \o ReadOf(issued'))
<1> DEFINE a == Answer(serve)
           left == Reads(Base(serve))
           w == ReadOf(wires)
           n == ReadOf(issued')
           w1 == ReadOf(wires')
           old == AnswerSeq(respFIFO)
           new == AnswerSeq(respFIFO')
           there == AnswerSeq(handleResp(a))
           q1 == Reads(reqFIFO')
           q0 == Reads(reqFIFO)
           as == AnswerSeq(a)
<1>1. /\ respFIFO \in Request \cup {Nothing} /\ wires \in Request \cup {Nothing}
      /\ reqFIFO \in Seq(Request) /\ Len(reqFIFO) <= 2
  BY DEF MasterInv, MasterTypeOK
<1>2. /\ a \in Request \cup {Nothing} /\ left \in Seq(Request)
      /\ as \in Seq(Request) /\ q0 = as \o left
  BY BaseFacts
<1>3. respFIFO' \in Request \cup {Nothing}
  BY MasterInvStep DEF MasterInv, MasterTypeOK
<1>4. wires' \in Request \cup {Nothing} /\ issued' \in Request \cup {Nothing}
  BY EdgeFacts
<1>5. w \in Seq(Request) /\ n \in Seq(Request) /\ w1 \in Seq(Request)
  BY <1>1, <1>4, ReadOfType
<1>6. old \in Seq(Request) /\ new \in Seq(Request)
  BY <1>1, <1>3, EmptySeq DEF AnswerSeq
<1>7. there \in Seq(Request) /\ there = old \o as
  <2>1. CASE respFIFO = Nothing
    <3>1. there = as /\ old = <<>>
      BY <2>1 DEF handleResp, AnswerSeq
    <3> HIDE DEF as, there, old
    <3> QED
      BY <1>2, <3>1, ConcatEmptySeq
  <2>2. CASE respFIFO # Nothing
    <3>1. a = Nothing
      BY <2>2, NoAnswerLost
    <3>2. there = old /\ as = <<>>
      BY <2>2, <3>1 DEF handleResp, AnswerSeq
    <3> HIDE DEF as, there, old
    <3> QED
      BY <1>6, <3>2, ConcatEmptySeq
  <2> QED
    BY <2>1, <2>2
<1>8. q1 \in Seq(Request) /\ q1 \o w1 = (left \o w) \o n
  <2>1. ReadOf(Nothing) = <<>>
    BY DEF ReadOf, IsRead
  <2>2. left \o w \in Seq(Request) /\ left \o <<>> = left /\ w \o <<>> = w
    <3> HIDE DEF left, w
    <3> QED
      BY <1>2, <1>5, ConcatProperties, ConcatEmptySeq
  <2>3. q1 \in Seq(Request)
    BY EdgeFacts, ReadsType
  <2>4. CASE Accepted
    <3>1. q1 = left \o w /\ n = w1
      BY <2>4, EdgeFacts
    <3> QED
      BY <2>3, <3>1
  <2>5. CASE ~Accepted /\ wires = Nothing
    <3>1. q1 = left /\ n = w1 /\ w = <<>>
      BY <2>1, <2>5, EdgeFacts
    <3> QED
      BY <2>2, <2>3, <3>1
  <2>6. CASE ~Accepted /\ wires # Nothing
    <3>1. q1 = left /\ w1 = w /\ n = <<>>
      BY <2>1, <2>6, EdgeFacts
    <3>2. (left \o w) \o <<>> = left \o w
      BY <2>2, ConcatEmptySeq
    <3> QED
      BY <2>3, <3>1, <3>2
  <2> QED
    BY <2>4, <2>5, <2>6
<1> HIDE DEF a, left, w, n, w1, old, new, there, q0, q1, as
<1>9. old \o q0 \o w = there \o (left \o w)
  <2>1. old \o (as \o left) = there \o left
    BY <1>2, <1>6, <1>7, Regroup
  <2>2. (there \o left) \o w = there \o (left \o w)
    BY <1>2, <1>5, <1>7, Regroup
  <2> QED
    BY <1>2, <2>1, <2>2
<1>10. new \o q1 \o w1 = new \o ((left \o w) \o n)
  <2>1. (new \o q1) \o w1 = new \o (q1 \o w1)
    BY <1>5, <1>6, <1>8, Regroup
  <2> QED
    BY <1>8, <2>1
<1>11. left \o w \in Seq(Request)
  BY <1>2, <1>5, ConcatProperties
<1> QED
  BY <1>4, <1>5, <1>7, <1>9, <1>10, <1>11 DEF a, left, w, n, w1, old, new, there, q0, q1

\* A cycle in which the client gets an answer serves its oldest read; in any
\* other cycle the reads wait.
LEMMA MasterCycleRefines ==
  ASSUME MasterInv, NEW serve \in BOOLEAN, MasterCycle(serve)
  PROVE  ClientView!Next
<1> DEFINE h == handleResp(Answer(serve))
           there == AnswerSeq(h)
           rest == Reads(Base(serve)) \o ReadOf(wires)
           n == ReadOf(issued')
           new == AnswerSeq(respFIFO')
           q == AnswerSeq(respFIFO) \o Reads(reqFIFO) \o ReadOf(wires)
           q1 == AnswerSeq(respFIFO') \o Reads(reqFIFO') \o ReadOf(wires')
           i1 == IF IsRead(issued') THEN issued' ELSE Nothing
<1>1. /\ there \in Seq(Request) /\ rest \in Seq(Request) /\ n \in Seq(Request)
      /\ issued' \in Request \cup {Nothing}
      /\ q = there \o rest /\ q1 = new \o (rest \o n)
  BY ClientQueue
<1>2. \/ h # Nothing /\ got' = h /\ respFIFO' = Nothing
      \/ got' = Nothing /\ respFIFO' = h
  BY NoAnswerLost
<1>3. i1 \in Request \cup {Nothing} /\ ClientView!New = n
  <2>1. i1 \in Request \cup {Nothing}
    BY <1>1
  <2>2. ClientView!New = IF i1 = Nothing THEN <<>> ELSE <<i1>>
    BY DEF ClientView!New
  <2>3. IsRead(issued') => issued' # Nothing
    BY DEF IsRead
  <2> QED
    BY <2>1, <2>2, <2>3 DEF ReadOf
<1>4. /\ ClientView!Wait <=> got' = Nothing /\ q1 = q \o ClientView!New
      /\ ClientView!Serve <=> q # <<>> /\ got' = Head(q) /\ q1 = Tail(q) \o ClientView!New
      /\ ClientView!Next <=> i1 \in Request \cup {Nothing} /\ (ClientView!Wait \/ ClientView!Serve)
  BY DEF ClientView!Wait, ClientView!Serve, ClientView!Next, AnswerSeq
<1> SUFFICES ClientView!Wait \/ ClientView!Serve
  BY <1>3, <1>4
<1>5. CASE h # Nothing /\ got' = h /\ respFIFO' = Nothing
  <2>1. there = <<h>> /\ new = <<>>
    BY <1>5 DEF AnswerSeq
  <2>2. h \in Request
    <3>1. <<h>> \in Seq(Request)
      BY <1>1, <2>1
    <3> QED
      BY <3>1
  <2> HIDE DEF h, there, rest, n, new, q, q1
  <2>3. q # <<>> /\ Head(q) = h /\ Tail(q) = rest
    BY <1>1, <2>1, <2>2
  <2>4. rest \o n \in Seq(Request)
    BY <1>1, ConcatProperties
  <2>5. q1 = rest \o n
    BY <1>1, <2>1, <2>4, ConcatEmptySeq
  <2> QED
    BY <1>3, <1>4, <1>5, <2>3, <2>5
<1>6. CASE got' = Nothing /\ respFIFO' = h
  <2>1. new = there
    BY <1>6
  <2> HIDE DEF h, there, rest, n, new, q, q1
  <2>2. there \o (rest \o n) = (there \o rest) \o n
    BY <1>1, Regroup
  <2> QED
    BY <1>1, <1>3, <1>4, <1>6, <2>1, <2>2
<1> QED
  BY <1>2, <1>5, <1>6

\* Every read is answered to the client in order, once and with its own answer,
\* if the client takes answers at once or has one read at a time: although
\* handleResp drops an answer that finds respFIFO full, it never has to.
THEOREM MasterServes == MasterSpec => ReadsServedInOrder
<1>1. MasterInv /\ [MasterNext]_masterVars => [ClientView!Next]_(ClientView!vars)
  <2>1. UNCHANGED masterVars => UNCHANGED ClientView!vars
    BY DEF masterVars, ClientView!vars, Reads, ReadOf, IsRead
  <2>2. MasterInv /\ MasterNext => ClientView!Next
    BY MasterCycleRefines DEF MasterNext
  <2> QED
    BY <2>1, <2>2
<1> QED
  BY <1>1, MasterInitOK, MasterInvariant, PTL DEF MasterSpec, ReadsServedInOrder, ClientView!Spec
=============================================================================
