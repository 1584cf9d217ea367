--------------------------- MODULE JtagUart_proofs ---------------------------
(***************************************************************************)
(* The driver of the JTAG UART hands over every byte in order and loses no *)
(* wake-up, for any bytes, any lengths of the ring buffers and FIFOs and   *)
(* any calls of the program; a read that fails has found the buffer empty. *)
(*                                                                         *)
(* The argument: what a call has found when it looked at a ring buffer     *)
(* stays true until it has made use of it, since the handler only makes    *)
(* more of it.  The room that write found stays free (WriteOK), the bytes  *)
(* that read found stay there (ReadOK), and so does the space that the     *)
(* handler saw in the device (HandlerOK), as the host only takes bytes     *)
(* away.  A copy behind the last byte of a ring buffer is then             *)
(* concatenation (RingExtend) and an advance of its end cuts off the       *)
(* oldest bytes (RingSplit).                                               *)
(***************************************************************************)
EXTENDS JtagUart, SequenceTheorems, TLAPS

LEMMA Lengths == BUF_LEN \in Nat /\ BUF_LEN > 1 /\ FIFO_LEN \in Nat /\ FIFO_LEN > 0
BY LengthAssumption

\* The remainders that the indices need.
LEMMA ModWindow ==
  ASSUME NEW m \in Nat \ {0}, NEW x \in Int, -m <= x, x < 2 * m
  PROVE  x % m = IF x < 0 THEN x + m ELSE IF x < m THEN x ELSE x - m
<1> DEFINE r == x % m
           q == x \div m
<1>1. q \in Int /\ r \in 0 .. m - 1 /\ x = m * q + r
  OBVIOUS
<1> HIDE DEF r, q
<1>2. q \in {-1, 0, 1}
  <2>1. ASSUME q >= 2 PROVE FALSE
    <3>1. m * q >= m * 2
      BY <1>1, <2>1
    <3> QED
      BY <1>1, <3>1
  <2>2. ASSUME q <= -2 PROVE FALSE
    <3>1. m * q <= m * (-2)
      BY <1>1, <2>2
    <3> QED
      BY <1>1, <3>1
  <2> QED
    BY <1>1, <2>1, <2>2
<1>3. r = x - m * q
  BY <1>1
<1>4. CASE q = -1
  BY <1>1, <1>3, <1>4 DEF r
<1>5. CASE q = 0
  BY <1>1, <1>3, <1>5 DEF r
<1>6. CASE q = 1
  BY <1>1, <1>3, <1>6 DEF r
<1> QED
  BY <1>2, <1>4, <1>5, <1>6

\* How many slots of a ring buffer are taken.
Used(in, out) == (in - out) % BUF_LEN

LEMMA UsedValue ==
  ASSUME NEW in \in Slots, NEW out \in Slots
  PROVE  /\ Used(in, out) = IF in >= out THEN in - out ELSE in - out + BUF_LEN
         /\ Used(in, out) \in Slots
<1> DEFINE x == in - out
<1>1. /\ BUF_LEN \in Nat \ {0}
      /\ x \in Int /\ -BUF_LEN <= x /\ x < BUF_LEN /\ x < 2 * BUF_LEN
  BY Lengths DEF Slots
<1>2. Used(in, out) = x % BUF_LEN
  BY DEF Used
<1> HIDE DEF x
<1>3. x % BUF_LEN = IF x < 0 THEN x + BUF_LEN ELSE x
  BY <1>1, ModWindow
<1> QED
  BY <1>1, <1>2, <1>3, Lengths DEF Slots, x

LEMMA AdvanceValue ==
  ASSUME NEW x \in Slots, NEW m \in 0 .. BUF_LEN
  PROVE  /\ Advance(x, m) = IF x + m < BUF_LEN THEN x + m ELSE x + m - BUF_LEN
         /\ Advance(x, m) \in Slots
<1> DEFINE y == x + m
<1>1. /\ BUF_LEN \in Nat \ {0}
      /\ y \in Int /\ 0 <= y /\ -BUF_LEN <= y /\ y < 2 * BUF_LEN
  BY Lengths DEF Slots
<1>2. Advance(x, m) = y % BUF_LEN
  BY DEF Advance
<1> HIDE DEF y
<1>3. y % BUF_LEN = IF y < 0 THEN y + BUF_LEN ELSE IF y < BUF_LEN THEN y ELSE y - BUF_LEN
  BY <1>1, ModWindow
<1> QED
  BY <1>1, <1>2, <1>3, Lengths DEF Slots, y

LEMMA RingType ==
  ASSUME NEW buf \in [Slots -> Byte], NEW out \in Slots, NEW in \in Slots
  PROVE  /\ Ring(buf, out, in) \in Seq(Byte)
         /\ Len(Ring(buf, out, in)) = Used(in, out)
         /\ \A x \in 1 .. Used(in, out) :
              Ring(buf, out, in)[x] = buf[Advance(out, x - 1)]
<1> DEFINE k == Used(in, out)
           r == Ring(buf, out, in)
<1>1. k \in Slots /\ k \in Nat
  BY UsedValue DEF Slots
<1>2. r = [x \in 1 .. k |-> buf[Advance(out, x - 1)]]
  BY DEF Ring, Used
<1>3. ASSUME NEW x \in 1 .. k PROVE buf[Advance(out, x - 1)] \in Byte
  <2>1. x - 1 \in 0 .. BUF_LEN
    BY <1>1, Lengths DEF Slots
  <2> QED
    BY <2>1, AdvanceValue
<1> HIDE DEF r, k
<1>4. r \in Seq(Byte) /\ Len(r) = k
  BY <1>1, <1>2, <1>3
<1> QED
  BY <1>2, <1>4 DEF r, k

\* Bytes copied behind the last one come at the end.
LEMMA RingExtend ==
  ASSUME NEW buf \in [Slots -> Byte], NEW out \in Slots, NEW in \in Slots,
         NEW s \in Seq(Byte),
         in + Len(s) <= BUF_LEN, Used(in, out) + Len(s) < BUF_LEN
  PROVE  /\ Copied(buf, in, s) \in [Slots -> Byte]
         /\ Ring(Copied(buf, in, s), out, Advance(in, Len(s))) = Ring(buf, out, in) \o s
         /\ Used(Advance(in, Len(s)), out) = Used(in, out) + Len(s)
<1> DEFINE new == Copied(buf, in, s)
           end == Advance(in, Len(s))
           k == Used(in, out)
<1>1. Len(s) \in Nat /\ k \in Slots /\ k \in Nat /\ in \in Nat /\ k + Len(s) < BUF_LEN
  BY UsedValue, LenProperties DEF Slots
<1>2. new \in [Slots -> Byte]
  <2>1. ASSUME NEW x \in Slots, x \in in .. in + Len(s) - 1 PROVE s[x - in + 1] \in Byte
    <3>1. x - in + 1 \in 1 .. Len(s)
      BY <1>1, <2>1 DEF Slots
    <3> QED
      BY <3>1, ElementOfSeq
  <2> QED
    BY <2>1 DEF Copied
<1>3. end \in Slots /\ Used(end, out) = k + Len(s)
  <2>1. Len(s) \in 0 .. BUF_LEN
    BY <1>1, Lengths DEF Slots
  <2>2. end \in Slots /\ end = IF in + Len(s) < BUF_LEN THEN in + Len(s) ELSE in + Len(s) - BUF_LEN
    BY <2>1, AdvanceValue
  <2>3. /\ k = IF in >= out THEN in - out ELSE in - out + BUF_LEN
        /\ Used(end, out) = IF end >= out THEN end - out ELSE end - out + BUF_LEN
    BY <2>2, UsedValue
  <2> HIDE DEF end, k
  <2> QED
    BY <1>1, <2>2, <2>3, Lengths DEF Slots
<1>4. ASSUME NEW x \in 1 .. k + Len(s)
      PROVE  new[Advance(out, x - 1)] = IF x <= k THEN buf[Advance(out, x - 1)] ELSE s[x - k]
  <2> DEFINE a == Advance(out, x - 1)
  <2>1. x - 1 \in 0 .. BUF_LEN
    BY <1>1, Lengths
  <2>2. a \in Slots /\ a = IF out + (x - 1) < BUF_LEN THEN out + (x - 1) ELSE out + (x - 1) - BUF_LEN
    BY <2>1, AdvanceValue
  <2>3. k = IF in >= out THEN in - out ELSE in - out + BUF_LEN
    BY UsedValue
  <2>4. new[a] = IF a \in in .. in + Len(s) - 1 THEN s[a - in + 1] ELSE buf[a]
    BY <2>2 DEF Copied
  <2> HIDE DEF new, a, k
  <2>5. CASE x <= k
    <3>1. ~(a \in in .. in + Len(s) - 1)
      BY <1>1, <2>2, <2>3, <2>5, Lengths DEF Slots
    <3> QED
      BY <2>4, <2>5, <3>1 DEF a
  <2>6. CASE x > k
    <3>1. a \in in .. in + Len(s) - 1 /\ a - in + 1 = x - k
      BY <1>1, <2>2, <2>3, <2>6, Lengths DEF Slots
    <3> QED
      BY <1>1, <2>4, <2>6, <3>1 DEF a
  <2> QED
    BY <1>1, <2>5, <2>6 DEF a
<1>5. Ring(new, out, end) = Ring(buf, out, in) \o s
  <2> DEFINE r == Ring(buf, out, in)
             t == Ring(new, out, end)
  <2>1. /\ r \in Seq(Byte) /\ Len(r) = k
        /\ \A x \in 1 .. k : r[x] = buf[Advance(out, x - 1)]
    BY RingType
  <2>2. /\ t \in Seq(Byte) /\ Len(t) = k + Len(s)
        /\ \A x \in 1 .. k + Len(s) : t[x] = new[Advance(out, x - 1)]
    BY <1>2, <1>3, RingType
  <2> HIDE DEF r, t, k, new, end
  <2>3. /\ r \o s \in Seq(Byte) /\ Len(r \o s) = k + Len(s)
        /\ \A x \in 1 .. k + Len(s) : (r \o s)[x] = IF x <= k THEN r[x] ELSE s[x - k]
    BY <2>1, ConcatProperties
  <2>4. ASSUME NEW x \in 1 .. k + Len(s) PROVE t[x] = (r \o s)[x]
    <3>1. CASE x <= k
      <4>1. x \in 1 .. k
        BY <1>1, <3>1
      <4> QED
        BY <1>4, <2>1, <2>2, <2>3, <3>1, <4>1
    <3>2. CASE ~(x <= k)
      BY <1>4, <2>2, <2>3, <3>2
    <3> QED
      BY <3>1, <3>2
  <2>5. t = r \o s
    BY <2>2, <2>3, <2>4, SeqEqual
  <2> QED
    BY <2>5 DEF r, t
<1> QED
  BY <1>2, <1>3, <1>5

\* The oldest bytes, and what is left without them.
LEMMA RingSplit ==
  ASSUME NEW buf \in [Slots -> Byte], NEW out \in Slots, NEW in \in Slots,
         NEW m \in 0 .. Used(in, out)
  PROVE  /\ Advance(out, m) \in Slots
         /\ Used(in, Advance(out, m)) = Used(in, out) - m
         /\ Ring(buf, Advance(out, m), in) = After(Ring(buf, out, in), m)
         /\ First(Ring(buf, out, in), m) = [x \in 1 .. m |-> buf[Advance(out, x - 1)]]
         /\ First(Ring(buf, out, in), m) \in Seq(Byte)
         /\ Ring(buf, out, in) = First(Ring(buf, out, in), m) \o Ring(buf, Advance(out, m), in)
<1> DEFINE k == Used(in, out)
           start == Advance(out, m)
           r == Ring(buf, out, in)
           t == Ring(buf, start, in)
<1>1. k \in Slots /\ k \in Nat /\ m \in 0 .. BUF_LEN /\ m \in Nat /\ m <= k
  BY UsedValue, Lengths DEF Slots
<1>2. start \in Slots /\ start = IF out + m < BUF_LEN THEN out + m ELSE out + m - BUF_LEN
  BY <1>1, AdvanceValue
<1>3. Used(in, start) = k - m
  <2>1. /\ k = IF in >= out THEN in - out ELSE in - out + BUF_LEN
        /\ Used(in, start) = IF in >= start THEN in - start ELSE in - start + BUF_LEN
    BY <1>2, UsedValue
  <2> HIDE DEF start, k
  <2> QED
    BY <1>1, <1>2, <2>1, Lengths DEF Slots
<1>4. /\ r \in Seq(Byte) /\ Len(r) = k
      /\ \A x \in 1 .. k : r[x] = buf[Advance(out, x - 1)]
  BY RingType
<1>5. /\ t \in Seq(Byte) /\ Len(t) = k - m
      /\ \A x \in 1 .. k - m : t[x] = buf[Advance(start, x - 1)]
  BY <1>2, <1>3, RingType
<1>6. ASSUME NEW x \in 1 .. k - m PROVE Advance(start, x - 1) = Advance(out, m + x - 1)
  <2>1. x - 1 \in 0 .. BUF_LEN /\ m + x - 1 \in 0 .. BUF_LEN
    BY <1>1, Lengths DEF Slots
  <2>2. /\ Advance(start, x - 1) = IF start + (x - 1) < BUF_LEN THEN start + (x - 1) ELSE start + (x - 1) - BUF_LEN
        /\ Advance(out, m + x - 1) = IF out + (m + x - 1) < BUF_LEN THEN out + (m + x - 1) ELSE out + (m + x - 1) - BUF_LEN
    BY <1>2, <2>1, AdvanceValue
  <2> HIDE DEF start, k
  <2> QED
    BY <1>1, <1>2, <2>1, <2>2, Lengths DEF Slots
<1> HIDE DEF r, t, k, start
<1>7. t = After(r, m)
  <2>1. \A x \in m + 1 .. Len(r) : r[x] \in Byte
    BY <1>1, <1>4, ElementOfSeq
  <2>2. /\ SubSeq(r, m + 1, Len(r)) \in Seq(Byte)
        /\ Len(SubSeq(r, m + 1, Len(r))) = k - m
        /\ \A x \in 1 .. k - m : SubSeq(r, m + 1, Len(r))[x] = r[m + x]
    <3>1. m + 1 \in Int /\ Len(r) \in Int
      BY <1>1, <1>4
    <3>2. /\ SubSeq(r, m + 1, Len(r)) \in Seq(Byte)
          /\ Len(SubSeq(r, m + 1, Len(r))) = IF m + 1 <= Len(r) THEN Len(r) - (m + 1) + 1 ELSE 0
          /\ \A x \in 1 .. Len(r) - (m + 1) + 1 :
               SubSeq(r, m + 1, Len(r))[x] = r[(m + 1) + x - 1]
      BY <2>1, <3>1, SubSeqProperties
    <3> QED
      BY <1>1, <1>4, <3>2
  <2>3. ASSUME NEW x \in 1 .. k - m PROVE t[x] = r[m + x]
    <3>1. m + x \in 1 .. k
      BY <1>1
    <3>2. r[m + x] = buf[Advance(out, m + x - 1)]
      BY <1>4, <3>1
    <3> QED
      BY <1>5, <1>6, <3>2
  <2> QED
    BY <1>5, <2>2, <2>3, SeqEqual DEF After
<1>8. /\ First(r, m) \in Seq(Byte) /\ Len(First(r, m)) = m
      /\ \A x \in 1 .. m : First(r, m)[x] = r[x]
  <2>1. \A x \in 1 .. m : r[x] \in Byte
    BY <1>1, <1>4, ElementOfSeq
  <2>2. 1 \in Int /\ m \in Int
    BY <1>1
  <2> QED
    BY <1>1, <2>1, <2>2, SubSeqProperties DEF First
<1>9. First(r, m) = [x \in 1 .. m |-> buf[Advance(out, x - 1)]]
  <2>1. First(r, m) = [x \in 1 .. m |-> First(r, m)[x]]
    BY <1>8, LenProperties
  <2> QED
    BY <1>1, <1>4, <1>8, <2>1
<1>10. r = First(r, m) \o t
  <2>1. /\ First(r, m) \o t \in Seq(Byte) /\ Len(First(r, m) \o t) = k
        /\ \A x \in 1 .. k : (First(r, m) \o t)[x] = IF x <= m THEN First(r, m)[x] ELSE t[x - m]
    <3>1. Len(First(r, m)) + Len(t) = k
      BY <1>1, <1>5, <1>8
    <3> QED
      BY <1>5, <1>8, <3>1, ConcatProperties
  <2>2. ASSUME NEW x \in 1 .. k PROVE (First(r, m) \o t)[x] = r[x]
    <3>1. CASE x <= m
      <4>1. x \in 1 .. m
        BY <1>1, <3>1
      <4> QED
        BY <1>8, <2>1, <3>1, <4>1
    <3>2. CASE x > m
      <4> DEFINE y == x - m
      <4>1. y \in 1 .. k - m /\ m + y - 1 = x - 1 /\ ~(x <= m)
        BY <1>1, <3>2
      <4>2. (First(r, m) \o t)[x] = t[y]
        BY <2>1, <4>1
      <4> HIDE DEF y
      <4>3. t[y] = buf[Advance(out, x - 1)]
        BY <1>5, <1>6, <4>1
      <4> QED
        BY <1>4, <4>2, <4>3
    <3>3. x <= m \/ x > m
      BY <1>1
    <3> QED
      BY <3>1, <3>2, <3>3
  <2> QED
    BY <1>4, <2>1, <2>2, SeqEqual
<1> QED
  BY <1>2, <1>3, <1>7, <1>8, <1>9, <1>10 DEF r, t, k, start

-----------------------------------------------------------------------------
(* The invariant. *)

Labels == {"idle", "look", "copy", "publish", "mask", "enable", "wait", "check"}
Results == {"none", "count", "EWOULDBLOCK", "EIO", "closed"}
CallState ==
  [at : Labels, call : {"none", "write", "read", "close"}, nonblock : BOOLEAN,
   count : Seq(Byte), space : Nat, in : Slots, out : Slots, n : Nat, done : Nat,
   reg : SUBSET {"RE", "WE"}, result : Results]
HandlerState ==
  [at : {"idle", "control", "rx", "tx"}, wi : BOOLEAN, wspace : Nat, avail : BOOLEAN]

RingsOK ==
  /\ rx_in \in Slots /\ rx_out \in Slots /\ tx_in \in Slots /\ tx_out \in Slots
  /\ rx_buf \in [Slots -> Byte] /\ tx_buf \in [Slots -> Byte]

FIFOsOK ==
  /\ rxFIFO \in Seq(Byte) /\ Len(rxFIFO) <= FIFO_LEN
  /\ txFIFO \in Seq(Byte) /\ Len(txFIFO) <= FIFO_LEN
  /\ typing = <<>> \/ \E b \in Byte : typing = <<b>>

\* The space that the handler has seen is still there: only it takes some.
HandlerOK ==
  /\ isr \in HandlerState
  /\ isr.at \in {"rx", "tx"} => isr.wspace + Len(txFIFO) <= FIFO_LEN

CallOK ==
  /\ calls \in Programs
  /\ c \in CallState
  /\ c.at = "idle" => c.call = "none"
  /\ c.call # "write" => c.count = <<>>

\* What write has found room for fits: the handler only makes room.
WriteOK ==
  c.call = "write" /\ c.at \in {"copy", "publish"} =>
    /\ c.in = tx_in /\ c.n > 0 /\ c.in + c.n <= BUF_LEN
    /\ Used(tx_in, tx_out) + c.n < BUF_LEN
    /\ c.at = "copy" => c.n <= Len(c.count)

\* What read has found is there: the handler only adds to it.
ReadOK ==
  c.call = "read" /\ c.at \in {"copy", "publish"} =>
    /\ c.n > 0 /\ rx_out + c.n <= BUF_LEN
    /\ c.n <= Used(rx_in, rx_out)
    /\ c.at = "copy" => c.n <= c.space

\* In the critical section nobody changes the enable bits.
SwitchesOK ==
  /\ irq_enable \subseteq {"RE", "WE"}
  /\ c.at = "enable" => masked /\ isr.at = "idle" /\ c.reg = irq_enable

Inv == RingsOK /\ FIFOsOK /\ HandlerOK /\ CallOK /\ WriteOK /\ ReadOK /\ SwitchesOK /\ SenderAwake

LEMMA AtMostValue ==
  ASSUME NEW a \in Nat, NEW b \in Nat
  PROVE  AtMost(a, b) \in Nat /\ AtMost(a, b) <= a /\ AtMost(a, b) <= b
BY DEF AtMost

\* The room that write sees ends with the buffer, and before the byte that
\* the handler takes next.
LEMMA RoomFits ==
  ASSUME NEW in \in Slots, NEW out \in Slots
  PROVE  /\ WriteRoom(in, out) \in Nat
         /\ in + WriteRoom(in, out) <= BUF_LEN
         /\ Used(in, out) + WriteRoom(in, out) < BUF_LEN
BY UsedValue, Lengths DEF WriteRoom, Slots

LEMMA InitInv == Init => Inv
<1> SUFFICES ASSUME Init PROVE Inv
  OBVIOUS
<1>1. 0 \in Slots
  BY Lengths DEF Slots
<1>2. RingsOK
  BY <1>1, ByteAssumption DEF Init, RingsOK
<1>3. FIFOsOK
  BY EmptySeq, Lengths DEF Init, FIFOsOK
<1>4. HandlerOK
  BY DEF Init, HandlerOK, HandlerState, Returned
<1>5. CallOK
  BY <1>1 DEF Init, CallOK, CallState, Idle, Labels, Results
<1> QED
  BY <1>2, <1>3, <1>4, <1>5 DEF Init, Inv, WriteOK, ReadOK, SwitchesOK, SenderAwake, Idle

\* A step that changes only the call.
LEMMA CallOnly ==
  ASSUME Inv, calls' = calls, UNCHANGED <<ring, host, fifos, switches, masked, isr>>
  PROVE  RingsOK' /\ FIFOsOK' /\ HandlerOK' /\ calls' \in Programs
BY DEF Inv, RingsOK, FIFOsOK, HandlerOK, CallOK, ring, host, fifos, switches

\* The steps of write.
LEMMA WriteLookInv == ASSUME Inv, WriteLook, calls' = calls PROVE Inv'
<1> DEFINE n == IF c.count = <<>> THEN 0 ELSE AtMost(WriteRoom(tx_in, tx_out), Len(c.count))
<1>1. /\ c \in CallState /\ tx_in \in Slots /\ tx_out \in Slots
      /\ c.at = "look" /\ c.call = "write"
  BY DEF Inv, RingsOK, CallOK, WriteLook, At
<1>2. c' = [c EXCEPT !.at = IF n = 0 THEN "mask" ELSE "copy", !.in = tx_in, !.n = n,
                     !.out = IF c.count = <<>> THEN @ ELSE tx_out]
  BY DEF WriteLook
<1>3. /\ n \in Nat /\ tx_in + n <= BUF_LEN
      /\ Used(tx_in, tx_out) + n < BUF_LEN /\ n <= Len(c.count)
  <2>1. Len(c.count) \in Nat /\ tx_in \in Nat
    BY <1>1, LenProperties DEF CallState, Slots
  <2>2. Used(tx_in, tx_out) \in Slots
    BY <1>1, UsedValue
  <2> DEFINE room == WriteRoom(tx_in, tx_out)
  <2>3. /\ room \in Nat /\ tx_in + room <= BUF_LEN
        /\ Used(tx_in, tx_out) + room < BUF_LEN
    BY <1>1, RoomFits
  <2> HIDE DEF room
  <2>4. /\ AtMost(room, Len(c.count)) \in Nat
        /\ AtMost(room, Len(c.count)) <= room /\ AtMost(room, Len(c.count)) <= Len(c.count)
    BY <2>1, <2>3, AtMostValue
  <2>5. n = IF c.count = <<>> THEN 0 ELSE AtMost(room, Len(c.count))
    BY DEF room
  <2> HIDE DEF n
  <2>6. n \in Nat /\ n <= room /\ n <= Len(c.count)
    BY <2>1, <2>3, <2>4, <2>5
  <2> QED
    BY <2>1, <2>2, <2>3, <2>6, Lengths DEF Slots
<1> HIDE DEF n
<1>4. UNCHANGED <<ring, host, fifos, switches, clock, buffer, masked, isr>>
  BY DEF WriteLook
<1>5. /\ c' \in CallState
      /\ c'.call = "write" /\ c'.at = IF n = 0 THEN "mask" ELSE "copy"
      /\ c'.in = tx_in /\ c'.n = n /\ c'.count = c.count
  BY <1>1, <1>2, <1>3 DEF CallState, Labels
<1> QED
  BY <1>3, <1>4, <1>5, CallOnly
  DEF Inv, CallOK, WriteOK, ReadOK, SwitchesOK, SenderAwake, ring, switches

\* The two parts of a sequence.
LEMMA PartsOf ==
  ASSUME NEW s \in Seq(Byte), NEW m \in 0 .. Len(s)
  PROVE  /\ First(s, m) \in Seq(Byte) /\ Len(First(s, m)) = m
         /\ After(s, m) \in Seq(Byte) /\ Len(After(s, m)) = Len(s) - m
<1>1. Len(s) \in Nat /\ m \in Int /\ m + 1 \in Int /\ 1 \in Int /\ Len(s) \in Int
  BY LenProperties
<1>2. \A x \in 1 .. m : s[x] \in Byte
  BY <1>1, ElementOfSeq
<1>3. \A x \in m + 1 .. Len(s) : s[x] \in Byte
  BY <1>1, ElementOfSeq
<1>4. First(s, m) \in Seq(Byte) /\ Len(First(s, m)) = m
  BY <1>1, <1>2, SubSeqProperties DEF First
<1>5. /\ After(s, m) \in Seq(Byte)
      /\ Len(After(s, m)) = IF m + 1 <= Len(s) THEN Len(s) - (m + 1) + 1 ELSE 0
  BY <1>1, <1>3, SubSeqProperties DEF After
<1> QED
  BY <1>1, <1>4, <1>5

LEMMA WriteCopyInv == ASSUME Inv, WriteCopy, calls' = calls PROVE Inv'
<1> DEFINE s == First(c.count, c.n)
<1>1. /\ c \in CallState /\ c.at = "copy" /\ c.call = "write"
      /\ tx_in \in Slots /\ tx_out \in Slots /\ tx_buf \in [Slots -> Byte]
      /\ c.in = tx_in /\ c.n > 0 /\ c.in + c.n <= BUF_LEN
      /\ Used(tx_in, tx_out) + c.n < BUF_LEN /\ c.n <= Len(c.count)
  BY DEF Inv, RingsOK, CallOK, WriteOK, WriteCopy, At
<1>2. /\ c.count \in Seq(Byte) /\ c.n \in 0 .. Len(c.count) /\ c.done \in Nat
  BY <1>1, LenProperties DEF CallState
<1>3. /\ s \in Seq(Byte) /\ Len(s) = c.n
      /\ After(c.count, c.n) \in Seq(Byte)
  BY <1>2, PartsOf
<1> HIDE DEF s
<1>4. tx_buf' = Copied(tx_buf, c.in, s) /\ tx_buf' \in [Slots -> Byte]
  BY <1>1, <1>3, RingExtend DEF WriteCopy, s
<1>5. /\ c' \in CallState
      /\ c'.at = "publish" /\ c'.call = "write" /\ c'.in = tx_in /\ c'.n = c.n
  <2> DEFINE rest == After(c.count, c.n)
             d == c.done + c.n
  <2>1. c' = [c EXCEPT !.at = "publish", !.count = rest, !.done = d]
    BY DEF WriteCopy
  <2>2. rest \in Seq(Byte) /\ d \in Nat
    BY <1>1, <1>2, <1>3 DEF CallState
  <2> HIDE DEF rest, d
  <2> QED
    BY <1>1, <2>1, <2>2 DEF CallState, Labels
<1>6. UNCHANGED <<rx_in, rx_out, tx_in, tx_out, rx_buf, host, fifos, switches, masked, isr>>
  BY DEF WriteCopy
<1> QED
  BY <1>1, <1>4, <1>5, <1>6
  DEF Inv, RingsOK, FIFOsOK, HandlerOK, CallOK, WriteOK, ReadOK, SwitchesOK, SenderAwake,
      host, fifos, switches

LEMMA WritePublishInv == ASSUME Inv, WritePublish, calls' = calls PROVE Inv'
<1>1. /\ c \in CallState /\ c.at = "publish" /\ c.call = "write"
      /\ c.in \in Slots /\ c.in + c.n <= BUF_LEN /\ c.n \in Nat
  BY DEF Inv, CallOK, WriteOK, WritePublish, At, CallState
<1>2. tx_in' = Advance(c.in, c.n) /\ tx_in' \in Slots
  <2>1. c.n \in 0 .. BUF_LEN
    BY <1>1, Lengths DEF Slots
  <2> QED
    BY <1>1, <2>1, AdvanceValue DEF WritePublish
<1>3. /\ c' \in CallState
      /\ c'.at = "look" /\ c'.call = "write"
  BY <1>1 DEF WritePublish, CallState, Labels
<1>4. UNCHANGED <<rx_in, rx_out, tx_out, rx_buf, tx_buf, host, fifos, switches, masked, isr>>
  BY DEF WritePublish
<1> QED
  BY <1>2, <1>3, <1>4
  DEF Inv, RingsOK, FIFOsOK, HandlerOK, CallOK, WriteOK, ReadOK, SwitchesOK, SenderAwake,
      host, fifos, switches

\* A step of the call that touches nothing shared and comes to none of the
\* critical places.
LEMMA QuietStep ==
  ASSUME Inv, calls' = calls, UNCHANGED <<ring, host, fifos, switches, masked, isr>>,
         c' \in CallState, c'.at \notin {"copy", "publish", "enable"},
         c'.at = "idle" => c'.call = "none",
         c'.call # "write" => c'.count = <<>>,
         c.call = "write" /\ c.at \in {"look", "copy", "publish", "mask", "enable"} =>
           c'.call = "write" /\ c'.at \in {"look", "mask"}
  PROVE  Inv'
<1>1. UNCHANGED <<tx_in, tx_out, irq_enable>>
  BY DEF ring, switches
<1>2. RingsOK' /\ FIFOsOK' /\ HandlerOK' /\ calls' \in Programs
  BY CallOnly
<1>3. CallOK' /\ WriteOK' /\ ReadOK'
  BY <1>2 DEF CallOK, WriteOK, ReadOK
<1>4. SwitchesOK'
  BY <1>1 DEF Inv, SwitchesOK
<1>5. SenderAwake'
  BY <1>1 DEF Inv, SenderAwake
<1> QED
  BY <1>2, <1>3, <1>4, <1>5 DEF Inv

\* What a call leaves when it comes back.
LEMMA BackIdle ==
  ASSUME NEW result \in Results
  PROVE  /\ Idle(result) \in CallState
         /\ Idle(result).at = "idle" /\ Idle(result).call = "none"
         /\ Idle(result).count = <<>>
BY Lengths, EmptySeq DEF Idle, CallState, Labels, Slots

LEMMA ReturnsIdle ==
  ASSUME NEW r, Return(r)
  PROVE  /\ c' \in CallState
         /\ c'.at = "idle" /\ c'.call = "none" /\ c'.count = <<>>
<1>1. \E result \in Results : c' = Idle(result)
  BY DEF Return, Results
<1> QED
  BY <1>1, BackIdle

LEMMA GotoType ==
  ASSUME c \in CallState, NEW label \in Labels, Goto(label)
  PROVE  /\ c' \in CallState
         /\ c'.at = label /\ c'.call = c.call /\ c'.count = c.count
BY DEF Goto, CallState

LEMMA WriteWaitInv == ASSUME Inv, WriteWait \/ WriteCheck, calls' = calls PROVE Inv'
<1>1. /\ c \in CallState /\ c.call = "write" /\ c.at \in {"wait", "check"}
      /\ UNCHANGED <<ring, host, fifos, switches, masked, isr>>
  BY DEF Inv, CallOK, WriteWait, WriteCheck, At
<1>2. CASE Goto("check") \/ Goto("look")
  <2>1. \E label \in {"check", "look"} : Goto(label) /\ label \in Labels
    BY <1>2 DEF Labels
  <2>2. c' \in CallState /\ c'.at \in {"check", "look"} /\ c'.call = "write"
    BY <1>1, <2>1, GotoType
  <2> QED
    BY <1>1, <2>2, QuietStep
<1>3. CASE Return(c)
  BY <1>1, <1>3, ReturnsIdle, QuietStep
<1> QED
  BY <1>2, <1>3 DEF WriteWait, WriteCheck

\* The critical section of both calls.
LEMMA EnableReadInv ==
  ASSUME Inv, NEW call \in {"write", "read"}, EnableRead(call), calls' = calls
  PROVE  Inv'
<1>1. /\ c \in CallState /\ c.at = "mask" /\ c.call = call /\ isr.at = "idle"
      /\ irq_enable \in SUBSET {"RE", "WE"}
  BY DEF Inv, CallOK, SwitchesOK, EnableRead, At
<1>2. /\ c' \in CallState
      /\ c'.at = "enable" /\ c'.call = c.call /\ c'.count = c.count /\ c'.reg = irq_enable
  BY <1>1 DEF EnableRead, CallState, Labels
<1>3. masked' /\ UNCHANGED <<ring, host, fifos, switches, isr>>
  BY DEF EnableRead
<1> QED
  BY <1>1, <1>2, <1>3
  DEF Inv, RingsOK, FIFOsOK, HandlerOK, CallOK, WriteOK, ReadOK, SwitchesOK, SenderAwake,
      ring, host, fifos, switches

LEMMA EnableWriteInv ==
  ASSUME Inv, NEW p \in {<<"write", "WE">>, <<"read", "RE">>}, EnableWrite(p[1], p[2]),
         calls' = calls
  PROVE  Inv'
<1>1. /\ c \in CallState /\ c.at = "enable" /\ c.call = p[1]
      /\ irq_enable \subseteq {"RE", "WE"} /\ c.reg = irq_enable
      /\ p[1] \in {"write", "read"} /\ p[2] \in {"WE", "RE"}
      /\ p[1] = "write" => p[2] = "WE"
      /\ c.call # "write" => c.count = <<>>
  BY DEF Inv, CallOK, SwitchesOK, EnableWrite, At
<1>2. /\ irq_enable' = irq_enable \cup {p[2]}
      /\ UNCHANGED <<ring, host, fifos, isr>>
  BY <1>1 DEF EnableWrite
<1>3. /\ c' \in CallState /\ c'.at \in {"idle", "wait"}
      /\ c'.at = "idle" => c'.call = "none"
      /\ c'.call # "write" => c'.count = <<>>
  <2>1. CASE Goto("wait")
    <3>1. "wait" \in Labels
      BY DEF Labels
    <3> QED
      BY <1>1, <2>1, <3>1, GotoType
  <2>2. CASE Return(c)
    BY <2>2, ReturnsIdle
  <2> QED
    BY <2>1, <2>2 DEF EnableWrite
<1> QED
  BY <1>1, <1>2, <1>3
  DEF Inv, RingsOK, FIFOsOK, HandlerOK, CallOK, WriteOK, ReadOK, SwitchesOK, SenderAwake,
      ring, host, fifos

\* The steps of read.
Stored(in, out) == IF in >= out THEN in - out ELSE BUF_LEN - out

LEMMA StoredFits ==
  ASSUME NEW in \in Slots, NEW out \in Slots
  PROVE  /\ Stored(in, out) \in Nat
         /\ out + Stored(in, out) <= BUF_LEN
         /\ Stored(in, out) <= Used(in, out)
BY UsedValue, Lengths DEF Stored, Slots

LEMMA ReadLookInv == ASSUME Inv, ReadLook, calls' = calls PROVE Inv'
<1> DEFINE stored == Stored(rx_in, rx_out)
           n == AtMost(stored, c.space)
           r == [c EXCEPT !.in = rx_in, !.n = n]
<1>1. /\ c \in CallState /\ c.at = "look" /\ c.call = "read" /\ c.count = <<>>
      /\ rx_in \in Slots /\ rx_out \in Slots /\ c.space \in Nat
      /\ UNCHANGED <<ring, host, fifos, switches, masked, isr>>
  BY DEF Inv, RingsOK, CallOK, ReadLook, At, CallState
<1>2. \/ n > 0 /\ c' = [r EXCEPT !.at = "copy"]
      \/ c' = [r EXCEPT !.at = "mask"]
      \/ c' = [r EXCEPT !.at = "wait"]
      \/ Return(r)
  BY DEF ReadLook, Stored
<1>3. stored \in Nat /\ rx_out + stored <= BUF_LEN /\ stored <= Used(rx_in, rx_out)
  BY <1>1, StoredFits
<1>4. n \in Nat /\ n <= stored /\ n <= c.space
  BY <1>1, <1>3, AtMostValue
<1>5. rx_out + n <= BUF_LEN /\ n <= Used(rx_in, rx_out)
  <2>1. Used(rx_in, rx_out) \in Nat /\ rx_out \in Nat
    BY <1>1, UsedValue DEF Slots
  <2> HIDE DEF n, stored
  <2> QED
    BY <1>3, <1>4, <2>1, Lengths
<1> HIDE DEF n, stored
<1>6. CASE n > 0 /\ c' = [r EXCEPT !.at = "copy"]
  <2>1. /\ c' \in CallState /\ c'.at = "copy" /\ c'.call = "read" /\ c'.n = n
        /\ c'.count = <<>> /\ c'.space = c.space
    BY <1>1, <1>4, <1>6 DEF CallState, Labels
  <2> QED
    BY <1>1, <1>4, <1>5, <1>6, <2>1, CallOnly
    DEF Inv, CallOK, WriteOK, ReadOK, SwitchesOK, SenderAwake, ring, switches
<1>7. CASE c' = [r EXCEPT !.at = "mask"] \/ c' = [r EXCEPT !.at = "wait"]
  <2>1. c' \in CallState /\ c'.at \in {"mask", "wait"} /\ c'.count = <<>>
    BY <1>1, <1>4, <1>7 DEF CallState, Labels
  <2> QED
    BY <1>1, <2>1, QuietStep
<1>8. CASE Return(r)
  <2> HIDE DEF r
  <2> QED
    BY <1>1, <1>8, ReturnsIdle, QuietStep
<1> QED
  BY <1>2, <1>6, <1>7, <1>8

LEMMA ReadCopyInv == ASSUME Inv, ReadCopy, calls' = calls PROVE Inv'
<1>1. /\ c \in CallState /\ c.at = "copy" /\ c.call = "read"
      /\ c.space \in Nat /\ c.n \in Nat /\ c.done \in Nat /\ c.n <= c.space
  BY DEF Inv, CallOK, ReadOK, ReadCopy, At, CallState
<1>2. /\ c' \in CallState /\ c'.at = "publish" /\ c'.call = "read"
      /\ c'.count = c.count /\ c'.n = c.n
  <2> DEFINE left == c.space - c.n
             d == c.done + c.n
  <2>1. left \in Nat /\ d \in Nat
    BY <1>1
  <2>2. c' = [c EXCEPT !.at = "publish", !.space = left, !.done = d]
    BY DEF ReadCopy
  <2> HIDE DEF left, d
  <2> QED
    BY <1>1, <2>1, <2>2 DEF CallState, Labels
<1>3. UNCHANGED <<ring, host, fifos, switches, masked, isr>>
  BY DEF ReadCopy
<1> QED
  BY <1>1, <1>2, <1>3, CallOnly
  DEF Inv, CallOK, WriteOK, ReadOK, SwitchesOK, SenderAwake, ring, switches

LEMMA ReadPublishInv == ASSUME Inv, ReadPublish, calls' = calls PROVE Inv'
<1>1. /\ c \in CallState /\ c.at = "publish" /\ c.call = "read"
      /\ rx_out \in Slots /\ c.n \in Nat /\ rx_out + c.n <= BUF_LEN
  BY DEF Inv, RingsOK, CallOK, ReadOK, ReadPublish, At, CallState
<1>2. rx_out' = Advance(rx_out, c.n) /\ rx_out' \in Slots
  <2>1. c.n \in 0 .. BUF_LEN
    BY <1>1, Lengths DEF Slots
  <2> QED
    BY <1>1, <2>1, AdvanceValue DEF ReadPublish
<1>3. /\ c' \in CallState /\ c'.at \in {"look", "mask"} /\ c'.call = "read"
      /\ c'.count = c.count
  <2> DEFINE label == IF c.space > 0 THEN "look" ELSE "mask"
  <2>1. c' = [c EXCEPT !.at = label, !.in = 0, !.n = 0] /\ label \in {"look", "mask"}
    BY DEF ReadPublish
  <2>2. 0 \in Slots
    BY Lengths DEF Slots
  <2> HIDE DEF label
  <2> QED
    BY <1>1, <2>1, <2>2 DEF CallState, Labels
<1>4. UNCHANGED <<rx_in, tx_in, tx_out, rx_buf, tx_buf, host, fifos, switches, masked, isr>>
  BY DEF ReadPublish
<1> QED
  BY <1>1, <1>2, <1>3, <1>4
  DEF Inv, RingsOK, FIFOsOK, HandlerOK, CallOK, WriteOK, ReadOK, SwitchesOK, SenderAwake,
      host, fifos, switches

LEMMA ReadWaitInv == ASSUME Inv, ReadWait \/ ReadCheck, calls' = calls PROVE Inv'
<1>1. /\ c \in CallState /\ c.call = "read" /\ c.at \in {"wait", "check"} /\ c.count = <<>>
      /\ UNCHANGED <<ring, host, fifos, switches, masked, isr>>
  BY DEF Inv, CallOK, ReadWait, ReadCheck, At
<1>2. CASE Goto("check") \/ Goto("look")
  <2>1. \E label \in {"check", "look"} : Goto(label) /\ label \in Labels
    BY <1>2 DEF Labels
  <2>2. c' \in CallState /\ c'.at \in {"check", "look"} /\ c'.count = <<>>
    BY <1>1, <2>1, GotoType
  <2> QED
    BY <1>1, <2>2, QuietStep
<1>3. CASE Return(c)
  BY <1>1, <1>3, ReturnsIdle, QuietStep
<1> QED
  BY <1>2, <1>3 DEF ReadWait, ReadCheck

LEMMA DrainInv == ASSUME Inv, Drain, calls' = calls PROVE Inv'
<1>1. /\ c.call = "close"
      /\ UNCHANGED <<ring, host, fifos, switches, masked, isr>>
  BY DEF Drain, At
<1>2. \E result \in Results : c' = Idle(result)
  BY DEF Drain, Results
<1>3. c' \in CallState /\ c'.at = "idle" /\ c'.call = "none" /\ c'.count = <<>>
  BY <1>2, BackIdle
<1> QED
  BY <1>1, <1>3, QuietStep

LEMMA CallInv == ASSUME Inv, NEW r \in calls, Call(r), calls' = calls PROVE Inv'
<1>1. /\ c.call = "none"
      /\ UNCHANGED <<ring, host, fifos, switches, masked, isr>>
  BY DEF Inv, CallOK, Call
<1>2. /\ r.call \in {"write", "read", "close"} /\ r.nonblock \in BOOLEAN
      /\ r.count \in Seq(Byte) /\ r.space \in Nat
      /\ r.call # "write" => r.count = <<>>
  BY CallAssumption DEF Inv, CallOK, Call
<1>3. /\ c' \in CallState /\ c'.at = "look" /\ c'.call = r.call /\ c'.count = r.count
  <2>1. Idle("none") \in CallState
    BY BackIdle DEF Results
  <2>2. c' = [Idle("none") EXCEPT !.at = "look", !.call = r.call, !.nonblock = r.nonblock,
                                  !.count = r.count, !.space = r.space]
    BY DEF Call
  <2> QED
    BY <1>2, <2>1, <2>2 DEF CallState, Labels
<1> QED
  BY <1>1, <1>2, <1>3, QuietStep

-----------------------------------------------------------------------------
(* The handlers, the host and the alarm. *)

\* The program stands still, and the rings with it.
LEMMA Outside ==
  ASSUME Inv, calls' = calls, UNCHANGED <<ring, irq_enable, c, masked, isr>>,
         FIFOsOK', Len(txFIFO') <= Len(txFIFO)
  PROVE  Inv'
<1>1. RingsOK' /\ CallOK' /\ WriteOK' /\ ReadOK' /\ SwitchesOK' /\ SenderAwake'
  BY DEF Inv, RingsOK, CallOK, WriteOK, ReadOK, SwitchesOK, SenderAwake, ring
<1>2. HandlerOK'
  <2>1. HandlerOK /\ isr' = isr /\ Len(txFIFO) \in Nat /\ Len(txFIFO') \in Nat
    BY LenProperties DEF Inv, FIFOsOK
  <2>2. isr.wspace \in Nat /\ FIFO_LEN \in Nat
    BY <2>1, Lengths DEF HandlerOK, HandlerState
  <2> QED
    BY <2>1, <2>2 DEF HandlerOK
<1> QED
  BY <1>1, <1>2 DEF Inv

LEMMA ClockInv ==
  ASSUME Inv, calls' = calls,
         Timeout \/ (\E r \in calls : SetTimeout(r)) \/ UNCHANGED vars
  PROVE  Inv'
<1>1. UNCHANGED <<ring, host, rxFIFO, txFIFO, irq_enable, c, masked, isr>>
  BY DEF Timeout, SetTimeout, vars, fifos, switches
<1>2. FIFOsOK' /\ Len(txFIFO') <= Len(txFIFO)
  <2>1. Len(txFIFO) \in Nat
    BY LenProperties DEF Inv, FIFOsOK
  <2> QED
    BY <1>1, <2>1 DEF Inv, FIFOsOK, host
<1> QED
  BY <1>1, <1>2, Outside

LEMMA HostLooksInv == ASSUME Inv, HostLooks, calls' = calls PROVE Inv'
<1>1. UNCHANGED <<ring, typing, rxFIFO, irq_enable, c, masked, isr>>
  BY DEF HostLooks, switches
<1>2. txFIFO' \in Seq(Byte) /\ Len(txFIFO') <= Len(txFIFO) /\ Len(txFIFO) <= FIFO_LEN
  <2>1. txFIFO \in Seq(Byte) /\ Len(txFIFO) \in Nat /\ Len(txFIFO) <= FIFO_LEN
    BY LenProperties DEF Inv, FIFOsOK
  <2>2. CASE txFIFO = <<>>
    BY <2>1, <2>2 DEF HostLooks
  <2>3. CASE txFIFO # <<>>
    <3>1. txFIFO' = Tail(txFIFO)
      BY <2>3 DEF HostLooks
    <3> QED
      BY <2>1, <2>3, <3>1, HeadTailProperties
  <2> QED
    BY <2>2, <2>3
<1>3. FIFOsOK'
  <2>1. Len(txFIFO') \in Nat /\ Len(txFIFO) \in Nat
    BY <1>2, LenProperties DEF Inv, FIFOsOK
  <2> QED
    BY <1>1, <1>2, <2>1, Lengths DEF Inv, FIFOsOK
<1> QED
  BY <1>1, <1>2, <1>3, Outside

LEMMA HostTypesInv == ASSUME Inv, HostTypes, calls' = calls PROVE Inv'
<1>1. UNCHANGED <<ring, txFIFO, irq_enable, c, masked, isr>>
  BY DEF HostTypes, switches
<1>2. /\ rxFIFO \in Seq(Byte) /\ Len(rxFIFO) \in Nat /\ Len(rxFIFO) <= FIFO_LEN
      /\ txFIFO \in Seq(Byte) /\ Len(txFIFO) \in Nat /\ Len(txFIFO) <= FIFO_LEN
  BY LenProperties DEF Inv, FIFOsOK
<1>3. CASE typing = <<>>
  <2>1. (\E b \in Byte : typing' = <<b>>) /\ rxFIFO' = rxFIFO
    BY <1>3 DEF HostTypes
  <2> QED
    BY <1>1, <1>2, <2>1, Outside DEF FIFOsOK
<1>4. CASE typing # <<>>
  <2>1. PICK b \in Byte : typing = <<b>>
    BY <1>4 DEF Inv, FIFOsOK
  <2>2. typing' = <<>> /\ rxFIFO' = Append(rxFIFO, b) /\ Len(rxFIFO) < FIFO_LEN
    <3>1. rxFIFO' = rxFIFO \o <<b>> /\ typing' = <<>> /\ Len(rxFIFO) < FIFO_LEN
      BY <1>4, <2>1 DEF HostTypes
    <3> QED
      BY <1>2, <3>1, AppendIsConcat
  <2>3. rxFIFO' \in Seq(Byte) /\ Len(rxFIFO') = Len(rxFIFO) + 1
    BY <1>2, <2>2, AppendProperties
  <2> QED
    BY <1>1, <1>2, <2>2, <2>3, Outside, Lengths DEF FIFOsOK
<1> QED
  BY <1>3, <1>4

LEMMA InterruptInv == ASSUME Inv, Interrupt \/ ReadControl, calls' = calls PROVE Inv'
<1>1. UNCHANGED <<ring, host, fifos, switches, c, masked>>
  BY DEF Interrupt, ReadControl
<1>2. c.at # "enable"
  BY DEF Inv, SwitchesOK, Interrupt, ReadControl
<1>3. Len(txFIFO) \in Nat /\ Len(txFIFO) <= FIFO_LEN /\ FIFO_LEN \in Nat
  BY Lengths, LenProperties DEF Inv, FIFOsOK
<1>4. HandlerOK'
  <2>1. CASE Interrupt
    BY <1>1, <2>1 DEF Inv, HandlerOK, HandlerState, Interrupt
  <2>2. CASE ReadControl /\ isr' = Returned
    BY <2>2 DEF HandlerOK, HandlerState, Returned
  <2>3. CASE ReadControl /\ isr' # Returned
    <3> DEFINE room == FIFO_LEN - Len(txFIFO)
    <3>1. room \in Nat /\ room + Len(txFIFO) <= FIFO_LEN
      BY <1>3
    <3>2. \E label \in {"rx", "tx"} :
            isr' = [at |-> label, wi |-> WI, wspace |-> room, avail |-> TRUE]
      BY <2>3 DEF ReadControl
    <3>3. WI \in BOOLEAN
      BY DEF WI
    <3> HIDE DEF room
    <3>4. txFIFO' = txFIFO
      BY <1>1 DEF fifos
    <3> QED
      BY <3>1, <3>2, <3>3, <3>4 DEF HandlerOK, HandlerState
  <2> QED
    BY <2>1, <2>2, <2>3
<1> QED
  BY <1>1, <1>2, <1>4
  DEF Inv, RingsOK, FIFOsOK, CallOK, WriteOK, ReadOK, SwitchesOK, SenderAwake,
      ring, host, fifos, switches

\* What ReceiveChar does to the ring: one byte more.
LEMMA Received ==
  ASSUME Inv, ReceiveChar
  PROVE  /\ rxFIFO \in Seq(Byte) /\ rxFIFO # <<>> /\ Head(rxFIFO) \in Byte
         /\ rxFIFO' = Tail(rxFIFO) /\ rxFIFO' \in Seq(Byte) /\ Len(rxFIFO') = Len(rxFIFO) - 1
         /\ rx_in' \in Slots /\ rx_buf' \in [Slots -> Byte]
         /\ Used(rx_in', rx_out) = Used(rx_in, rx_out) + 1
         /\ Used(rx_in, rx_out) + 1 < BUF_LEN
         /\ \A out \in Slots : Used(rx_in, out) + 1 < BUF_LEN =>
              Ring(rx_buf', out, rx_in') = Ring(rx_buf, out, rx_in) \o <<Head(rxFIFO)>>
<1> DEFINE s == <<Head(rxFIFO)>>
<1>1. /\ rxFIFO \in Seq(Byte) /\ rxFIFO # <<>>
      /\ rx_in \in Slots /\ rx_out \in Slots /\ rx_buf \in [Slots -> Byte]
  BY DEF Inv, RingsOK, FIFOsOK, ReceiveChar
<1>2. /\ rxFIFO' = Tail(rxFIFO) /\ Head(rxFIFO) \in Byte
      /\ Tail(rxFIFO) \in Seq(Byte) /\ Len(Tail(rxFIFO)) = Len(rxFIFO) - 1
  BY <1>1, HeadTailProperties DEF ReceiveChar
<1>3. s \in Seq(Byte) /\ Len(s) = 1 /\ s[1] = Head(rxFIFO)
  BY <1>2
<1>4. rx_buf' = Copied(rx_buf, rx_in, s)
  <2>1. \A x \in Slots : x \in rx_in .. rx_in + Len(s) - 1 <=> x = rx_in
    BY <1>1, <1>3 DEF Slots
  <2>2. rx_buf' = [x \in Slots |-> IF x = rx_in THEN Head(rxFIFO) ELSE rx_buf[x]]
    BY <1>1 DEF ReceiveChar
  <2>3. rx_in - rx_in + 1 = 1
    BY <1>1 DEF Slots
  <2> QED
    BY <1>3, <2>1, <2>2, <2>3 DEF Copied
<1>5. rx_in' = Advance(rx_in, Len(s))
  BY <1>3 DEF ReceiveChar
<1> HIDE DEF s
<1>6. Used(rx_in, rx_out) + 1 < BUF_LEN
  <2>1. 1 \in 0 .. BUF_LEN
    BY Lengths
  <2>2. /\ Advance(rx_in, 1) # rx_out
        /\ Advance(rx_in, 1) = IF rx_in + 1 < BUF_LEN THEN rx_in + 1 ELSE rx_in + 1 - BUF_LEN
    BY <1>1, <2>1, AdvanceValue DEF ReceiveChar, rxFull
  <2>3. Used(rx_in, rx_out) = IF rx_in >= rx_out THEN rx_in - rx_out ELSE rx_in - rx_out + BUF_LEN
    BY <1>1, UsedValue
  <2> QED
    BY <1>1, <2>2, <2>3, Lengths DEF Slots
<1>7. rx_in + Len(s) <= BUF_LEN
  BY <1>1, <1>3, Lengths DEF Slots
<1>8. rx_in' \in Slots
  <2>1. Len(s) \in 0 .. BUF_LEN
    BY <1>3, Lengths
  <2> QED
    BY <1>1, <1>5, <2>1, AdvanceValue
<1>9. /\ rx_buf' \in [Slots -> Byte]
      /\ Used(rx_in', rx_out) = Used(rx_in, rx_out) + 1
  <2>1. Used(rx_in, rx_out) + Len(s) < BUF_LEN
    BY <1>3, <1>6
  <2>2. /\ Copied(rx_buf, rx_in, s) \in [Slots -> Byte]
        /\ Used(Advance(rx_in, Len(s)), rx_out) = Used(rx_in, rx_out) + Len(s)
    BY <1>1, <1>3, <1>7, <2>1, RingExtend
  <2> QED
    BY <1>3, <1>4, <1>5, <2>2
<1>10. ASSUME NEW out \in Slots, Used(rx_in, out) + 1 < BUF_LEN
       PROVE  Ring(rx_buf', out, rx_in') = Ring(rx_buf, out, rx_in) \o s
  BY <1>1, <1>3, <1>4, <1>5, <1>7, <1>10, RingExtend
<1> QED
  BY <1>1, <1>2, <1>6, <1>8, <1>9, <1>10 DEF s

LEMMA ReceiveCharInv == ASSUME Inv, ReceiveChar, calls' = calls PROVE Inv'
<1>1. /\ rxFIFO' \in Seq(Byte) /\ Len(rxFIFO') = Len(rxFIFO) - 1
      /\ rx_in' \in Slots /\ rx_buf' \in [Slots -> Byte]
      /\ Used(rx_in', rx_out) = Used(rx_in, rx_out) + 1
  BY Received
<1>2. UNCHANGED <<rx_out, tx_in, tx_out, tx_buf, host, txFIFO, switches, c, masked>>
  BY DEF ReceiveChar
<1>3. isr.at = "rx" /\ isr \in HandlerState
  BY DEF Inv, HandlerOK, ReceiveChar
<1>4. isr' \in HandlerState /\ isr'.at = isr.at /\ isr'.wspace = isr.wspace
  <2> DEFINE more == Tail(rxFIFO) # <<>>
  <2>1. isr' = [isr EXCEPT !.avail = more] /\ more \in BOOLEAN
    BY DEF ReceiveChar
  <2> HIDE DEF more
  <2> QED
    BY <1>3, <2>1 DEF HandlerState
<1>5. RingsOK' /\ WriteOK' /\ CallOK' /\ SenderAwake'
  BY <1>1, <1>2 DEF Inv, RingsOK, WriteOK, CallOK, SenderAwake, switches
<1>6. FIFOsOK'
  <2>1. Len(rxFIFO) \in Nat /\ Len(rxFIFO) <= FIFO_LEN
    BY LenProperties DEF Inv, FIFOsOK
  <2>2. Len(rxFIFO') <= FIFO_LEN
    BY <1>1, <2>1, Lengths
  <2> QED
    BY <1>1, <1>2, <2>2 DEF Inv, FIFOsOK, host
<1>7. HandlerOK'
  BY <1>2, <1>4 DEF Inv, HandlerOK
<1>8. ReadOK'
  <2>1. Used(rx_in, rx_out) \in Nat /\ c.n \in Nat
    BY UsedValue DEF Inv, RingsOK, CallOK, CallState, Slots
  <2> QED
    BY <1>1, <1>2, <2>1 DEF Inv, ReadOK
<1>9. SwitchesOK'
  BY <1>2, <1>3 DEF Inv, SwitchesOK, switches
<1> QED
  BY <1>5, <1>6, <1>7, <1>8, <1>9 DEF Inv

LEMMA ReceiveEndInv == ASSUME Inv, ReceiveEnd, calls' = calls PROVE Inv'
<1>1. UNCHANGED <<ring, host, fifos, c, masked>>
  BY DEF ReceiveEnd
<1>2. irq_enable' = irq_enable \/ irq_enable' = irq_enable \ {"RE"}
  BY DEF ReceiveEnd
<1>3. isr.at = "rx" /\ isr \in HandlerState
  BY DEF Inv, HandlerOK, ReceiveEnd
<1>4. HandlerOK'
  <2>1. CASE isr.wi
    <3>1. isr' \in HandlerState /\ isr'.wspace = isr.wspace /\ txFIFO' = txFIFO
      BY <1>1, <1>3, <2>1 DEF ReceiveEnd, HandlerState, fifos
    <3> QED
      BY <1>3, <3>1 DEF Inv, HandlerOK
  <2>2. CASE ~isr.wi
    BY <2>2 DEF ReceiveEnd, HandlerOK, HandlerState, Returned
  <2> QED
    BY <2>1, <2>2
<1> QED
  BY <1>1, <1>2, <1>3, <1>4
  DEF Inv, RingsOK, FIFOsOK, CallOK, WriteOK, ReadOK, SwitchesOK, SenderAwake,
      ring, host, fifos

\* A ring buffer is empty when its indices meet.
LEMMA EmptyRing ==
  ASSUME NEW in \in Slots, NEW out \in Slots
  PROVE  /\ Used(in, out) \in Nat
         /\ Used(in, out) = 0 <=> in = out
         /\ Advance(out, 0) = out
<1>1. Used(in, out) = IF in >= out THEN in - out ELSE in - out + BUF_LEN
  BY UsedValue
<1>2. 0 \in 0 .. BUF_LEN
  BY Lengths
<1>3. Advance(out, 0) = IF out + 0 < BUF_LEN THEN out + 0 ELSE out + 0 - BUF_LEN
  BY <1>2, AdvanceValue
<1> QED
  BY <1>1, <1>3, Lengths DEF Slots

\* What Transmit takes out of the ring.
LEMMA Sent ==
  ASSUME Inv, Transmit
  PROVE  \E m \in 0 .. Used(tx_in, tx_out) :
           /\ m + Len(txFIFO) <= FIFO_LEN
           /\ txFIFO' = txFIFO \o First(Ring(tx_buf, tx_out, tx_in), m)
           /\ tx_out' = Advance(tx_out, m)
           /\ irq_enable' \subseteq irq_enable
           /\ m = Used(tx_in, tx_out) \/ irq_enable' = irq_enable
<1> DEFINE stored == Ring(tx_buf, tx_out, tx_in)
           m == AtMost(isr.wspace, Len(stored))
           k == Used(tx_in, tx_out)
<1>1. /\ tx_in \in Slots /\ tx_out \in Slots /\ tx_buf \in [Slots -> Byte]
      /\ isr.at = "tx" /\ isr.wspace \in Nat /\ isr.wspace + Len(txFIFO) <= FIFO_LEN
      /\ Len(txFIFO) \in Nat /\ FIFO_LEN \in Nat
  BY LenProperties, Lengths DEF Inv, RingsOK, FIFOsOK, HandlerOK, HandlerState, Transmit
<1>2. k \in Nat /\ Len(stored) = k
  BY <1>1, EmptyRing, RingType
<1> HIDE DEF stored, k
<1>3. m = IF isr.wspace > k THEN k ELSE isr.wspace
  BY <1>2 DEF AtMost
<1>4. /\ txFIFO' = txFIFO \o First(stored, m) /\ tx_out' = Advance(tx_out, m)
      /\ irq_enable' = IF txDone(isr.wspace - m, Len(stored) - m) THEN irq_enable \ {"WE"} ELSE irq_enable
  BY DEF Transmit, stored
<1> HIDE DEF m
<1>5. m \in 0 .. k /\ m + Len(txFIFO) <= FIFO_LEN
  BY <1>1, <1>2, <1>3
<1>6. m = k \/ irq_enable' = irq_enable
  BY <1>1, <1>2, <1>3, <1>4 DEF txDone
<1>7. irq_enable' \subseteq irq_enable
  BY <1>4
<1>8. m \in 0 .. Used(tx_in, tx_out) /\ (m = Used(tx_in, tx_out) \/ irq_enable' = irq_enable)
  BY <1>5, <1>6 DEF k
<1> QED
  BY <1>4, <1>5, <1>7, <1>8 DEF stored

LEMMA TransmitInv == ASSUME Inv, Transmit, calls' = calls PROVE Inv'
<1> DEFINE s == Ring(tx_buf, tx_out, tx_in)
<1>1. PICK m \in 0 .. Used(tx_in, tx_out) :
        /\ m + Len(txFIFO) <= FIFO_LEN
        /\ txFIFO' = txFIFO \o First(s, m)
        /\ tx_out' = Advance(tx_out, m)
        /\ irq_enable' \subseteq irq_enable
        /\ m = Used(tx_in, tx_out) \/ irq_enable' = irq_enable
  BY Sent
<1>2. /\ tx_in \in Slots /\ tx_out \in Slots /\ tx_buf \in [Slots -> Byte]
      /\ txFIFO \in Seq(Byte) /\ Len(txFIFO) \in Nat
      /\ isr.at = "tx"
  BY LenProperties DEF Inv, RingsOK, FIFOsOK, Transmit
<1>3. UNCHANGED <<rx_in, rx_out, tx_in, rx_buf, tx_buf, host, rxFIFO, c, masked>>
  BY DEF Transmit
<1>4. /\ tx_out' \in Slots /\ Used(tx_in, tx_out') = Used(tx_in, tx_out) - m
      /\ First(s, m) \in Seq(Byte) /\ Len(First(s, m)) = m
  <2>1. Used(tx_in, tx_out) \in Nat /\ Len(s) = Used(tx_in, tx_out) /\ s \in Seq(Byte)
    BY <1>2, EmptyRing, RingType
  <2>2. m \in 0 .. Len(s)
    BY <2>1
  <2> HIDE DEF s
  <2>3. First(s, m) \in Seq(Byte) /\ Len(First(s, m)) = m
    BY <2>1, <2>2, PartsOf
  <2> QED
    BY <1>1, <1>2, <2>3, RingSplit
<1> HIDE DEF s
<1>5. Used(tx_in, tx_out) \in Nat /\ m \in Nat
  BY <1>2, EmptyRing
<1>6. RingsOK'
  BY <1>3, <1>4 DEF Inv, RingsOK
<1>7. FIFOsOK'
  <2>1. txFIFO' \in Seq(Byte) /\ Len(txFIFO') = Len(txFIFO) + m
    BY <1>1, <1>2, <1>4, ConcatProperties
  <2>2. Len(txFIFO') <= FIFO_LEN
    BY <1>1, <1>2, <1>5, <2>1, Lengths
  <2> QED
    BY <1>3, <2>1, <2>2 DEF Inv, FIFOsOK, host
<1>8. HandlerOK'
  BY DEF Transmit, HandlerOK, HandlerState, Returned
<1>9. CallOK' /\ ReadOK'
  BY <1>3 DEF Inv, CallOK, ReadOK
<1>10. WriteOK'
  <2>1. c.n \in Nat
    BY DEF Inv, CallOK, CallState
  <2>2. Used(tx_in, tx_out) + c.n < BUF_LEN => Used(tx_in, tx_out') + c.n < BUF_LEN
    BY <1>4, <1>5, <2>1, Lengths
  <2> QED
    BY <1>3, <2>2 DEF Inv, WriteOK
<1>11. SwitchesOK'
  BY <1>1, <1>2, <1>3 DEF Inv, SwitchesOK
<1>12. SenderAwake'
  <2>1. CASE irq_enable' = irq_enable
    <3>1. tx_in = tx_out => m = 0 /\ tx_out' = tx_out
      <4>1. ASSUME tx_in = tx_out PROVE m = 0 /\ tx_out' = tx_out
        <5>1. Used(tx_in, tx_out) = 0
          BY <1>2, <4>1, EmptyRing
        <5>2. m = 0
          BY <5>1
        <5> QED
          BY <1>1, <1>2, <5>2, EmptyRing
      <4> QED
        BY <4>1
    <3> QED
      BY <1>3, <2>1, <3>1 DEF Inv, SenderAwake
  <2>2. CASE m = Used(tx_in, tx_out)
    <3>1. Used(tx_in, tx_out') = 0
      BY <1>4, <1>5, <2>2
    <3>2. tx_in = tx_out'
      BY <1>2, <1>4, <3>1, EmptyRing
    <3> QED
      BY <1>3, <3>2 DEF SenderAwake
  <2> QED
    BY <1>1, <2>1, <2>2
<1> QED
  BY <1>6, <1>7, <1>8, <1>9, <1>10, <1>11, <1>12 DEF Inv

LEMMA InvStep ==
  ASSUME Inv, [Next /\ UNCHANGED calls]_<<vars, calls>>
  PROVE  Inv'
<1>1. calls' = calls /\ (Next \/ UNCHANGED vars)
  OBVIOUS
<1>2. CASE InCall
  <2>1. CASE \E p \in {<<"write", "WE">>, <<"read", "RE">>} : EnableRead(p[1])
    <3>1. \E call \in {"write", "read"} : EnableRead(call)
      BY <2>1
    <3> QED
      BY <1>1, <3>1, EnableReadInv
  <2>2. CASE \E p \in {<<"write", "WE">>, <<"read", "RE">>} : EnableWrite(p[1], p[2])
    BY <1>1, <2>2, EnableWriteInv
  <2> QED
    BY <1>1, <1>2, <2>1, <2>2, WriteLookInv, WriteCopyInv, WritePublishInv, WriteWaitInv,
       ReadLookInv, ReadCopyInv, ReadPublishInv, ReadWaitInv, DrainInv
    DEF InCall
<1>3. CASE Interrupt \/ Handler
  BY <1>1, <1>3, InterruptInv, ReceiveCharInv, ReceiveEndInv, TransmitInv DEF Handler
<1>4. CASE Timeout \/ (\E r \in calls : SetTimeout(r)) \/ UNCHANGED vars
  BY <1>1, <1>4, ClockInv
<1>5. CASE \E r \in calls : Call(r)
  BY <1>1, <1>5, CallInv
<1>6. CASE HostLooks \/ HostTypes
  BY <1>1, <1>6, HostLooksInv, HostTypesInv
<1> QED
  BY <1>1, <1>2, <1>3, <1>4, <1>5, <1>6 DEF Next

LEMMA AlwaysInv == Spec => []Inv
<1>1. Inv /\ [Next /\ UNCHANGED calls]_<<vars, calls>> => Inv'
  BY InvStep
<1> QED
  BY InitInv, <1>1, PTL DEF Spec

\* No lost wake-up, whatever the calls of the program and the lengths of the
\* buffers: bytes that wait in the ring buffer have the interrupt of the
\* transmitter turned on, or the write that put them there is still to turn it
\* on, although the handler turns it off from outside.
THEOREM AwakeSender == Spec => []SenderAwake
<1>1. Inv => SenderAwake
  BY DEF Inv
<1> QED
  BY AlwaysInv, <1>1, PTL

-----------------------------------------------------------------------------
(* Sequences cut and put together. *)

LEMMA CutAt ==
  ASSUME NEW a \in Seq(Byte), NEW b \in Seq(Byte)
  PROVE  First(a \o b, Len(a)) = a /\ After(a \o b, Len(a)) = b
<1> DEFINE s == a \o b
<1>1. /\ s \in Seq(Byte) /\ Len(s) = Len(a) + Len(b) /\ Len(a) \in Nat /\ Len(b) \in Nat
      /\ \A x \in 1 .. Len(a) + Len(b) : s[x] = IF x <= Len(a) THEN a[x] ELSE b[x - Len(a)]
  BY ConcatProperties, LenProperties
<1> HIDE DEF s
<1>2. \A x \in 1 .. Len(s) : s[x] \in Byte
  BY <1>1, ElementOfSeq
<1>3. First(s, Len(a)) = a
  <2>1. /\ First(s, Len(a)) \in Seq(Byte) /\ Len(First(s, Len(a))) = Len(a)
        /\ \A x \in 1 .. Len(a) : First(s, Len(a))[x] = s[x]
    <3>1. 1 \in Int /\ Len(a) \in Int /\ \A x \in 1 .. Len(a) : s[x] \in Byte
      BY <1>1, <1>2
    <3> QED
      BY <1>1, <3>1, SubSeqProperties DEF First
  <2>2. \A x \in 1 .. Len(a) : First(s, Len(a))[x] = a[x]
    BY <1>1, <2>1
  <2> QED
    BY <2>1, <2>2, SeqEqual
<1>4. After(s, Len(a)) = b
  <2>1. /\ After(s, Len(a)) \in Seq(Byte) /\ Len(After(s, Len(a))) = Len(b)
        /\ \A x \in 1 .. Len(b) : After(s, Len(a))[x] = s[Len(a) + x]
    <3>1. Len(a) + 1 \in Int /\ Len(s) \in Int /\ \A x \in Len(a) + 1 .. Len(s) : s[x] \in Byte
      BY <1>1, <1>2
    <3> DEFINE t == SubSeq(s, Len(a) + 1, Len(s))
    <3>2. /\ t \in Seq(Byte) /\ Len(t) = IF Len(a) + 1 <= Len(s) THEN Len(s) - (Len(a) + 1) + 1 ELSE 0
          /\ \A x \in 1 .. Len(s) - (Len(a) + 1) + 1 : t[x] = s[(Len(a) + 1) + x - 1]
      BY <3>1, SubSeqProperties
    <3>3. t = After(s, Len(a))
      BY DEF After
    <3>4. /\ Len(s) - (Len(a) + 1) + 1 = Len(b)
          /\ Len(a) + 1 <= Len(s) <=> Len(b) # 0
          /\ \A x \in 1 .. Len(b) : (Len(a) + 1) + x - 1 = Len(a) + x
      BY <1>1
    <3> HIDE DEF t
    <3>5. t \in Seq(Byte) /\ Len(t) = Len(b)
      BY <3>2, <3>4
    <3>6. \A x \in 1 .. Len(b) : t[x] = s[Len(a) + x]
      BY <3>2, <3>4
    <3> QED
      BY <3>3, <3>5, <3>6
  <2>2. \A x \in 1 .. Len(b) : After(s, Len(a))[x] = b[x]
    <3> TAKE x \in 1 .. Len(b)
    <3> DEFINE y == Len(a) + x
    <3>1. y \in 1 .. Len(a) + Len(b) /\ ~(y <= Len(a)) /\ y - Len(a) = x
      BY <1>1
    <3>2. s[y] = b[y - Len(a)]
      BY <1>1, <3>1
    <3> QED
      BY <2>1, <3>1, <3>2
  <2> QED
    BY <2>1, <2>2, SeqEqual
<1> QED
  BY <1>3, <1>4 DEF s

LEMMA Rejoin ==
  ASSUME NEW s \in Seq(Byte), NEW m \in 0 .. Len(s)
  PROVE  First(s, m) \o After(s, m) = s
<1>1. /\ 1 \in 1 .. Len(s) + 1 /\ m \in 1 - 1 .. Len(s) /\ Len(s) \in m .. Len(s)
  BY LenProperties
<1> QED
  BY <1>1, ConcatAdjacentSubSeq, SubSeqFull DEF First, After

\* The first bytes of a queue in two parts, when they lie in the first part.
LEMMA CutFirstPart ==
  ASSUME NEW s \in Seq(Byte), NEW t \in Seq(Byte), NEW m \in 0 .. Len(s)
  PROVE  First(s \o t, m) = First(s, m) /\ After(s \o t, m) = After(s, m) \o t
<1>1. /\ First(s, m) \in Seq(Byte) /\ Len(First(s, m)) = m
      /\ After(s, m) \in Seq(Byte)
  BY PartsOf
<1>2. s \o t = First(s, m) \o (After(s, m) \o t)
  <2>1. (First(s, m) \o After(s, m)) \o t = First(s, m) \o (After(s, m) \o t)
    BY <1>1, ConcatAssociative
  <2> QED
    BY <2>1, Rejoin
<1>3. After(s, m) \o t \in Seq(Byte)
  BY <1>1, ConcatProperties
<1> QED
  BY <1>1, <1>2, <1>3, CutAt

LEMMA HeadAndTail ==
  ASSUME NEW s \in Seq(Byte), s # <<>>
  PROVE  /\ 1 \in 1 .. Len(s)
         /\ Tail(s) = After(s, 1) /\ <<Head(s)>> = First(s, 1)
         /\ <<Head(s)>> \in Seq(Byte) /\ Tail(s) \in Seq(Byte)
         /\ <<Head(s)>> \o Tail(s) = s
<1>1. Len(s) \in Nat \ {0}
  BY EmptySeq
<1>2. 1 \in 1 .. Len(s) /\ 1 \in 0 .. Len(s)
  BY <1>1
<1>3. Tail(s) = After(s, 1) /\ Head(s) \in Byte
  BY TailIsSubSeq, HeadTailProperties DEF After
<1>4. <<Head(s)>> = First(s, 1)
  <2>1. /\ First(s, 1) \in Seq(Byte) /\ Len(First(s, 1)) = 1 /\ First(s, 1)[1] = s[1]
    <3>1. 1 \in Int /\ \A x \in 1 .. 1 : s[x] \in Byte
      BY <1>2, ElementOfSeq
    <3> QED
      BY <3>1, SubSeqProperties DEF First
  <2>2. First(s, 1) = [x \in 1 .. 1 |-> First(s, 1)[x]]
    BY <2>1, LenProperties
  <2>3. Head(s) = s[1]
    OBVIOUS
  <2> DEFINE h == <<Head(s)>>
  <2>4. h \in Seq(Byte) /\ Len(h) = 1 /\ h[1] = Head(s)
    BY <1>3
  <2> HIDE DEF h
  <2>5. \A x \in 1 .. Len(h) : h[x] = First(s, 1)[x]
    BY <2>1, <2>3, <2>4
  <2>6. h = First(s, 1)
    BY <2>1, <2>4, <2>5, SeqEqual
  <2> QED
    BY <2>6 DEF h
<1> QED
  BY <1>2, <1>3, <1>4, Rejoin, PartsOf

-----------------------------------------------------------------------------
(* What the steps of a call do to the two channels. *)

LEMMA UsedFurther ==
  ASSUME NEW in \in Slots, NEW out \in Slots, NEW m \in Nat,
         in + m <= BUF_LEN, Used(in, out) + m < BUF_LEN
  PROVE  Advance(in, m) \in Slots /\ Used(Advance(in, m), out) = Used(in, out) + m
<1> DEFINE end == Advance(in, m)
           k == Used(in, out)
<1>1. m \in 0 .. BUF_LEN /\ in \in Nat
  BY Lengths DEF Slots
<1>2. end \in Slots /\ end = IF in + m < BUF_LEN THEN in + m ELSE in + m - BUF_LEN
  BY <1>1, AdvanceValue
<1>3. /\ k = IF in >= out THEN in - out ELSE in - out + BUF_LEN
      /\ Used(end, out) = IF end >= out THEN end - out ELSE end - out + BUF_LEN
  BY <1>2, UsedValue
<1>4. k + m < BUF_LEN
  OBVIOUS
<1> HIDE DEF end, k
<1>5. Used(end, out) = k + m
  BY <1>1, <1>2, <1>3, <1>4, Lengths DEF Slots
<1> QED
  BY <1>2, <1>5 DEF end, k

\* A step that is none of the copies, and leaves the call open or ends it.
CallKept == c'.call = c.call /\ c'.count = c.count
CallEnds == c'.call = "none" /\ c'.count = <<>>
StepAside ==
  /\ UNCHANGED <<ring, host, rxFIFO, txFIFO, buffer>>
  /\ c.at # "publish" /\ c'.at # "publish"
  /\ CallKept \/ CallEnds

LEMMA EndsAside ==
  ASSUME NEW r, Return(r), UNCHANGED <<ring, host, fifos, buffer>>, c.at # "publish"
  PROVE  StepAside
<1>1. c'.at = "idle" /\ CallEnds
  BY ReturnsIdle DEF CallEnds
<1> QED
  BY <1>1 DEF StepAside, fifos

LEMMA GoesAside ==
  ASSUME c \in CallState, NEW label \in {"wait", "check", "look"}, Goto(label),
         UNCHANGED <<ring, host, fifos, buffer>>, c.at # "publish"
  PROVE  StepAside
<1>1. label \in Labels
  BY DEF Labels
<1>2. c'.at # "publish" /\ CallKept
  BY <1>1, GotoType DEF CallKept
<1> QED
  BY <1>2 DEF StepAside, fifos

LEMMA CallSteps ==
  ASSUME Inv, InCall
  PROVE  WriteCopy \/ WritePublish \/ ReadCopy \/ ReadPublish \/ StepAside
<1>1. c \in CallState
  BY DEF Inv, CallOK
<1>2. CASE WriteLook
  <2> DEFINE n == IF c.count = <<>> THEN 0 ELSE AtMost(WriteRoom(tx_in, tx_out), Len(c.count))
             label == IF n = 0 THEN "mask" ELSE "copy"
             out == IF c.count = <<>> THEN c.out ELSE tx_out
  <2>1. /\ c' = [c EXCEPT !.at = label, !.in = tx_in, !.n = n, !.out = out]
        /\ label \in {"mask", "copy"} /\ c.at = "look"
        /\ UNCHANGED <<ring, host, fifos, buffer>>
    BY <1>2 DEF WriteLook, At
  <2> HIDE DEF n, label, out
  <2>2. c'.at = label /\ CallKept
    BY <1>1, <2>1 DEF CallState, CallKept
  <2> QED
    BY <2>1, <2>2 DEF StepAside, fifos
<1>3. CASE ReadLook
  <2> DEFINE stored == Stored(rx_in, rx_out)
             n == AtMost(stored, c.space)
             r == [c EXCEPT !.in = rx_in, !.n = n]
  <2>1. /\ c.at = "look" /\ UNCHANGED <<ring, host, fifos, buffer>>
        /\ \/ \E label \in {"copy", "mask", "wait"} : c' = [r EXCEPT !.at = label]
           \/ Return(r)
    BY <1>3 DEF ReadLook, At, Stored
  <2> HIDE DEF n, stored
  <2>2. CASE \E label \in {"copy", "mask", "wait"} : c' = [r EXCEPT !.at = label]
    <3>1. PICK label \in {"copy", "mask", "wait"} : c' = [r EXCEPT !.at = label]
      BY <2>2
    <3>2. c'.at = label /\ CallKept
      BY <1>1, <3>1 DEF CallState, CallKept
    <3> QED
      BY <2>1, <3>2 DEF StepAside, fifos
  <2> HIDE DEF r
  <2>3. CASE Return(r)
    BY <2>1, <2>3, EndsAside
  <2> QED
    BY <2>1, <2>2, <2>3
<1>4. CASE WriteWait \/ WriteCheck \/ ReadWait \/ ReadCheck
  <2>1. /\ c.at # "publish" /\ UNCHANGED <<ring, host, fifos, buffer>>
        /\ (\E label \in {"wait", "check", "look"} : Goto(label)) \/ Return(c)
    BY <1>4 DEF WriteWait, WriteCheck, ReadWait, ReadCheck, At
  <2> QED
    BY <1>1, <2>1, EndsAside, GoesAside
<1>5. CASE \E p \in {<<"write", "WE">>, <<"read", "RE">>} : EnableRead(p[1]) \/ EnableWrite(p[1], p[2])
  <2>1. PICK p \in {<<"write", "WE">>, <<"read", "RE">>} : EnableRead(p[1]) \/ EnableWrite(p[1], p[2])
    BY <1>5
  <2>2. CASE EnableRead(p[1])
    <3>1. c'.at = "enable" /\ CallKept /\ c.at = "mask"
      BY <1>1, <2>2 DEF EnableRead, At, CallState, CallKept
    <3> QED
      BY <2>2, <3>1 DEF EnableRead, StepAside, fifos
  <2>3. CASE EnableWrite(p[1], p[2])
    <3>1. /\ c.at # "publish" /\ UNCHANGED <<ring, host, fifos, buffer>>
          /\ Goto("wait") \/ Return(c)
      BY <2>3 DEF EnableWrite, At
    <3> QED
      BY <1>1, <3>1, EndsAside, GoesAside
  <2> QED
    BY <2>1, <2>2, <2>3
<1>6. CASE Drain
  <2>1. \E result \in Results : c' = Idle(result)
    BY <1>6 DEF Drain, Results
  <2>2. c'.at = "idle" /\ CallEnds
    BY <2>1, BackIdle DEF CallEnds
  <2> QED
    BY <1>6, <2>2 DEF Drain, At, StepAside, fifos
<1> QED
  BY <1>2, <1>3, <1>4, <1>5, <1>6 DEF InCall

-----------------------------------------------------------------------------
(* The channel from the program to the host. *)

TxQueue == txFIFO \o Ring(tx_buf, tx_out, TxEnd)

\* The bytes that write has copied already but not published count as sent.
LEMMA TxTypes ==
  ASSUME Inv
  PROVE  /\ TxEnd \in Slots /\ tx_in \in Slots /\ tx_out \in Slots
         /\ tx_buf \in [Slots -> Byte]
         /\ txFIFO \in Seq(Byte) /\ Len(txFIFO) \in Nat /\ Len(txFIFO) <= FIFO_LEN
         /\ Ring(tx_buf, tx_out, TxEnd) \in Seq(Byte)
         /\ Len(Ring(tx_buf, tx_out, TxEnd)) = Used(TxEnd, tx_out)
         /\ Used(tx_in, tx_out) \in Nat /\ Used(TxEnd, tx_out) \in Nat
         /\ Used(tx_in, tx_out) <= Used(TxEnd, tx_out)
         /\ c.call # "none" => c.at # "idle"
<1>1. /\ tx_in \in Slots /\ tx_out \in Slots /\ tx_buf \in [Slots -> Byte]
      /\ txFIFO \in Seq(Byte) /\ Len(txFIFO) \in Nat /\ Len(txFIFO) <= FIFO_LEN
      /\ c.call # "none" => c.at # "idle"
  BY LenProperties DEF Inv, RingsOK, FIFOsOK, CallOK
<1>2. Used(tx_in, tx_out) \in Nat
  BY <1>1, EmptyRing
<1>3. TxEnd \in Slots /\ Used(tx_in, tx_out) <= Used(TxEnd, tx_out)
  <2>1. CASE c.call = "write" /\ c.at = "publish"
    <3>1. /\ c.in = tx_in /\ c.n \in Nat /\ tx_in + c.n <= BUF_LEN
          /\ Used(tx_in, tx_out) + c.n < BUF_LEN
      BY <2>1 DEF Inv, CallOK, CallState, WriteOK
    <3>2. TxEnd = Advance(tx_in, c.n)
      BY <2>1, <3>1 DEF TxEnd
    <3>3. Advance(tx_in, c.n) \in Slots
          /\ Used(Advance(tx_in, c.n), tx_out) = Used(tx_in, tx_out) + c.n
      BY <1>1, <3>1, UsedFurther
    <3> QED
      BY <1>2, <3>1, <3>2, <3>3
  <2>2. CASE ~(c.call = "write" /\ c.at = "publish")
    BY <1>1, <1>2, <2>2 DEF TxEnd
  <2> QED
    BY <2>1, <2>2
<1> QED
  BY <1>1, <1>2, <1>3, RingType, EmptyRing

LEMMA TxStill ==
  ASSUME UNCHANGED <<tx_in, tx_out, tx_buf, txFIFO, printed>>, TxEnd' = TxEnd,
         c'.count = c.count, c'.call = "write" <=> c.call = "write"
  PROVE  UNCHANGED Tx!vars
<1>1. Ring(tx_buf, tx_out, TxEnd)' = Ring(tx_buf, tx_out, TxEnd)
  OBVIOUS
<1>2. (c.call = "write")' = (c.call = "write")
  OBVIOUS
<1> QED
  BY <1>1, <1>2 DEF Tx!vars

\* Nothing is under way in the driver's call.
LEMMA TxAside ==
  ASSUME Inv, StepAside
  PROVE  [Tx!Next]_Tx!vars
<1>1. /\ UNCHANGED <<tx_in, tx_out, tx_buf, txFIFO, printed>>
      /\ TxEnd = tx_in /\ TxEnd' = tx_in'
  BY DEF StepAside, TxEnd, ring, host
<1>2. CASE CallKept
  BY <1>1, <1>2, TxStill DEF CallKept
<1>3. CASE CallEnds /\ c.call = "write"
  <2>1. Ring(tx_buf, tx_out, TxEnd)' = Ring(tx_buf, tx_out, TxEnd)
    BY <1>1
  <2>2. Tx!Withdraw
    BY <1>1, <1>3, <2>1 DEF CallEnds, Tx!Withdraw
  <2> QED
    BY <2>2 DEF Tx!Next
<1>4. CASE CallEnds /\ c.call # "write"
  <2>1. c.count = <<>>
    BY <1>4 DEF Inv, CallOK
  <2> QED
    BY <1>1, <1>4, <2>1, TxStill DEF CallEnds
<1> QED
  BY <1>2, <1>3, <1>4 DEF StepAside

LEMMA TxCall ==
  ASSUME Inv, NEW r \in calls, Call(r)
  PROVE  [Tx!Next]_Tx!vars
<1>1. /\ UNCHANGED <<tx_in, tx_out, tx_buf, txFIFO, printed>>
      /\ c.call = "none" /\ c.count = <<>> /\ c.at = "idle"
  BY DEF Inv, CallOK, Call, ring, host, fifos
<1>2. c'.at = "look" /\ c'.call = r.call /\ c'.count = r.count
  BY DEF Call, Idle
<1>3. TxEnd' = TxEnd
  BY <1>1, <1>2 DEF TxEnd
<1>4. Ring(tx_buf, tx_out, TxEnd)' = Ring(tx_buf, tx_out, TxEnd)
  BY <1>1, <1>3
<1>5. r.count \in Seq(Byte)
  BY CallAssumption DEF Inv, CallOK
<1>6. CASE r.call = "write"
  <2>1. Tx!Offer
    BY <1>1, <1>2, <1>4, <1>5, <1>6 DEF Tx!Offer
  <2> QED
    BY <2>1 DEF Tx!Next
<1>7. CASE r.call # "write"
  <2>1. r.count = <<>>
    BY <1>7, CallAssumption DEF Inv, CallOK
  <2> QED
    BY <1>1, <1>2, <1>3, <1>7, <2>1, TxStill
<1> QED
  BY <1>6, <1>7

\* The bytes enter the channel when write copies them.
LEMMA TxCopy ==
  ASSUME Inv, WriteCopy
  PROVE  Tx!Accept
<1> DEFINE s == First(c.count, c.n)
           r == Ring(tx_buf, tx_out, tx_in)
<1>1. /\ c \in CallState /\ c.at = "copy" /\ c.call = "write"
      /\ c.in = tx_in /\ c.n > 0 /\ c.in + c.n <= BUF_LEN
      /\ Used(tx_in, tx_out) + c.n < BUF_LEN /\ c.n <= Len(c.count)
  BY DEF Inv, CallOK, WriteOK, WriteCopy, At
<1>2. /\ tx_in \in Slots /\ tx_out \in Slots /\ tx_buf \in [Slots -> Byte]
      /\ txFIFO \in Seq(Byte) /\ Len(txFIFO) \in Nat /\ Len(txFIFO) <= FIFO_LEN
      /\ Used(tx_in, tx_out) \in Nat
      /\ r \in Seq(Byte) /\ Len(r) = Used(tx_in, tx_out)
  BY <1>1, TxTypes DEF TxEnd
<1>3. /\ c.count \in Seq(Byte) /\ c.n \in 1 .. Len(c.count) /\ c.n \in 0 .. Len(c.count)
      /\ c.n \in Nat
  BY <1>1, LenProperties DEF CallState
<1>4. s \in Seq(Byte) /\ Len(s) = c.n
  BY <1>3, PartsOf
<1> HIDE DEF s, r
<1>5. /\ c'.call = "write" /\ c'.at = "publish" /\ c'.in = tx_in /\ c'.n = c.n
      /\ c'.count = After(c.count, c.n)
  BY <1>1 DEF WriteCopy, CallState
<1>6. tx_buf' = Copied(tx_buf, tx_in, s) /\ UNCHANGED <<tx_out, txFIFO, printed>>
  BY <1>1 DEF WriteCopy, s, host, fifos
<1>7. TxEnd = tx_in /\ TxEnd' = Advance(tx_in, c.n)
  BY <1>1, <1>5 DEF TxEnd
<1>8. Ring(Copied(tx_buf, tx_in, s), tx_out, Advance(tx_in, Len(s))) = r \o s
  <2>1. tx_in + Len(s) <= BUF_LEN /\ Used(tx_in, tx_out) + Len(s) < BUF_LEN
    BY <1>1, <1>4
  <2> QED
    BY <1>2, <1>4, <2>1, RingExtend DEF r
<1>9. Ring(tx_buf, tx_out, TxEnd)' = r \o s
  BY <1>4, <1>6, <1>7, <1>8
<1>10. TxQueue' = (txFIFO \o r) \o s /\ TxQueue = txFIFO \o r
  <2>1. TxQueue' = txFIFO \o (r \o s)
    BY <1>6, <1>9 DEF TxQueue
  <2>2. TxQueue = txFIFO \o r
    BY <1>7 DEF TxQueue, r
  <2> QED
    BY <1>2, <1>4, <2>1, <2>2, ConcatAssociative
<1>11. Len(TxQueue) + c.n <= BUF_LEN - 1 + FIFO_LEN
  <2>1. Len(TxQueue) = Len(txFIFO) + Used(tx_in, tx_out)
    BY <1>2, <1>10, ConcatProperties
  <2> QED
    BY <1>1, <1>2, <1>3, <2>1, Lengths
<1>12. /\ TxQueue' = TxQueue \o Tx!First(c.count, c.n)
       /\ c'.count = Tx!After(c.count, c.n)
  BY <1>5, <1>10 DEF s, First, After, Tx!First, Tx!After
<1> QED
  BY <1>1, <1>3, <1>6, <1>11, <1>12 DEF Tx!Accept, TxQueue

LEMMA TxPublish ==
  ASSUME Inv, WritePublish
  PROVE  UNCHANGED Tx!vars
<1>1. /\ c \in CallState /\ c.at = "publish" /\ c.call = "write"
      /\ UNCHANGED <<tx_out, tx_buf, txFIFO, printed>>
      /\ tx_in' = Advance(c.in, c.n)
  BY DEF Inv, CallOK, WritePublish, At, host, fifos
<1>2. c'.call = "write" /\ c'.at = "look" /\ c'.count = c.count
  BY <1>1 DEF WritePublish, CallState
<1>3. TxEnd = Advance(c.in, c.n) /\ TxEnd' = tx_in'
  BY <1>1, <1>2 DEF TxEnd
<1>4. Ring(tx_buf, tx_out, TxEnd)' = Ring(tx_buf, tx_out, TxEnd)
  BY <1>1, <1>3
<1> QED
  BY <1>1, <1>2, <1>4 DEF Tx!vars

\* The oldest bytes are the same ones when more have come.
LEMMA RingFirst ==
  ASSUME NEW buf \in [Slots -> Byte], NEW out \in Slots, NEW in \in Slots,
         NEW m \in 0 .. Used(in, out)
  PROVE  /\ First(Ring(buf, out, in), m) \in Seq(Byte)
         /\ Len(First(Ring(buf, out, in), m)) = m
         /\ \A x \in 1 .. m : First(Ring(buf, out, in), m)[x] = buf[Advance(out, x - 1)]
<1> DEFINE f == First(Ring(buf, out, in), m)
<1>1. f \in Seq(Byte) /\ f = [x \in 1 .. m |-> buf[Advance(out, x - 1)]]
  BY RingSplit
<1>2. Ring(buf, out, in) \in Seq(Byte) /\ m \in 0 .. Len(Ring(buf, out, in))
  BY RingType
<1>3. Len(f) = m
  BY <1>2, PartsOf
<1> HIDE DEF f
<1>4. \A x \in 1 .. m : f[x] = buf[Advance(out, x - 1)]
  BY <1>1
<1> QED
  BY <1>1, <1>3, <1>4 DEF f

\* The handler moves bytes within the channel.
LEMMA TxTransmit ==
  ASSUME Inv, Transmit
  PROVE  UNCHANGED Tx!vars
<1> DEFINE s == Ring(tx_buf, tx_out, tx_in)
           r == Ring(tx_buf, tx_out, TxEnd)
<1>1. PICK m \in 0 .. Used(tx_in, tx_out) :
        /\ txFIFO' = txFIFO \o First(s, m)
        /\ tx_out' = Advance(tx_out, m)
  BY Sent
<1>2. /\ tx_in \in Slots /\ TxEnd \in Slots /\ tx_out \in Slots /\ tx_buf \in [Slots -> Byte]
      /\ txFIFO \in Seq(Byte) /\ r \in Seq(Byte)
      /\ Used(tx_in, tx_out) \in Nat /\ Used(TxEnd, tx_out) \in Nat
      /\ Used(tx_in, tx_out) <= Used(TxEnd, tx_out)
  BY TxTypes
<1>3. UNCHANGED <<tx_in, tx_buf, printed, c>>
  BY DEF Transmit, host
<1>4. TxEnd' = TxEnd
  BY <1>3 DEF TxEnd
<1>5. m \in 0 .. Used(TxEnd, tx_out)
  BY <1>2
<1>6. First(s, m) = First(r, m)
  <2>1. /\ First(s, m) \in Seq(Byte) /\ Len(First(s, m)) = m
        /\ \A x \in 1 .. m : First(s, m)[x] = tx_buf[Advance(tx_out, x - 1)]
    BY <1>2, RingFirst
  <2>2. /\ First(r, m) \in Seq(Byte) /\ Len(First(r, m)) = m
        /\ \A x \in 1 .. m : First(r, m)[x] = tx_buf[Advance(tx_out, x - 1)]
    BY <1>2, <1>5, RingFirst
  <2> HIDE DEF r, s
  <2> QED
    BY <2>1, <2>2, SeqEqual
<1>7. /\ r = First(r, m) \o Ring(tx_buf, Advance(tx_out, m), TxEnd)
      /\ First(r, m) \in Seq(Byte) /\ Advance(tx_out, m) \in Slots
  BY <1>2, <1>5, RingSplit
<1>8. Ring(tx_buf, Advance(tx_out, m), TxEnd) \in Seq(Byte)
  BY <1>2, <1>7, RingType
<1> HIDE DEF r, s
<1>9. Ring(tx_buf, tx_out, TxEnd)' = Ring(tx_buf, Advance(tx_out, m), TxEnd)
  BY <1>1, <1>3, <1>4
<1>10. TxQueue' = TxQueue
  <2>1. TxQueue' = (txFIFO \o First(r, m)) \o Ring(tx_buf, Advance(tx_out, m), TxEnd)
    BY <1>1, <1>6, <1>9 DEF TxQueue
  <2> DEFINE t == Ring(tx_buf, Advance(tx_out, m), TxEnd)
  <2>2. (txFIFO \o First(r, m)) \o t = txFIFO \o (First(r, m) \o t)
    BY <1>2, <1>7, <1>8, ConcatAssociative
  <2>3. r = First(r, m) \o t
    BY <1>7 DEF r
  <2>4. TxQueue = txFIFO \o r
    BY DEF TxQueue, r
  <2> HIDE DEF t
  <2> QED
    BY <2>1, <2>2, <2>3, <2>4 DEF t
<1> QED
  BY <1>3, <1>10 DEF Tx!vars, TxQueue

LEMMA TxLooks ==
  ASSUME Inv, HostLooks
  PROVE  [Tx!Next]_Tx!vars
<1>1. UNCHANGED <<tx_in, tx_out, tx_buf, c>>
  BY DEF HostLooks, ring
<1>2. TxEnd' = TxEnd
  BY <1>1 DEF TxEnd
<1>3. CASE txFIFO = <<>>
  <2>1. UNCHANGED <<txFIFO, printed>>
    BY <1>3 DEF HostLooks
  <2> QED
    BY <1>1, <1>2, <2>1, TxStill
<1>4. CASE txFIFO # <<>>
  <2> DEFINE r == Ring(tx_buf, tx_out, TxEnd)
  <2>1. txFIFO \in Seq(Byte) /\ Len(txFIFO) \in Nat /\ r \in Seq(Byte) /\ Len(r) \in Nat
    BY TxTypes
  <2>2. txFIFO' = Tail(txFIFO) /\ printed' = First(txFIFO, 1)
    BY <1>4 DEF HostLooks
  <2>3. 1 \in 1 .. Len(txFIFO) /\ 1 \in 0 .. Len(txFIFO) /\ Tail(txFIFO) = After(txFIFO, 1)
    <3>1. 1 \in 1 .. Len(txFIFO) /\ Tail(txFIFO) = After(txFIFO, 1)
      BY <1>4, <2>1, HeadAndTail
    <3> QED
      BY <2>1, <3>1
  <2> HIDE DEF r
  <2>4. First(txFIFO \o r, 1) = First(txFIFO, 1) /\ After(txFIFO \o r, 1) = After(txFIFO, 1) \o r
    BY <2>1, <2>3, CutFirstPart
  <2>5. r' = r
    BY <1>1, <1>2 DEF r
  <2>6. TxQueue = txFIFO \o r /\ TxQueue' = Tail(txFIFO) \o r
    BY <2>2, <2>5 DEF TxQueue, r
  <2>7. printed' = Tx!First(TxQueue, 1) /\ TxQueue' = Tx!After(TxQueue, 1)
    BY <2>2, <2>3, <2>4, <2>6 DEF First, After, Tx!First, Tx!After
  <2>8. 1 \in 1 .. Len(TxQueue)
    <3>1. Len(TxQueue) = Len(txFIFO) + Len(r)
      BY <2>1, <2>6, ConcatProperties
    <3> QED
      BY <2>1, <2>3, <3>1
  <2>9. Tx!Deliver
    BY <1>1, <2>7, <2>8 DEF Tx!Deliver, TxQueue
  <2> QED
    BY <2>9 DEF Tx!Next
<1> QED
  BY <1>3, <1>4

LEMMA TxInit == Init => Tx!Init
<1> SUFFICES ASSUME Init PROVE Tx!Init
  OBVIOUS
<1>1. Inv
  BY InitInv
<1>2. TxEnd = tx_in /\ tx_in = tx_out /\ txFIFO = <<>>
  BY DEF Init, Idle, TxEnd
<1>3. Len(Ring(tx_buf, tx_out, TxEnd)) = 0 /\ Ring(tx_buf, tx_out, TxEnd) \in Seq(Byte)
  BY <1>1, <1>2, TxTypes, EmptyRing
<1>4. Ring(tx_buf, tx_out, TxEnd) = <<>>
  BY <1>3, EmptySeq
<1>5. TxQueue = <<>>
  BY <1>2, <1>3, <1>4, ConcatEmptySeq DEF TxQueue
<1> QED
  BY <1>5 DEF Init, Idle, Tx!Init, TxQueue

LEMMA TxStep ==
  ASSUME Inv, [Next /\ UNCHANGED calls]_<<vars, calls>>
  PROVE  [Tx!Next]_Tx!vars
<1>1. CASE WriteCopy
  BY <1>1, TxCopy DEF Tx!Next
<1>2. CASE ReadCopy \/ ReadPublish
  <2>1. /\ UNCHANGED <<tx_in, tx_out, tx_buf, txFIFO, printed>>
        /\ c \in CallState /\ c.call = "read"
    BY <1>2 DEF Inv, CallOK, ReadCopy, ReadPublish, At, ring, host, fifos
  <2>2. CallKept
    <3>1. CASE ReadCopy
      BY <2>1, <3>1 DEF ReadCopy, CallState, CallKept
    <3>2. CASE ReadPublish
      BY <2>1, <3>2 DEF ReadPublish, CallState, CallKept
    <3> QED
      BY <1>2, <3>1, <3>2
  <2>3. TxEnd' = TxEnd
    BY <2>1, <2>2 DEF TxEnd, CallKept
  <2> QED
    BY <2>1, <2>2, <2>3, TxStill DEF CallKept
<1>3. CASE InCall
  BY <1>1, <1>2, <1>3, CallSteps, TxPublish, TxAside
<1>4. CASE \E r \in calls : Call(r)
  BY <1>4, TxCall
<1>5. CASE Transmit
  BY <1>5, TxTransmit
<1>6. CASE HostLooks
  BY <1>6, TxLooks
<1>7. CASE \/ \E r \in calls : SetTimeout(r)
           \/ Interrupt \/ ReadControl \/ ReceiveChar \/ ReceiveEnd \/ Timeout \/ HostTypes
           \/ UNCHANGED vars
  <2>1. UNCHANGED <<tx_in, tx_out, tx_buf, txFIFO, printed, c>>
    BY <1>7 DEF SetTimeout, Interrupt, ReadControl, ReceiveChar, ReceiveEnd, Timeout,
                HostTypes, vars, ring, host, fifos
  <2>2. TxEnd' = TxEnd
    BY <2>1 DEF TxEnd
  <2> QED
    BY <2>1, <2>2, TxStill
<1> QED
  BY <1>3, <1>4, <1>5, <1>6, <1>7 DEF Next, Handler

\* What the program writes comes to the host in order, no byte lost, doubled
\* or made up, for any lengths of the ring buffer and of the FIFO and any
\* calls: write and the handler, which share the buffer without a lock,
\* implement a channel.
THEOREM TxImplements == Spec => TxIsChannel
<1>1. Inv /\ [Next /\ UNCHANGED calls]_<<vars, calls>> => [Tx!Next]_Tx!vars
  BY TxStep
<1> QED
  BY AlwaysInv, TxInit, <1>1, PTL DEF Spec, TxIsChannel, Tx!Spec

-----------------------------------------------------------------------------
(* The channel from the host to the program. *)

RxQueue == Ring(rx_buf, RxBegin, rx_in) \o rxFIFO

\* The bytes that read has copied already but not freed count as delivered.
LEMMA RxTypes ==
  ASSUME Inv
  PROVE  /\ RxBegin \in Slots /\ rx_in \in Slots /\ rx_out \in Slots
         /\ rx_buf \in [Slots -> Byte]
         /\ rxFIFO \in Seq(Byte) /\ Len(rxFIFO) \in Nat /\ Len(rxFIFO) <= FIFO_LEN
         /\ Ring(rx_buf, RxBegin, rx_in) \in Seq(Byte)
         /\ Len(Ring(rx_buf, RxBegin, rx_in)) = Used(rx_in, RxBegin)
         /\ Used(rx_in, rx_out) \in Nat /\ Used(rx_in, RxBegin) \in Nat
         /\ Used(rx_in, RxBegin) <= Used(rx_in, rx_out)
         /\ Used(rx_in, RxBegin) < BUF_LEN
<1>1. /\ rx_in \in Slots /\ rx_out \in Slots /\ rx_buf \in [Slots -> Byte]
      /\ rxFIFO \in Seq(Byte) /\ Len(rxFIFO) \in Nat /\ Len(rxFIFO) <= FIFO_LEN
  BY LenProperties DEF Inv, RingsOK, FIFOsOK
<1>2. Used(rx_in, rx_out) \in Nat
  BY <1>1, EmptyRing
<1>3. RxBegin \in Slots /\ Used(rx_in, RxBegin) <= Used(rx_in, rx_out)
  <2>1. CASE c.call = "read" /\ c.at = "publish"
    <3>1. c.n \in Nat /\ c.n <= Used(rx_in, rx_out) /\ RxBegin = Advance(rx_out, c.n)
      BY <2>1 DEF Inv, CallOK, CallState, ReadOK, RxBegin
    <3>2. c.n \in 0 .. Used(rx_in, rx_out)
      BY <1>2, <3>1
    <3>3. /\ Advance(rx_out, c.n) \in Slots
          /\ Used(rx_in, Advance(rx_out, c.n)) = Used(rx_in, rx_out) - c.n
      BY <1>1, <3>2, RingSplit
    <3> QED
      BY <1>2, <3>1, <3>3
  <2>2. CASE ~(c.call = "read" /\ c.at = "publish")
    BY <1>1, <1>2, <2>2 DEF RxBegin
  <2> QED
    BY <2>1, <2>2
<1>4. Used(rx_in, RxBegin) \in Nat /\ Used(rx_in, RxBegin) < BUF_LEN
  <2>1. Used(rx_in, RxBegin) \in Slots
    BY <1>1, <1>3, UsedValue
  <2> QED
    BY <2>1, Lengths DEF Slots
<1> QED
  BY <1>1, <1>2, <1>3, <1>4, RingType

LEMMA RxStill ==
  ASSUME UNCHANGED <<rx_in, rx_buf, rxFIFO, typing, buffer>>, RxBegin' = RxBegin
  PROVE  UNCHANGED Rx!vars
<1>1. Ring(rx_buf, RxBegin, rx_in)' = Ring(rx_buf, RxBegin, rx_in)
  OBVIOUS
<1> QED
  BY <1>1 DEF Rx!vars

\* The bytes leave the channel when read copies them.
LEMMA RxCopy ==
  ASSUME Inv, ReadCopy
  PROVE  Rx!Deliver
<1> DEFINE r == Ring(rx_buf, rx_out, rx_in)
           t == Ring(rx_buf, Advance(rx_out, c.n), rx_in)
<1>1. /\ c \in CallState /\ c.at = "copy" /\ c.call = "read"
      /\ c.n > 0 /\ c.n \in Nat /\ rx_out + c.n <= BUF_LEN /\ c.n <= Used(rx_in, rx_out)
  BY DEF Inv, CallOK, CallState, ReadOK, ReadCopy, At
<1>2. RxBegin = rx_out
  BY <1>1 DEF RxBegin
<1>3. /\ rx_in \in Slots /\ rx_out \in Slots /\ rx_buf \in [Slots -> Byte]
      /\ rxFIFO \in Seq(Byte) /\ Len(rxFIFO) \in Nat
      /\ r \in Seq(Byte) /\ Len(r) = Used(rx_in, rx_out)
      /\ Used(rx_in, rx_out) \in Nat
  BY <1>2, RxTypes
<1>4. UNCHANGED <<rx_in, rx_out, rx_buf, rxFIFO, typing>>
  BY DEF ReadCopy, ring, host, fifos
<1>5. c.n \in 0 .. Used(rx_in, rx_out)
  BY <1>1, <1>3
<1>6. t = After(r, c.n)
  BY <1>3, <1>5, RingSplit
<1>7. buffer' = First(r, c.n)
  <2> DEFINE b == [x \in 1 .. c.n |-> rx_buf[rx_out + x - 1]]
             f == First(r, c.n)
  <2>1. /\ f \in Seq(Byte) /\ Len(f) = c.n
        /\ \A x \in 1 .. c.n : f[x] = rx_buf[Advance(rx_out, x - 1)]
    BY <1>3, <1>5, RingFirst
  <2>2. ASSUME NEW x \in 1 .. c.n
        PROVE  Advance(rx_out, x - 1) = rx_out + x - 1
    <3>1. x - 1 \in 0 .. BUF_LEN
      BY <1>1, <1>3, Lengths DEF Slots
    <3>2. Advance(rx_out, x - 1) = IF rx_out + (x - 1) < BUF_LEN THEN rx_out + (x - 1) ELSE rx_out + (x - 1) - BUF_LEN
      BY <1>3, <3>1, AdvanceValue
    <3> QED
      BY <1>1, <1>3, <3>2, Lengths DEF Slots
  <2>3. f = [x \in 1 .. c.n |-> f[x]]
    BY <2>1, LenProperties
  <2> HIDE DEF f
  <2>4. f = b
    BY <2>1, <2>2, <2>3
  <2> QED
    BY <2>4 DEF ReadCopy, f
<1>8. c'.call = "read" /\ c'.at = "publish" /\ c'.n = c.n
  BY <1>1 DEF ReadCopy, CallState
<1>9. RxBegin' = Advance(rx_out, c.n)
  BY <1>4, <1>8 DEF RxBegin
<1>10. RxQueue = r \o rxFIFO /\ RxQueue' = t \o rxFIFO
  <2>1. Ring(rx_buf, RxBegin, rx_in)' = t
    BY <1>4, <1>9
  <2> QED
    BY <1>2, <1>4, <2>1 DEF RxQueue
<1> HIDE DEF r, t
<1>11. c.n \in 0 .. Len(r)
  BY <1>3, <1>5
<1>12. First(r \o rxFIFO, c.n) = First(r, c.n) /\ After(r \o rxFIFO, c.n) = After(r, c.n) \o rxFIFO
  BY <1>3, <1>11, CutFirstPart
<1>13. buffer' = Rx!First(RxQueue, c.n) /\ RxQueue' = Rx!After(RxQueue, c.n)
  BY <1>6, <1>7, <1>10, <1>12 DEF First, After, Rx!First, Rx!After
<1>14. c.n \in 1 .. Len(RxQueue)
  <2>1. Len(RxQueue) = Len(r) + Len(rxFIFO)
    BY <1>3, <1>10, ConcatProperties
  <2> QED
    BY <1>1, <1>3, <2>1
<1> QED
  BY <1>4, <1>13, <1>14 DEF Rx!Deliver, RxQueue

LEMMA RxPublish ==
  ASSUME Inv, ReadPublish
  PROVE  Rx!Use
<1>1. /\ c \in CallState /\ c.at = "publish" /\ c.call = "read"
      /\ UNCHANGED <<rx_in, rx_buf, rxFIFO, typing>>
      /\ rx_out' = Advance(rx_out, c.n) /\ buffer' = <<>>
  BY DEF Inv, CallOK, ReadPublish, At, host, fifos
<1>2. c'.at # "publish"
  BY <1>1 DEF ReadPublish, CallState
<1>3. RxBegin = Advance(rx_out, c.n) /\ RxBegin' = rx_out'
  BY <1>1, <1>2 DEF RxBegin
<1>4. Ring(rx_buf, RxBegin, rx_in)' = Ring(rx_buf, RxBegin, rx_in)
  BY <1>1, <1>3
<1> QED
  BY <1>1, <1>4 DEF Rx!Use

\* The handler moves a byte within the channel.
LEMMA RxReceive ==
  ASSUME Inv, ReceiveChar
  PROVE  UNCHANGED Rx!vars
<1> DEFINE r == Ring(rx_buf, RxBegin, rx_in)
           h == <<Head(rxFIFO)>>
<1>1. /\ rxFIFO \in Seq(Byte) /\ rxFIFO # <<>>
      /\ rxFIFO' = Tail(rxFIFO)
      /\ Used(rx_in, rx_out) + 1 < BUF_LEN
      /\ \A out \in Slots : Used(rx_in, out) + 1 < BUF_LEN =>
           Ring(rx_buf', out, rx_in') = Ring(rx_buf, out, rx_in) \o h
  BY Received
<1>2. /\ RxBegin \in Slots /\ r \in Seq(Byte)
      /\ Used(rx_in, rx_out) \in Nat /\ Used(rx_in, RxBegin) \in Nat
      /\ Used(rx_in, RxBegin) <= Used(rx_in, rx_out)
  BY RxTypes
<1>3. UNCHANGED <<rx_out, typing, buffer, c>>
  BY DEF ReceiveChar, host
<1>4. RxBegin' = RxBegin
  BY <1>3 DEF RxBegin
<1>5. Used(rx_in, RxBegin) + 1 < BUF_LEN
  BY <1>1, <1>2, Lengths
<1>6. Ring(rx_buf, RxBegin, rx_in)' = r \o h
  BY <1>1, <1>2, <1>4, <1>5
<1>7. h \in Seq(Byte) /\ Tail(rxFIFO) \in Seq(Byte) /\ h \o Tail(rxFIFO) = rxFIFO
  BY <1>1, HeadAndTail
<1> HIDE DEF r, h
<1>8. (r \o h) \o Tail(rxFIFO) = r \o (h \o Tail(rxFIFO))
  BY <1>2, <1>7, ConcatAssociative
<1>9. RxQueue' = (r \o h) \o Tail(rxFIFO) /\ RxQueue = r \o rxFIFO
  BY <1>1, <1>6 DEF RxQueue, r
<1>10. RxQueue' = RxQueue
  BY <1>7, <1>8, <1>9
<1> QED
  BY <1>3, <1>10 DEF Rx!vars, RxQueue

\* A byte typed enters the channel when the device takes it.
LEMMA RxTyped ==
  ASSUME Inv, HostTypes
  PROVE  Rx!Next
<1> DEFINE r == Ring(rx_buf, RxBegin, rx_in)
<1>1. UNCHANGED <<rx_in, rx_out, rx_buf, buffer, c>>
  BY DEF HostTypes, ring
<1>2. RxBegin' = RxBegin
  BY <1>1 DEF RxBegin
<1>3. r' = r
  BY <1>1, <1>2
<1>4. /\ r \in Seq(Byte) /\ Len(r) = Used(rx_in, RxBegin)
      /\ Used(rx_in, RxBegin) \in Nat /\ Used(rx_in, RxBegin) < BUF_LEN
      /\ rxFIFO \in Seq(Byte) /\ Len(rxFIFO) \in Nat
  BY RxTypes
<1>5. CASE typing = <<>>
  <2>1. PICK b \in Byte : typing' = <<b>> /\ rxFIFO' = rxFIFO
    BY <1>5 DEF HostTypes
  <2>2. <<b>> \in Seq(Byte) /\ <<b>> # <<>>
    OBVIOUS
  <2>3. Rx!Offer
    BY <1>1, <1>3, <1>5, <2>1, <2>2 DEF Rx!Offer
  <2> QED
    BY <2>3 DEF Rx!Next
<1>6. CASE typing # <<>>
  <2>1. PICK b \in Byte : typing = <<b>>
    BY <1>6 DEF Inv, FIFOsOK
  <2>2. rxFIFO' = rxFIFO \o typing /\ typing' = <<>> /\ Len(rxFIFO) < FIFO_LEN
    BY <1>6 DEF HostTypes
  <2>3. typing \in Seq(Byte) /\ Len(typing) = 1
    BY <2>1
  <2>4. Rx!First(typing, 1) = typing /\ Rx!After(typing, 1) = <<>>
    <3>1. SubSeq(typing, 1, 1) = typing
      BY <2>3, SubSeqFull
    <3>2. SubSeq(typing, 1 + 1, Len(typing)) = <<>>
      BY <2>3, SubSeqEmpty
    <3> QED
      BY <3>1, <3>2 DEF Rx!First, Rx!After
  <2> HIDE DEF r
  <2>5. RxQueue = r \o rxFIFO /\ RxQueue' = r \o (rxFIFO \o typing)
    BY <1>3, <2>2 DEF RxQueue, r
  <2>6. RxQueue' = RxQueue \o Rx!First(typing, 1)
    <3>1. (r \o rxFIFO) \o typing = r \o (rxFIFO \o typing)
      BY <1>4, <2>3, ConcatAssociative
    <3> QED
      BY <2>4, <2>5, <3>1
  <2>7. Len(RxQueue) + 1 <= BUF_LEN - 1 + FIFO_LEN
    <3>1. Len(RxQueue) = Len(r) + Len(rxFIFO)
      BY <1>4, <2>5, ConcatProperties
    <3> QED
      BY <1>4, <2>2, <3>1, Lengths
  <2>8. 1 \in 1 .. Len(typing) /\ typing' = Rx!After(typing, 1) /\ ~(typing' # <<>>)
    BY <2>2, <2>3, <2>4
  <2>9. Rx!Accept
    BY <1>1, <2>6, <2>7, <2>8 DEF Rx!Accept, RxQueue
  <2> QED
    BY <2>9 DEF Rx!Next
<1> QED
  BY <1>5, <1>6

LEMMA RxInit == Init => Rx!Init
<1> SUFFICES ASSUME Init PROVE Rx!Init
  OBVIOUS
<1>1. Inv
  BY InitInv
<1>2. RxBegin = rx_out /\ rx_in = rx_out /\ rxFIFO = <<>>
  BY DEF Init, Idle, RxBegin
<1>3. Len(Ring(rx_buf, RxBegin, rx_in)) = 0 /\ Ring(rx_buf, RxBegin, rx_in) \in Seq(Byte)
  <2>1. /\ Len(Ring(rx_buf, RxBegin, rx_in)) = Used(rx_in, RxBegin)
        /\ Ring(rx_buf, RxBegin, rx_in) \in Seq(Byte)
        /\ rx_in \in Slots /\ RxBegin \in Slots
    BY <1>1, RxTypes
  <2> QED
    BY <1>2, <2>1, EmptyRing
<1>4. Ring(rx_buf, RxBegin, rx_in) = <<>>
  BY <1>3, EmptySeq
<1>5. RxQueue = <<>>
  BY <1>2, <1>3, <1>4, ConcatEmptySeq DEF RxQueue
<1> QED
  BY <1>5 DEF Init, Rx!Init, RxQueue

LEMMA RxStep ==
  ASSUME Inv, [Next /\ UNCHANGED calls]_<<vars, calls>>
  PROVE  [Rx!Next]_Rx!vars
<1>1. CASE ReadCopy \/ ReadPublish
  BY <1>1, RxCopy, RxPublish DEF Rx!Next
<1>2. CASE WriteCopy \/ WritePublish
  <2>1. /\ UNCHANGED <<rx_in, rx_out, rx_buf, rxFIFO, typing, buffer>>
        /\ c \in CallState /\ c.call = "write"
    BY <1>2 DEF Inv, CallOK, WriteCopy, WritePublish, At, ring, host, fifos
  <2>2. c'.call = c.call
    BY <1>2, <2>1 DEF WriteCopy, WritePublish, CallState
  <2>3. RxBegin' = RxBegin
    BY <2>1, <2>2 DEF RxBegin
  <2> QED
    BY <2>1, <2>3, RxStill
<1>3. CASE StepAside
  <2>1. /\ UNCHANGED <<rx_in, rx_out, rx_buf, rxFIFO, typing, buffer>>
        /\ c.at # "publish" /\ c'.at # "publish"
    BY <1>3 DEF StepAside, ring, host
  <2>2. RxBegin' = RxBegin
    BY <2>1 DEF RxBegin
  <2> QED
    BY <2>1, <2>2, RxStill
<1>4. CASE InCall
  BY <1>1, <1>2, <1>3, <1>4, CallSteps
<1>5. CASE \E r \in calls : Call(r)
  <2>1. /\ UNCHANGED <<rx_in, rx_out, rx_buf, rxFIFO, typing, buffer>>
        /\ c.at = "idle" /\ c'.at = "look"
    BY <1>5 DEF Call, Idle, ring, host, fifos
  <2>2. RxBegin' = RxBegin
    BY <2>1 DEF RxBegin
  <2> QED
    BY <2>1, <2>2, RxStill
<1>6. CASE ReceiveChar
  BY <1>6, RxReceive
<1>7. CASE HostTypes
  BY <1>7, RxTyped
<1>8. CASE \/ \E r \in calls : SetTimeout(r)
           \/ Interrupt \/ ReadControl \/ ReceiveEnd \/ Transmit \/ Timeout \/ HostLooks
           \/ UNCHANGED vars
  <2>1. UNCHANGED <<rx_in, rx_out, rx_buf, rxFIFO, typing, buffer, c>>
    BY <1>8 DEF SetTimeout, Interrupt, ReadControl, ReceiveEnd, Transmit, Timeout,
                HostLooks, vars, ring, host, fifos
  <2>2. RxBegin' = RxBegin
    BY <2>1 DEF RxBegin
  <2> QED
    BY <2>1, <2>2, RxStill
<1> QED
  BY <1>4, <1>5, <1>6, <1>7, <1>8 DEF Next, Handler

\* What the host types comes to the program in order, no byte lost, doubled
\* or made up, for any lengths and any calls: the handler leaves in the device
\* what it has no place for, and read frees a place only after its copy.
THEOREM RxImplements == Spec => RxIsChannel
<1>1. Inv /\ [Next /\ UNCHANGED calls]_<<vars, calls>> => [Rx!Next]_Rx!vars
  BY RxStep
<1> QED
  BY AlwaysInv, RxInit, <1>1, PTL DEF Spec, RxIsChannel, Rx!Spec

-----------------------------------------------------------------------------
(* A read that fails. *)

\* While read waits it holds what rx_in was when it found the buffer empty, as
\* only read itself moves rx_out.  It turns the interrupt on if it has a byte.
WaitOK == c.call = "read" => /\ c.at \in {"wait", "check"} => c.in = rx_out
                             /\ c.at \in {"publish", "mask", "enable"} => c.done > 0

LEMMA NothingStored ==
  ASSUME NEW in \in Slots, NEW out \in Slots, NEW m \in Nat, m > 0,
         ~(AtMost(Stored(in, out), m) > 0)
  PROVE  in = out
BY Lengths DEF AtMost, Stored, Slots

LEMMA WaitReadLook ==
  ASSUME Inv, ReadLook
  PROVE  /\ WaitOK'
         /\ c'.at = "idle" => c.space = 0 \/ rx_in = rx_out
<1> DEFINE n == AtMost(Stored(rx_in, rx_out), c.space)
           r == [c EXCEPT !.in = rx_in, !.n = n]
<1>1. /\ c \in CallState /\ c.space \in Nat /\ rx_in \in Slots /\ rx_out \in Slots
      /\ rx_out' = rx_out
  BY DEF Inv, RingsOK, CallOK, ReadLook, CallState, ring
<1>2. ~(n > 0) => c.space = 0 \/ rx_in = rx_out
  BY <1>1, NothingStored
<1>3. \/ c' = [r EXCEPT !.at = "copy"]
      \/ c.done > 0 /\ c' = [r EXCEPT !.at = "mask"]
      \/ ~(n > 0) /\ c.space # 0 /\ c' = [r EXCEPT !.at = "wait"]
      \/ ~(n > 0) /\ Return(r)
  BY DEF ReadLook, Stored
<1> HIDE DEF n
<1>4. CASE c' = [r EXCEPT !.at = "copy"]
  <2>1. c'.at = "copy"
    BY <1>1, <1>4 DEF CallState
  <2> QED
    BY <2>1 DEF WaitOK
<1>5. CASE c.done > 0 /\ c' = [r EXCEPT !.at = "mask"]
  <2>1. c'.at = "mask" /\ c'.done > 0
    BY <1>1, <1>5 DEF CallState
  <2> QED
    BY <2>1 DEF WaitOK
<1>6. CASE ~(n > 0) /\ c.space # 0 /\ c' = [r EXCEPT !.at = "wait"]
  <2>1. c'.at = "wait" /\ c'.in = rx_in
    BY <1>1, <1>6 DEF CallState
  <2> QED
    BY <1>1, <1>2, <1>6, <2>1 DEF WaitOK
<1>7. CASE ~(n > 0) /\ Return(r)
  <2>1. c'.at = "idle"
    <3> HIDE DEF r
    <3> QED
      BY <1>7, ReturnsIdle
  <2> QED
    BY <1>2, <1>7, <2>1 DEF WaitOK
<1> QED
  BY <1>3, <1>4, <1>6, <1>7, <1>5

\* A step of the call other than ReadLook does not come to the wait, or leaves
\* what it holds as it is.
LEMMA WaitInCall ==
  ASSUME Inv, WaitOK, InCall
  PROVE  WaitOK'
<1>1. c \in CallState
  BY DEF Inv, CallOK
<1>2. CASE ReadLook
  BY <1>2, WaitReadLook
<1>3. CASE ReadWait
  <2>1. c' = [c EXCEPT !.at = "check"] /\ c.at = "wait" /\ c.call = "read" /\ rx_out' = rx_out
    BY <1>3 DEF ReadWait, Goto, At, ring
  <2>2. c'.in = c.in
    BY <1>1, <2>1 DEF CallState
  <2> QED
    BY <2>1, <2>2 DEF WaitOK
<1>4. CASE ReadCheck \/ ReadCopy \/ ReadPublish
  <2>1. CASE ReadCheck
    <3>1. CASE Return(c)
      BY <3>1, ReturnsIdle DEF WaitOK
    <3>2. CASE Goto("look")
      <4>1. c'.at = "look"
        BY <1>1, <3>2 DEF Goto, CallState
      <4> QED
        BY <4>1 DEF WaitOK
    <3> QED
      BY <2>1, <3>1, <3>2 DEF ReadCheck
  <2>2. CASE ReadCopy
    <3> DEFINE d == c.done + c.n
               left == c.space - c.n
    <3>1. c' = [c EXCEPT !.at = "publish", !.space = left, !.done = d] /\ d > 0
      BY <1>1, <2>2 DEF ReadCopy, Inv, ReadOK, At, CallState
    <3> HIDE DEF d, left
    <3>2. c'.at = "publish" /\ c'.done = d
      BY <1>1, <3>1 DEF CallState
    <3> QED
      BY <3>1, <3>2 DEF WaitOK
  <2>3. CASE ReadPublish
    <3> DEFINE label == IF c.space > 0 THEN "look" ELSE "mask"
    <3>1. /\ c' = [c EXCEPT !.at = label, !.in = 0, !.n = 0] /\ c.done > 0
          /\ label \in {"look", "mask"}
      BY <2>3 DEF ReadPublish, WaitOK, At
    <3> HIDE DEF label
    <3>2. c'.at = label /\ c'.done = c.done
      BY <1>1, <3>1 DEF CallState
    <3> QED
      BY <3>1, <3>2 DEF WaitOK
  <2> QED
    BY <1>4, <2>1, <2>2, <2>3
<1>5. CASE WriteLook \/ WriteCopy \/ WritePublish \/ WriteWait \/ WriteCheck
  <2>1. CASE Return(c)
    BY <2>1, ReturnsIdle DEF WaitOK
  <2>2. CASE ~Return(c)
    <3>1. c'.call = "write"
      BY <1>1, <1>5, <2>2
      DEF WriteLook, WriteCopy, WritePublish, WriteWait, WriteCheck, Goto, At, CallState
    <3> QED
      BY <3>1 DEF WaitOK
  <2> QED
    BY <2>1, <2>2
<1>6. CASE \E p \in {<<"write", "WE">>, <<"read", "RE">>} : EnableRead(p[1]) \/ EnableWrite(p[1], p[2])
  <2>1. PICK p \in {<<"write", "WE">>, <<"read", "RE">>} : EnableRead(p[1]) \/ EnableWrite(p[1], p[2])
    BY <1>6
  <2>2. CASE Return(c)
    BY <2>2, ReturnsIdle DEF WaitOK
  <2>3. CASE EnableRead(p[1])
    <3>1. c'.at = "enable" /\ c'.done = c.done /\ c'.call = c.call /\ c.at = "mask"
      BY <1>1, <2>3 DEF EnableRead, At, CallState
    <3> QED
      BY <3>1 DEF WaitOK
  <2>4. CASE EnableWrite(p[1], p[2]) /\ ~Return(c)
    <3>1. p[1] = "write" /\ c.call = "write" /\ c' = [c EXCEPT !.at = "wait"]
      BY <2>4 DEF EnableWrite, At, Goto
    <3>2. c'.call = "write"
      BY <1>1, <3>1 DEF CallState
    <3> QED
      BY <3>2 DEF WaitOK
  <2> QED
    BY <2>1, <2>2, <2>3, <2>4
<1>7. CASE Drain
  <2>1. \E result \in Results : c' = Idle(result)
    BY <1>7 DEF Drain, Results
  <2> QED
    BY <2>1, BackIdle DEF WaitOK
<1> QED
  BY <1>2, <1>3, <1>4, <1>5, <1>6, <1>7 DEF InCall

LEMMA WaitStep ==
  ASSUME Inv, WaitOK, [Next /\ UNCHANGED calls]_<<vars, calls>>
  PROVE  WaitOK'
<1>1. CASE UNCHANGED <<vars, calls>>
  BY <1>1 DEF vars, ring, WaitOK
<1>2. CASE InCall
  BY <1>2, WaitInCall
<1>3. CASE \E r \in calls : Call(r) \/ SetTimeout(r)
  <2>1. PICK r \in calls : Call(r) \/ SetTimeout(r)
    BY <1>3
  <2>2. CASE Call(r)
    <3>1. Idle("none") \in CallState
      BY BackIdle DEF Results
    <3>2. c'.at = "look"
      BY <2>2, <3>1 DEF Call, CallState
    <3> QED
      BY <3>2 DEF WaitOK
  <2>3. CASE SetTimeout(r)
    BY <2>3 DEF SetTimeout, ring, WaitOK
  <2> QED
    BY <2>1, <2>2, <2>3
<1>4. CASE Interrupt \/ Handler \/ Timeout \/ HostLooks \/ HostTypes
  <2>1. UNCHANGED <<c, rx_out>>
    BY <1>4 DEF Interrupt, Handler, ReadControl, ReceiveChar, ReceiveEnd, Transmit, Timeout,
                HostLooks, HostTypes, ring
  <2> QED
    BY <2>1 DEF WaitOK
<1> QED
  BY <1>1, <1>2, <1>3, <1>4 DEF Next

\* Only ReadLook and ReadCheck let a read come back with nothing.
LEMMA FailureStep ==
  ASSUME Inv, WaitOK, Next, Waiting("read"), c.space > 0,
         c'.at = "idle", c'.result # "count"
  PROVE  rx_in = rx_out
<1>1. c \in CallState /\ c.at # "idle" /\ c.call = "read" /\ c' # c
  BY DEF Inv, CallOK, Waiting
<1>2. InCall
  BY <1>1 DEF Next, Call, SetTimeout, Interrupt, Handler, ReadControl, ReceiveChar, ReceiveEnd,
              Transmit, Timeout, HostLooks, HostTypes
<1>3. CASE ReadLook
  BY <1>1, <1>3, WaitReadLook
<1>4. CASE ReadCheck
  <2>1. c'.at = "look" \/ c.in = rx_in
    BY <1>1, <1>4 DEF ReadCheck, Goto, CallState
  <2>2. c.in = rx_out
    BY <1>4 DEF ReadCheck, At, WaitOK
  <2> QED
    BY <2>1, <2>2
<1>5. CASE ReadCopy \/ ReadPublish \/ ReadWait
  <2>1. c'.at \in {"publish", "look", "mask", "check"}
    BY <1>1, <1>5 DEF ReadCopy, ReadPublish, ReadWait, Goto, CallState
  <2> QED
    BY <2>1
<1>6. CASE EnableRead("read")
  <2>1. c'.at = "enable"
    BY <1>1, <1>6 DEF EnableRead, CallState
  <2> QED
    BY <2>1
<1>7. CASE EnableWrite("read", "RE")
  <2>1. c.done > 0 /\ Return(c)
    BY <1>7 DEF EnableWrite, At, WaitOK
  <2>2. c'.result = "count"
    BY <2>1 DEF Return, Idle
  <2> QED
    BY <2>2
<1>8. (\E p \in {<<"write", "WE">>, <<"read", "RE">>} : EnableRead(p[1]) \/ EnableWrite(p[1], p[2])) =>
        EnableRead("read") \/ EnableWrite("read", "RE")
  BY <1>1 DEF EnableRead, EnableWrite, At
<1>9. ~(WriteLook \/ WriteCopy \/ WritePublish \/ WriteWait \/ WriteCheck \/ Drain)
  BY <1>1 DEF WriteLook, WriteCopy, WritePublish, WriteWait, WriteCheck, Drain, At
<1> QED
  BY <1>2, <1>3, <1>4, <1>5, <1>6, <1>7, <1>8, <1>9 DEF InCall

\* A read that fails has found the buffer empty, for every length of it, and
\* however the handler, the alarm and the host come between its steps: what
\* ends the wait may be the timeout, but the buffer is asked for afterwards.
THEOREM FailedReads == Spec => FailedReadsLeaveNothing
<1>1. Init => WaitOK
  BY DEF Init, Idle, WaitOK
<1>2. Inv /\ WaitOK /\ [Next /\ UNCHANGED calls]_<<vars, calls>> => WaitOK'
  BY WaitStep
<1>3. Inv /\ WaitOK /\ [Next /\ UNCHANGED calls]_<<vars, calls>> =>
        [Waiting("read") /\ c.space > 0 /\ c'.at = "idle" /\ c'.result # "count" =>
           rx_in = rx_out]_vars
  BY FailureStep
<1> QED
  BY AlwaysInv, <1>1, <1>2, <1>3, PTL DEF Spec, FailedReadsLeaveNothing
=============================================================================
