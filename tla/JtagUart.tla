------------------------------- MODULE JtagUart -------------------------------
(***************************************************************************)
(* The interrupt driven driver of the JTAG UART, through which the         *)
(* programs print (altera_avalon_jtag_uart_*.c), with the device and the   *)
(* host behind it.  One thread calls the driver.  Interrupts come between  *)
(* any two of its steps, unless it has masked them, and are not nested:    *)
(* the program stands still until the handler returns.  The host and the   *)
(* device go on all the time.                                              *)
(***************************************************************************)
EXTENDS Integers, Sequences

CONSTANTS Byte,       \* the bytes, which are numbers
          BUF_LEN,    \* the length of the two ring buffers
          FIFO_LEN,   \* the length of the two FIFOs of the device
          Threshold,  \* WI asks for more when no more bytes are left than this
          INT_MAX,    \* the largest int
          Programs    \* for each program, the set of the calls that it makes

ASSUME LengthAssumption ==
  /\ BUF_LEN \in Nat /\ BUF_LEN > 1
  /\ FIFO_LEN \in Nat /\ FIFO_LEN > 0
  /\ Threshold \in 0 .. FIFO_LEN - 1
ASSUME IntAssumption == INT_MAX \in Nat /\ INT_MAX > 3
ASSUME ByteAssumption == 0 \in Byte

\* A program makes calls of these kinds; only a write has bytes to hand over.
ASSUME CallAssumption ==
  \A p \in Programs : \A r \in p :
    /\ r \in [call : {"write", "read", "close", "ioctl"}, nonblock : BOOLEAN,
              count : Seq(Byte), space : Nat, arg : Int]
    /\ r.call # "write" => r.count = <<>>

VARIABLES
  \* The state of the driver, sp.
  timeout, irq_enable, host_inactive, rx_in, rx_out, tx_in, tx_out, rx_buf, tx_buf,
  \* The device: enabled interrupts, FIFOs, the activity bit.
  enabled, rxFIFO, txFIFO, AC,
  \* The host: what it wants to type, and the byte it got last.
  typing, printed,
  \* The program: the call it is in, and what read has just copied.
  c, buffer,
  masked,  \* interrupts are disabled
  isr,     \* where the interrupt handler is
  calls    \* which of the programs this is

ring == <<rx_in, rx_out, tx_in, tx_out, rx_buf, tx_buf>>
host == <<typing, printed>>
fifos == <<rxFIFO, txFIFO, AC>>
switches == <<irq_enable, enabled>>
clock == <<timeout, host_inactive>>
vars == <<ring, host, fifos, switches, clock, c, buffer, masked, isr>>

Slots == 0 .. BUF_LEN - 1
Advance(x, m) == (x + m) % BUF_LEN
Ring(buf, out, in) == [x \in 1 .. (in - out) % BUF_LEN |-> buf[Advance(out, x - 1)]]
First(s, m) == SubSeq(s, 1, m)
After(s, m) == SubSeq(s, m + 1, Len(s))

\* As many as there are, but no more than are asked for.
AtMost(n, m) == IF n > m THEN m ELSE n

\* memcpy of a sequence to a place of a ring buffer.
Copied(buf, at, s) ==
  [x \in Slots |-> IF x \in at .. at + Len(s) - 1 THEN s[x - at + 1] ELSE buf[x]]

\* The handler is not running.
Returned == [at |-> "idle", wi |-> FALSE, wspace |-> 0, avail |-> FALSE]

\* No call, but the result of the last one.
Idle(result) ==
  [at |-> "idle", call |-> "none", nonblock |-> FALSE, count |-> <<>>, space |-> 0,
   in |-> 0, out |-> 0, n |-> 0, done |-> 0, reg |-> {}, result |-> result]

Init ==
  /\ irq_enable = {"RE"} /\ enabled = {"RE"}
  /\ timeout = 2 /\ host_inactive = 0
  /\ rx_in = 0 /\ rx_out = 0 /\ tx_in = 0 /\ tx_out = 0
  /\ rx_buf = [x \in Slots |-> 0] /\ tx_buf = rx_buf
  /\ rxFIFO = <<>> /\ txFIFO = <<>> /\ AC = FALSE
  /\ typing = <<>> /\ printed = <<>> /\ buffer = <<>>
  /\ c = Idle("none")
  /\ masked = FALSE
  /\ isr = Returned
  /\ calls \in Programs

-----------------------------------------------------------------------------
(* The program.  A step goes from one access of shared state to the next.  *)

At(call, label) == isr.at = "idle" /\ c.call = call /\ c.at = label
Goto(label) == c' = [c EXCEPT !.at = label]

Call(r) ==
  /\ isr.at = "idle" /\ c.at = "idle" /\ r.call # "ioctl"
  /\ c' = [Idle("none") EXCEPT !.at = "look", !.call = r.call, !.nonblock = r.nonblock,
                               !.count = r.count, !.space = r.space]
  /\ UNCHANGED <<ring, host, fifos, switches, clock, buffer, masked, isr>>

\* What read and write return.
Return(r) ==
  c' = Idle(IF r.done > 0 THEN "count" ELSE IF r.nonblock THEN "EWOULDBLOCK" ELSE "EIO")

\* Mutant: the slot that tells a full buffer from an empty one is used.
WriteRoomFull(in, out) == IF in < out THEN out - in ELSE BUF_LEN - in

WriteRoom(in, out) ==
  IF in < out THEN out - 1 - in
  ELSE IF out > 0 THEN BUF_LEN - in ELSE BUF_LEN - 1 - in

WriteLook ==
  /\ At("write", "look")
  /\ LET n == IF c.count = <<>> THEN 0 ELSE AtMost(WriteRoom(tx_in, tx_out), Len(c.count))
     IN  c' = [c EXCEPT !.at = IF n = 0 THEN "mask" ELSE "copy",
                        !.in = tx_in, !.n = n,
                        !.out = IF c.count = <<>> THEN @ ELSE tx_out]
  /\ UNCHANGED <<ring, host, fifos, switches, clock, buffer, masked, isr>>

WriteCopy ==
  /\ At("write", "copy")
  /\ tx_buf' = Copied(tx_buf, c.in, First(c.count, c.n))
  /\ c' = [c EXCEPT !.at = "publish", !.count = After(@, c.n), !.done = @ + c.n]
  /\ UNCHANGED <<rx_in, rx_out, tx_in, tx_out, rx_buf,
                 host, fifos, switches, clock, buffer, masked, isr>>

WritePublish ==
  /\ At("write", "publish")
  /\ tx_in' = Advance(c.in, c.n)
  /\ c' = [c EXCEPT !.at = "look", !.n = 0]
  /\ UNCHANGED <<rx_in, rx_out, tx_out, rx_buf, tx_buf,
                 host, fifos, switches, clock, buffer, masked, isr>>

\* The critical section: read the enable bits, then write them.
EnableRead(call) ==
  /\ At(call, "mask")
  /\ masked' = TRUE
  /\ c' = [c EXCEPT !.at = "enable", !.reg = irq_enable]
  /\ UNCHANGED <<ring, host, fifos, switches, clock, buffer, isr>>

EnableWrite(call, bit) ==
  /\ At(call, "enable")
  /\ irq_enable' = c.reg \cup {bit} /\ enabled' = c.reg \cup {bit}
  /\ masked' = FALSE
  /\ IF call = "write" /\ c.count # <<>> /\ ~c.nonblock THEN Goto("wait") ELSE Return(c)
  /\ UNCHANGED <<ring, host, fifos, clock, buffer, isr>>

\* Mutant: the loop does not look at the host.
waitsForEver == c.out = tx_out

writeWaits == c.out = tx_out /\ host_inactive < timeout

WriteWait ==
  /\ At("write", "wait") /\ ~writeWaits
  /\ Goto("check")
  /\ UNCHANGED <<ring, host, fifos, switches, clock, buffer, masked, isr>>

WriteCheck ==
  /\ At("write", "check")
  /\ IF host_inactive # 0 THEN Return(c) ELSE Goto("look")
  /\ UNCHANGED <<ring, host, fifos, switches, clock, buffer, masked, isr>>

\* A read of no bytes finds none, and does not wait for any.
ReadLook ==
  /\ At("read", "look")
  /\ LET stored == IF rx_in >= rx_out THEN rx_in - rx_out ELSE BUF_LEN - rx_out
         n == AtMost(stored, c.space)
         r == [c EXCEPT !.in = rx_in, !.n = n]
     IN  IF n > 0 THEN c' = [r EXCEPT !.at = "copy"]
         ELSE IF c.done > 0 THEN c' = [r EXCEPT !.at = "mask"]
         ELSE IF c.nonblock \/ c.space = 0 THEN Return(r)
         ELSE c' = [r EXCEPT !.at = "wait"]
  /\ UNCHANGED <<ring, host, fifos, switches, clock, buffer, masked, isr>>

ReadCopy ==
  /\ At("read", "copy")
  /\ buffer' = [x \in 1 .. c.n |-> rx_buf[rx_out + x - 1]]
  /\ c' = [c EXCEPT !.at = "publish", !.space = @ - c.n, !.done = @ + c.n]
  /\ UNCHANGED <<ring, host, fifos, switches, clock, masked, isr>>

ReadPublish ==
  /\ At("read", "publish")
  /\ rx_out' = Advance(rx_out, c.n)
  /\ c' = [c EXCEPT !.at = IF c.space > 0 THEN "look" ELSE "mask", !.in = 0, !.n = 0]
  /\ buffer' = <<>>
  /\ UNCHANGED <<rx_in, tx_in, tx_out, rx_buf, tx_buf,
                 host, fifos, switches, clock, masked, isr>>

ReadWait ==
  /\ At("read", "wait")
  /\ c.in # rx_in \/ host_inactive >= timeout
  /\ Goto("check")
  /\ UNCHANGED <<ring, host, fifos, switches, clock, buffer, masked, isr>>

\* Mutant: the host is asked for, as in write, and not the buffer.
ReadCheckHost ==
  /\ At("read", "check")
  /\ IF host_inactive # 0 THEN Return(c) ELSE Goto("look")
  /\ UNCHANGED <<ring, host, fifos, switches, clock, buffer, masked, isr>>

ReadCheck ==
  /\ At("read", "check")
  /\ IF c.in = rx_in THEN Return(c) ELSE Goto("look")
  /\ UNCHANGED <<ring, host, fifos, switches, clock, buffer, masked, isr>>

Drain ==
  /\ At("close", "look")
  /\ IF tx_out # tx_in /\ host_inactive < timeout
     THEN c.nonblock /\ c' = Idle("EWOULDBLOCK")
     ELSE c' = Idle("closed")
  /\ UNCHANGED <<ring, host, fifos, switches, clock, buffer, masked, isr>>

\* TIOCSTIMEOUT.
SetTimeout(r) ==
  /\ isr.at = "idle" /\ c.at = "idle" /\ r.call = "ioctl"
  /\ timeout' = IF r.arg >= 2 /\ r.arg < INT_MAX THEN r.arg ELSE INT_MAX - 1
  /\ UNCHANGED <<ring, host, fifos, switches, host_inactive, c, buffer, masked, isr>>

\* TIOCGCONNECTED.
Connected == host_inactive < timeout

InCall ==
  \/ WriteLook \/ WriteCopy \/ WritePublish \/ WriteWait \/ WriteCheck
  \/ ReadLook \/ ReadCopy \/ ReadPublish \/ ReadWait \/ ReadCheck
  \/ \E p \in {<<"write", "WE">>, <<"read", "RE">>} : EnableRead(p[1]) \/ EnableWrite(p[1], p[2])
  \/ Drain

-----------------------------------------------------------------------------
(* The interrupt handlers. *)

RI == "RE" \in enabled /\ rxFIFO # <<>>
WI == "WE" \in enabled /\ Len(txFIFO) <= Threshold

Interrupt ==
  /\ isr.at = "idle" /\ ~masked /\ (RI \/ WI)
  /\ isr' = [isr EXCEPT !.at = "control"]
  /\ UNCHANGED <<ring, host, fifos, switches, clock, c, buffer, masked>>

ReadControl ==
  /\ isr.at = "control"
  /\ isr' = IF RI \/ WI
            THEN [at |-> IF RI THEN "rx" ELSE "tx", wi |-> WI,
                  wspace |-> FIFO_LEN - Len(txFIFO), avail |-> TRUE]
            ELSE Returned
  /\ UNCHANGED <<ring, host, fifos, switches, clock, c, buffer, masked>>

\* Mutant: a character is read when there is no place for it.
rxFullNever == FALSE

rxFull == Advance(rx_in, 1) = rx_out

ReceiveChar ==
  /\ isr.at = "rx" /\ ~rxFull /\ rxFIFO # <<>>
  /\ rxFIFO' = Tail(rxFIFO)
  /\ rx_buf' = [rx_buf EXCEPT ![rx_in] = Head(rxFIFO)]
  /\ rx_in' = Advance(rx_in, 1)
  /\ isr' = [isr EXCEPT !.avail = Tail(rxFIFO) # <<>>]
  /\ UNCHANGED <<rx_out, tx_in, tx_out, tx_buf, host, txFIFO, AC, switches, clock, c, buffer, masked>>

\* The loop of the handler ends, with no place or with no character.
ReceiveEnd ==
  /\ isr.at = "rx" /\ (rxFull \/ rxFIFO = <<>>)
  /\ LET on == IF rxFull /\ isr.avail THEN irq_enable \ {"RE"} ELSE irq_enable
     IN  irq_enable' = on /\ enabled' = on
  /\ isr' = IF isr.wi THEN [isr EXCEPT !.at = "tx"] ELSE [Returned EXCEPT !.at = "control"]
  /\ UNCHANGED <<ring, host, fifos, clock, c, buffer, masked>>

\* Mutant: the interrupt is turned off whenever it was served.
txDoneAlways(space, left) == TRUE

\* The device has space, but there is nothing to send.
txDone(space, left) == space > 0

Transmit ==
  /\ isr.at = "tx"
  /\ LET stored == Ring(tx_buf, tx_out, tx_in)
         m == AtMost(isr.wspace, Len(stored))
         on == IF txDone(isr.wspace - m, Len(stored) - m) THEN irq_enable \ {"WE"} ELSE irq_enable
     IN  /\ txFIFO' = txFIFO \o First(stored, m)
         /\ tx_out' = Advance(tx_out, m)
         /\ irq_enable' = on /\ enabled' = on
  /\ isr' = [Returned EXCEPT !.at = "control"]
  /\ UNCHANGED <<rx_in, rx_out, tx_in, rx_buf, tx_buf, host, rxFIFO, AC, clock, c, buffer, masked>>

\* Mutant: a host that comes back does not count as seen.
TimeoutNoReset ==
  /\ isr.at = "idle" /\ ~masked
  /\ AC' = FALSE
  /\ IF AC THEN enabled' = irq_enable /\ UNCHANGED host_inactive
     ELSE /\ host_inactive' = IF host_inactive < INT_MAX - 2 THEN host_inactive + 1 ELSE host_inactive
          /\ UNCHANGED enabled
  /\ UNCHANGED <<ring, host, rxFIFO, txFIFO, irq_enable, timeout, c, buffer, masked, isr>>

\* The alarm that looks every second whether the host was there.
Timeout ==
  /\ isr.at = "idle" /\ ~masked
  /\ AC' = FALSE
  /\ IF AC THEN host_inactive' = 0 /\ enabled' = irq_enable
     ELSE /\ host_inactive' = IF host_inactive < INT_MAX - 2 THEN host_inactive + 1 ELSE host_inactive
          /\ UNCHANGED enabled
  /\ UNCHANGED <<ring, host, rxFIFO, txFIFO, irq_enable, timeout, c, buffer, masked, isr>>

-----------------------------------------------------------------------------
(* The host, which takes what there is when it looks. *)

HostLooks ==
  /\ AC' = TRUE
  /\ IF txFIFO # <<>> THEN txFIFO' = Tail(txFIFO) /\ printed' = First(txFIFO, 1)
     ELSE UNCHANGED <<txFIFO, printed>>
  /\ UNCHANGED <<ring, typing, rxFIFO, switches, clock, c, buffer, masked, isr>>

HostTypes ==
  /\ \E call \in calls : call.call = "read"
  /\ \/ /\ typing = <<>>
        /\ \E b \in Byte : typing' = <<b>>
        /\ UNCHANGED <<rxFIFO, AC>>
     \/ /\ typing # <<>> /\ Len(rxFIFO) < FIFO_LEN
        /\ rxFIFO' = rxFIFO \o typing
        /\ typing' = <<>>
        /\ AC' = TRUE
  /\ UNCHANGED <<ring, printed, txFIFO, switches, clock, c, buffer, masked, isr>>

Handler == ReadControl \/ ReceiveChar \/ ReceiveEnd \/ Transmit

Next == \/ \E r \in calls : Call(r) \/ SetTimeout(r)
        \/ InCall \/ Interrupt \/ Handler \/ Timeout \/ HostLooks \/ HostTypes

Spec == Init /\ [][Next /\ UNCHANGED calls]_<<vars, calls>>

\* The processor does not stop, interrupts do not take all its time, and a
\* request for one is not ignored for ever.  Nothing is assumed of the host.
Fairness == /\ WF_vars(Handler) /\ SF_vars(InCall)
            /\ SF_vars(Interrupt) /\ SF_vars(Timeout)

FairSpec == Spec /\ Fairness

-----------------------------------------------------------------------------
\* Where the bytes end that write has copied, and begin that read has not.
TxEnd == IF c.call = "write" /\ c.at = "publish" THEN Advance(c.in, c.n) ELSE tx_in
RxBegin == IF c.call = "read" /\ c.at = "publish" THEN Advance(rx_out, c.n) ELSE rx_out

Tx == INSTANCE ByteChannel
  WITH Capacity <- BUF_LEN - 1 + FIFO_LEN, calling <- c.call = "write",
       offered <- c.count, queue <- txFIFO \o Ring(tx_buf, tx_out, TxEnd), delivered <- printed

Rx == INSTANCE ByteChannel
  WITH Capacity <- BUF_LEN - 1 + FIFO_LEN, calling <- typing # <<>>,
       offered <- typing, queue <- Ring(rx_buf, RxBegin, rx_in) \o rxFIFO, delivered <- buffer

\* What the program writes comes to the host, in order, no byte lost or
\* doubled or made up, although write and the handler share the ring buffer
\* with no lock, and although a write may give up in the middle.
TxIsChannel == Tx!Spec

\* The same for what the host types: when the buffer is full the handler
\* leaves the characters in the device.
RxIsChannel == Rx!Spec

\* No lost wake-up: bytes that wait in the buffer have their interrupt turned
\* on, or the write that put them there is still to do so, whatever the
\* handler turns off meanwhile.
SenderAwake ==
  tx_in # tx_out =>
    \/ "WE" \in irq_enable
    \/ c.call = "write" /\ c.at \in {"look", "copy", "publish", "mask", "enable"}

\* A timeout of INT_MAX - 1 is never reached.
NoTimeout == timeout = INT_MAX - 1

Waiting(call) == c.at # "idle" /\ c.call = call

\* A call comes back: write and close even if the host never looks again,
\* unless the timeout was turned off; read once there is a byte for it, or when
\* the host is gone and does not come back.
CallsReturn ==
  /\ \A call \in {"write", "close"} : Waiting(call) ~> ~Waiting(call) \/ NoTimeout
  /\ Waiting("read") /\ rx_in # rx_out ~> ~Waiting("read")
  /\ Waiting("read") /\ ~Connected ~> ~Waiting("read") \/ Connected

\* A blocking write does not give up on a host that is there: once the alarm
\* finds at each of its looks that the host was active, every write hands over
\* all its bytes, however often the host was away before, and although write
\* gives up for any second without the host, long before the timeout.
HostSeenEverySecond == []<>AC /\ <>[][Timeout => AC]_vars
WritesPatient ==
  HostSeenEverySecond =>
    <>[][Waiting("write") /\ ~c.nonblock /\ c'.at = "idle" => c.count = <<>>]_vars

\* A read that asks for bytes and fails leaves none behind: a byte that comes
\* while it waits, or just as the timeout ends the wait, makes it look again.
FailedReadsLeaveNothing ==
  [][Waiting("read") /\ c.space > 0 /\ c'.at = "idle" /\ c'.result # "count" =>
       rx_in = rx_out]_vars

\* Bytes do not stay behind: if the host looks again and again, they come out.
HostKeepsLooking == WF_vars(HostLooks)
BytesComeOut ==
  HostKeepsLooking =>
    <>[](tx_in = tx_out /\ txFIFO = <<>>) \/ []<><<HostLooks /\ txFIFO # <<>> >>_vars
=============================================================================
