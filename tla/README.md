# Verification of the KK inversion accelerator

The repository inverts matrices by the condensation algorithm of
[KK](http://dl.acm.org/citation.cfm?id=803034): a matrix is replaced, again and again,
by the matrix of its 2 x 2 minors (cyclic at the borders), each divided by the
centre that it had one step before. After `n - 1` steps the matrix holds determinants, the step
before it holds the minors of size `n - 1`, and the quotients of the two are the
inverse. The repository has it three times: as a C program for a PC, as a C program for a
Nios II processor, and as an accelerator written in Bluespec behind an Avalon
bus, with a C program that drives it. This directory holds TLA+ models of the accelerator, of the
programs and of the parts of the board support package that they run on which have state worth checking,
the checks TLC makes on small instances and the theorems TLAPS proves for all of them.

## Inventory

| component | source | state | operations |
|---|---|---|---|
| iteration core | `Nios_Accel/Bluespec/bsv/KKIteration.bsv` | three matrices `rX`, `rState`, `rCounter`, `rDivZero` | rules `init`, `iterate`, `countCycles`, `checkDivZero`; methods `putElem`, `start` and five that read |
| bus port | `AvalonSlave.bsv`, `AvalonCommon.bsv` | a request queue of two | `produceRequest`, `waitrequest`, `readdatavalid`, request and response |
| accelerator on the bus | `KKAvalonSlave.bsv` | a bypass FIFO of one request, the port, the core | rules `processWrite`, `processRead`, the connection of port and FIFO |
| queue registers | `Nios_Accel/Verilog/src/FIFO2.v` | two flags, two data registers | enqueue, dequeue, both, clear, reset |
| accelerated program | `.../System/software/KKNios/main.c` | the input, three scratch matrices, loop indices | register access, `the_algorithm` |
| software programs | `PC/main.c`, `Nios/software/KKNios/main.c` | input, a scratchpad of three matrices and their rotating indices, the check product | `the_algorithm`: transfer, iterate, final iteration, identity |
| Avalon master | `AvalonMaster.bsv` | two bypass FIFOs of one entry | `ackReq`, `handleReq`, `handleResp`; in no build (it imports a package the repository does not have) |
| JTAG UART driver | `altera_avalon_jtag_uart_*.c` of the board support package | two ring buffers, the enabled interrupts, how long the host was away, the timeout | `write`, `read`, `close`, `ioctl`, the interrupt handler, the timeout alarm |
| file descriptors | `alt_open.c`, `alt_close.c`, `alt_get_fd.c`, `alt_fd_lock.c`, `alt_io_redirect.c` and others | the pool `alt_fd_list`, the high water mark `alt_max_fd` | redirection, `open`, `close`, `fcntl`, lock and unlock |
| testbenches | `TbKKIteration.bsv`, `mkKKAvalonSlave_tb.v` | a script counter | fixed scripts |

How they interact: the program writes and reads memory addresses; the bus holds each
request on the wires until `waitrequest` is low; the port queues it; the connection rule
moves it into the bypass FIFO; one of the two handlers calls the core and, for a read, puts
the answer on the wires in the same cycle. All rules run in one clock domain. In a
cycle every ready rule fires unless it conflicts with one that is more urgent.

What is hard in it:

* **Interleaving.** `processWrite` (it contains `putElem` and `start`) and the rules `init` and `iterate`
  read and write the same registers, so they cannot fire in the same cycle, and the source
  states no urgency. Which one wins is decided when the hardware is compiled. In one build a write that
  comes into a run waits for its end, and everything queued behind it waits too; in the
  other it steals the cycle of an iteration.
* **Ordering.** Three buffers rotate by `rState % 3`, the results are found by `n % 3`, and requests go
  through two FIFOs, one of which can be passed in no time.
* **Boundaries.** The core does one iteration more than the algorithm needs; the counter and every
  arithmetic result wrap; the queue fills up.
* **Stale state.** No data register has a reset, the division by zero flag is overwritten
  by each iteration, and the input buffer is also a result buffer when `n % 3` is not 0.
* **Liveness.** Runs must end and reads must be answered, or the processor hangs.
* **A driver without locks.** `altera_avalon_jtag_uart_write` fills a ring buffer that the interrupt handler empties; neither masks the
  other, except to change the enabled interrupts. A byte could be overwritten, a wake-up lost, or a write wait for ever for a host that is gone.

What makes each component correct: the core computes the condensation of the matrix that was
in place when a run began, whatever its callers do (if no put comes into the run), its counter and its flag mean
what they are said to mean, and a run ends; the bus side serves every request once, in order, and answers
every read; the queue registers behave as a queue.

The programs print through the descriptors of the HAL, which lead to the JTAG UART driver. The driver keeps the order of the bytes
in both directions and wakes up the device whenever bytes wait; a descriptor that locks a device keeps others from opening it.

## Modules

| module | models | how |
|---|---|---|
| `FixedPoint` | the arithmetic of Bluespec's `FixedPoint#(iw, fw)` (external) | an element is the integer its bits encode; products drop their low bits, quotients truncate towards zero, everything wraps |
| `KKCell` | the computation of `iterate` over one matrix | `Minor`, `Condensed`; a division by zero gives any element of `Junk`, for each cell its own |
| `KKIteration` | the core, one clock cycle per step | one definition per rule and per method; `InitCycle`, `IterateCycle`, `PutCycle`, `StartCycle` say which of them fire together |
| `KKRun` | the same with history variables | `runs`, `fresh` (the results are in place), `divided`, `stalls` |
| `Condensation` | *abstract:* the algorithm with neither buffers nor clock | `k`, `curr`, `prev`; `Load` and `Condense` |
| `AvalonSlave` | the port, and the external bus master | the queue, `waitrequest`; `AnyRequest` is a master that may issue anything the protocol allows |
| `KKAvalonSlave` | the whole accelerator | `SlaveCycle` composes the handlers, both FIFOs and the rules of the core in one cycle |
| `KKSystem` | the program in front of the bus | `pc` is the statement of `the_algorithm`, `at` the element its loops have come to; a store goes on when accepted, a load when answered; between statements the processor computes for any number of cycles |
| `KKInverse` | the final iteration, the check product and the error | fractions; the rounding of the last divisions is left out |
| `InOrderService` | *abstract:* a bus slave | a queue, the request that is new in this cycle and the one served in the last |
| `FIFO2` | the Verilog registers of the queue | a step per clock edge; a word is the set of its one bits, so that two selected sources would be seen to merge |
| `BoundedFIFO` | *abstract:* a bounded queue | the words held and the inputs of the cycle |
| `KKSoftware` | `the_algorithm` of the two software programs | `pc` is the loop, `k` and `at` the iteration and the element it has come to; a step computes one element |
| `Determinants` | *reference:* determinants by expansion, contiguous minors of a cyclic matrix | what the condensation is for; TLC only |
| `AvalonMaster` | the master port, wired to `AvalonSlave` | a step is a clock cycle; two kinds of client |
| `JtagUart` | the driver, the device and the host | a step goes from one access of shared state to the next; the handler may come between any two of the program's, the host between any two of either |
| `ByteChannel` | *abstract:* a direction of the JTAG UART | a bounded queue of bytes, that are offered, under way, and delivered |
| `FileDescriptors` | pool, mark and lock | a call is a step: one thread makes them, and no handler opens files |
| `MC...` | values of the constants for TLC | |
| `..._proofs` | theorems | |

`WriteUrgent` is the set of core rules over which a caller's write wins. Its four values
are the four schedules the compiler can choose; the models and the theorems cover all of them,
the runs the two extremes. `Disciplined` is an assumption about the callers: they put only while
`isRunning` is false, as `main.c` does.

Definitions marked *Mutant* are variants of the definition that follows, each with a plausible mistake;
nothing uses them. Put in the place of the original they make the property they stand for fail.

Registers without a reset start with any value that the constant `PowerUp` allows (matrices), or any
value at all (counter, flag). A read outside the array returns anything in `Unmapped`. A put outside the array
selects no register.

## Runs

| run | properties | what it shows |
|---|---|---|
| `core_rules_first` | `TypeOK`, `CounterIsCycles`, `FlagTellsLastIteration`, `IsCondensation`, `EveryRunEnds` | n = 3, the build where the rules win; callers put and start whenever they like |
| `core_writes_first` | `CounterIsCycles`, `RunOnlyAdvances`, `IsCondensation` | n = 4, the built size, where writes win; starts come into runs, puts only between them |
| `divzero_forgets` | `FlagTellsAnyIteration` (violated) | the flag forgets |
| `fifo2` | `TypeOK`, `IsFIFO` | two-bit words, every sequence of inputs that the checks of the source allow, resets at any time |
| `system_rules_first` | `InvertsExactly`, `ReadsTheCondensation`, `PutsReachAnIdleCore`, `LegalMaster`, `ProgramEnds` | program, bus and core together, n = 3, inputs that truncate, overflow and divide by zero |
| `system_writes_first` | `InvertsExactly`, `ReadsTheCondensation`, `EveryCycleCounts`, `ProgramEnds` | the same where writes win, at the built size; the demo matrix comes out with no error, and every cycle but those in which the processor alone computes brings the program nearer to its end |
| `slave_rules_first` | `SlaveTypeOK`, `HeadWaitBounded`, `OneAnswerPerRead`, `InOrder`, `AnswerComesNearer`, `ReadsAnswered`, `RunsEnd` | the accelerator with any master, n = 2, and requests of every kind; a read that is accepted is answered once and in bounded time, although writes queue before and behind it and start runs |
| `software` | `HasTheMinors`, `Inverts`, `IsCondensation` | n = 4; each iteration leaves the contiguous minors of the next size as `Determinants` defines them, and the quotients are the inverse |
| `master` | `ReadsServedInOrder`, `EveryReadAnswered` | both ports together; no answer is lost although neither FIFO of the master can refuse one |
| `jtag` | `SenderAwake`, `TxIsChannel`, `RxIsChannel`, `CallsReturn`, `BytesComeOut`, `WritesPatient`, `FailedReadsLeaveNothing` | three programs: one prints, blocking and not, one reads two bytes or none, one prints while it changes the timeout; the host looks, types and goes away as it likes |
| `descriptors` | `StdioNeverLocked`, `LockExcludes` | six descriptors, two devices and a file system, every sequence of calls |
| `lock_shared` | `ExclusiveMeansAlone` (violated) | the same; a lock is granted on a device that the highest descriptor has open |

Bounds, and why they are enough:

* *Size.* Three is the smallest size at which an iteration divides by a computed matrix before the surplus one,
  and at which all three buffers matter; 4 is the built size, where the determinants end up in the input buffer. With 2 (the bus run)
  a run takes three cycles, long enough for a full queue to form behind a write that waits.
* *Numbers.* Five bits with two fractional ones (core runs) and three with one (bus run): products and quotients both truncate and wrap.
* `CounterMod` is the smallest value past `n`, or a little more, so the counter wraps as soon as a caller steals cycles.
* `MaxRuns` = 2: a run after a finished one meets every kind of leftover state. `MaxStalls` = 3.
* *Floats.* A float counts units of 1 / (FRAC * Finer) and has `Mantissa` bits: 7 in the small run, so reading rounds. `system_writes_first` uses whole numbers of
  16 bits, in which the demo matrix of `main.c` stays exact.
* *Inputs.* In the core runs every pattern of zeroes and ones in the first line and the last cell, with fixed values elsewhere: with and without zero
  divisors in each iteration. Two of the puts change an element, one is outside the matrix.
* *Software.* 4 is even: there a cyclic shift of the lines changes the sign of a minor, which the formula of the quotients must survive; the odd size is checked in `system_rules_first`.
  44 inputs without a zero minor (the only ones for which the algorithm promises an inverse), small enough for the 32 bits in which TLC multiplies determinants, the matrix of
  `main.c` among them; 16 others, with zero divisors early or late.
* *Master.* Three read and two write addresses tell apart as many requests as can be under way. A client that is neither of the two kinds
  does lose answers: `handleResp` cannot refuse one, and the bus does not repeat it.
* *JTAG UART.* `CallAssumption` says which calls a program makes: its bytes are bytes, and the space of a read is a number. A ring buffer of three bytes and a device FIFO of one: both fill up, both run empty, and copies are cut in two at the end of the buffer. A write of three
  bytes must wait. `INT_MAX` = 4 leaves timeouts of two and three seconds and the one that is never reached. `Timeout` may come at any time that interrupts may: the model does not measure the second.
  A program uses one direction: the two share no state but the enabled interrupts, which each changes with interrupts masked.
* *Descriptors.* Six: the standard three, and three to open, close and lock in any order.
* `stateMaxVal` is computed by the macros of the source; that it is greater than n + 1 is evaluated for sizes up to 64.

Fairness: `EveryRunEnds` assumes weak fairness of `Begin` and `Iterate`: a rule that is ready and wins its conflicts
fires at the next clock edge. It is assumed only where these rules win. The bus run assumes only that the clock goes on.
In the build where writes win, a master that writes in every cycle keeps `iterate` from firing: TLC then finds `RunsEnd`
violated, so no run claims it. The program of the repository is no such master: `EndsInTime` says so. Reads are answered in both builds: the run
with any master takes the one in which a write has to wait and queues form, and the theorems about the bus side hold for each of the four schedules.
`JtagUart` assumes that the processor does not stop in a handler (weak fairness), and that the program, a pending interrupt and the alarm each get their
turn again and again although the others preempt them (strong fairness). Nothing is assumed of the host; `BytesComeOut` is about a host that keeps looking, `WritesPatient` about one that is seen
at every look of the alarm from some time on, and both say so.
`AvalonMaster` assumes a clock, a slave that serves what it holds after any delay, and a client that gets what it waits for.
The system runs assume besides that the processor does not compute forever between two statements; `ProgramEnds` holds in both builds, because the
program only reads while it waits.

### The findings

**The division by zero flag.** `KKIteration.bsv` says of `divZero` "True if division by zero occurred in last attempt", and `KKAvalonSlave.bsv` and `main.c`
say the same. The code overwrites the flag in each iteration. At the end it is about the last divisors: theorem `FlagCorrect` says exactly what it
tells, that the intermediate matrix has a zero. The run `divzero_forgets` shows a 3 x 3 matrix with a zero inside: iteration 1
divides by it and sets the flag, iteration 2 clears it. The last iteration is also the surplus one, so
the flag speaks of a division whose quotient nobody reads. It is still useful as it is: the divisors of the last
iteration are what the inverse is made of.

**The exclusive lock.** `alt_fd_lock.c` is there "to gain exclusive access to a device", and grants the lock "If there are no other open file descriptors which
reference the same device". Its loop goes over `i < alt_max_fd`, but `alt_max_fd` is the highest descriptor itself; `alt_open.c` searches the same list up to `i <= alt_max_fd`.
The run `lock_shared` opens a device twice and locks it through the first descriptor: the second, the highest, is overlooked. With the other end of the loop TLC finds `ExclusiveMeansAlone` true.
The model keeps the loop as it is, so `LockExcludes` says only what holds: no *later* open succeeds.

## Proofs

All hold for every size `n > 1` (`ReadsRight`: up to 256), every width of the numbers, any values of a division by zero, and every schedule; the assumptions are the
named `ASSUME`s of the modules.

* `KKCell_proofs`: every arithmetic result is in range whatever overflows on the way; the cyclic successor is onto; `%` facts, among them that a
  counter may be reduced early (`ModSucc`).
* `KKSoftware_proofs`: `Implements`, that the loops of the software programs implement `Condensation`, for every size, input and content of the scratchpad. `SoftwareInv`
  says that the three indices are `k`, `k + 1` and `k + 2` modulo 3 (`Rotated`), that the two matrices that are read are whole, and that the cells which the loops have passed have
  their new values (`PassedCells`): an element overwritten is never one that is still read. The step of the last cell is the `Condense` step, every other
  one a stuttering step. `TypeCorrect` follows: three different buffers at any time, and loops that stay inside the matrices.
* `FileDescriptors_proofs`: `PoolInv` says that no descriptor in use lies above the mark (but the three that were never allocated), that the redirected ones hold the device of
  the standard streams, that a flag belongs to a device, and that no descriptor of that device has the lock. Each is needed by another one: a lock on that device is refused because one of three descriptors is found below the mark,
  although the search of `alt_fd_lock` ends one too early (`LockRefusesStdio`). From it follow `TypeCorrect`, `StdioFree` and, as the search of `alt_open` does reach the
  mark, `LockHolds`, for pools of every size and all devices.
* `KKRun_proofs`: `TypeOK` is not inductive. It needs that results are in place only in the idle state (`FreshWhenIdle`) and that a run that
  was started has not used up the bound on the runs (`RunsLeft`); with these, `TypeInv` is. From it follow `TypeCorrect`, `FlagCorrect` (the last iteration divides
  by the matrix that `getIntElem` reads, and every cell of it is a divisor, because the successor is onto), `CounterCorrect` and `OnlyAdvances`.
  `Implements` is that `RunSpec` implements `Condensation` if `NoPutMidRun`: either the rules win or the callers are
  disciplined. The mapping takes `k` from `rState` during a run, and finds `curr` and `prev` at `rX[(k + 1) % 3]` and `rX[k % 3]`, or
  where the read methods look for them once the results are in place. An iteration is a `Condense` step, the surplus one a stuttering step, a put or a start of an idle core a `Load`.
* `AvalonPorts_proofs`: `TypeCorrect` and `Implements`, that the flags of `FIFO2` never say full and empty at once, and that after every edge the registers hold what the queue of two words holds after the same inputs, resets included.
  `MasterServes`, that both ports together serve the reads of a client in order. `handleResp` drops an answer that finds `respFIFO` full, so the refinement holds only as far as that
  never happens. `MasterInv` says why it does not: an eager client leaves nothing in `respFIFO`, and the one read that a single client awaits is either in `respFIFO` or the only read in the slave.
* `JtagUart_proofs`: `AwakeSender`, `TxImplements`, `RxImplements` and `FailedReads`, for every length of the ring buffers and of the FIFOs, any bytes and all calls. `Inv` says that what one side has seen of a buffer stays true
  until it has made use of it, because the other side only makes more of it: the room that `write` found stays free, the bytes that `read` found stay there, the space that the handler saw in the device stays
  free, and the copy of `irq_enable` that the program writes to the device is still the one in memory, as it is changed with interrupts masked. `SenderAwake` is inductive only together with the rest of `Inv`.
  For the two refinements, `RingExtend` and `RingSplit` turn the arithmetic of the indices, modulo the length, into operations on sequences: bytes copied behind the last one and published at once are appended,
  an index that is advanced cuts off the oldest bytes. The step that moves a byte from one place to the next is then a stuttering step or a step of `ByteChannel`.
  `FailedReads` needs `WaitOK`: while `read` waits, what it holds of `rx_in` is `rx_out`, which only `read` moves, so a buffer that has not changed is still empty; and it turns the interrupt on only when it has a byte.
* `KKAvalonSlave_proofs`: `SlaveTypeCorrect` (its invariant is inductive as it stands); `ServesInOrder`, the refinement of `InOrderService`: in a cycle the
  bypass regroups the pending requests (`BypassKeepsOrder`), the wires hand over theirs or keep it (`WiresKeepOrder`), and what is left is the
  associativity of concatenation; `HeadWait`: `held` is not inductive alone, `HeadInv` bounds it by the
  state the core is in. It holds in every build: a write that the schedule makes wait is one over which the rule that is ready wins (`WriteBlocked`), so that the run goes on in each of these cycles. `CoreStep` says that a cycle
  of the bus side does to the core what one of its own steps may do, or nothing, so the types of the core's registers carry over. `AnswersOnce`: `WaitInv` says that the master waits if and only if one of the pending requests is a read, and that no read is
  on the wires meanwhile. The count of reads is replaced by `NoRead` and `OneRead`, which concatenation respects, and `CoreTypeOK` is needed so that a word on `readdata` is never `Nothing`.
  `AnswersInTime`: a read is answered after `4 n + 7` cycles at most. `AnswerDistance` counts `n + 2` cycles for each request up to the read and the cycles of the run that goes on.
  A cycle either serves a write before the read, which may start a run (`n + 1` cycles against `n + 2`), or finds a write that waits, and then the core counts down (`CoreCounts`). What the master puts behind the read leaves it in its
  place (`PlaceBehind`), and what is served brings it forward by one (`PlaceAhead`).
* `KKSystem_proofs`: `Legal`, that the system implements `SlaveSpec`. It needs that the loops stay inside the matrices (`ProgramTypeCorrect`, `CellOf`). The theorems
  about the accelerator with any master hold of the program through it.
  `ElementsFirst`, that `PutsReachAnIdleCore`, needs `TransferInv`: the elements among the unserved requests are the oldest ones (`PutsLead`), the core is idle while there is one, and
  during the transfer there is nothing else. `CycleInOrder`, the lemma of the order of service, says what a cycle does to the unserved requests (`CycleLeaves`).
  `ReadsRight`, that `ReadsTheCondensation`, for `n <= 256`: an address has eight bits for each index, and in a larger matrix the elements would overwrite each other. `SystemInv` counts the writes that
  the core has seen, the elements in the order of the loops and then the start. `Queued`: the unserved requests are the writes from that number on, and behind them the load that the program
  waits for, if any. `Computed`: up to the start the core is idle and the elements served are in their cells (`EveryCell`: the loops miss none); after it `RunOver` ties the pair of matrices that matters in the
  state of the core to what as many iterations of the algorithm may give. `Copied`: once the program reads, the core stands still, so that what has been stored so far comes from one pair of matrices. A load is answered after
  all the writes before it (`AnswerComes`), which is why the program never sees the core idle before the run it has posted. `Outcomes` is a recursive function, and a function that satisfies its equation
  is shown to exist by taking the least number of iterations without one (`NatMin`, `AfterEquation`).
  `EndsInTime`, that `EveryCycleCounts` and that `Effort` never exceeds what it is at the start, `18 n n + 6 n + 30`, for every `n`. `Effort` weighs the statements left, the cycles of the run that is to come or goes on,
  the accesses on their way and the load that the program waits to issue. `WorkInv`: the writes that are left find the core idle, so that a request is served in the cycle in which it comes to the head (`ServedAtOnce`), and a run, once
  begun, goes on in every cycle (`RunStep`). The program polls again only if the core was running when the poll was served (`PollsAgain`), and that cycle has shortened the run: a poll that repeats cannot
  keep the effort up. What an answer or a statement adds to the accesses is less than the 6 that it takes from the statements (`EffortStep`). The cycles that lower nothing are those in which the processor computes while the bus
  and the core are at rest.

Only model-checked: liveness, which is out of the prover's reach. Of `ReadsAnswered` and `ProgramEnds` the part that needs no fairness is proved (`AnswersInTime`, `EndsInTime`: nothing can go on for ever but the computing
of the processor); that a step is taken at all stays with TLC. Also what `Determinants` computes, an induction over data (`HasTheMinors`, `Inverts`), and with it that the
condensation which the accelerated program reads gives the inverse (`InvertsExactly`).

## A note on the driver

`write` waits until the timeout has passed, but gives up as soon as `host_inactive` is not zero when the wait ends, so bytes may be refused, and `EIO` ("Host not connected") be
returned, although `TIOCGCONNECTED` still counts the host as connected. The model has both conditions. What holds is that bytes which were accepted are never lost (`TxIsChannel`), and that no
write gives up on a host that is seen in every second (`WritesPatient`). `read` asks for the buffer and not for the host after its wait: it never fails while there is a byte for it
(`FailedReadsLeaveNothing`). A read of no bytes comes back at once.

## Not modelled

* The two emulation modules of `AvalonMaster.bsv`, which wire a block RAM of a library; the testbenches, which are fixed scripts.
* The performance counters and timestamps around the sections of `main.c`, and all printing: formatting, `alt_printf.c`, `alt_log_printf.c`, the report of the performance counter.
* The rest of the HAL: alarms, interrupt dispatch and clocks (what the driver needs of them is part of `JtagUart`), heap and cache routines (the code of the programs allocates no memory and does not
  share it with a device), start-up code and wrappers, which keep no state of their own.
* The package of `Nios/software` is a copy of the HAL and drivers of the other one, file by file. The models are mapped to one of them. Together with headers that
  only name registers, the two copies make up most of the lines of C in the repository, so the models, which cover the project's own code and two of the vendored components, map a
  small part of all lines.
* Builds use `-O0`: in loops, `host_inactive` and `tx_in`, which are not volatile, are read again each time. A build that keeps them in registers is another program.

## Plan

Done: the core, the bus side, the program on it with the bounds on its time, the software programs with the reference definition of determinants, the master, the driver and the descriptors.

1. The list of alarms and the roll-over of the tick counter (`alt_tick.c`), for which a single flag tells the two sides apart.
2. That the condensation gives the inverse for every size: it rests on an identity of determinants (Desnanot and Jacobi) that needs an induction over the size.
