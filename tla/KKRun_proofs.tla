---------------------------- MODULE KKRun_proofs ----------------------------
(***************************************************************************)
(* The accelerator core for every size of the matrix, every width of its   *)
(* numbers, every value a division by zero may return and every schedule   *)
(* the compiler may choose.                                                *)
(***************************************************************************)
EXTENDS KKRun, KKCell_proofs

-----------------------------------------------------------------------------
(* The inductive invariant.  Results are in place only while the core is   *)
(* idle, and a run that was started has not used up the bound on the runs. *)

FreshWhenIdle == fresh => Idle
RunsLeft == Starting => runs < MaxRuns
RunCounted == Iterating \/ fresh => runs > 0
TypeInv == TypeOK /\ FreshWhenIdle /\ RunsLeft /\ RunCounted

\* The buffers of an iteration are three different ones.
LEMMA BuffersDiffer ==
  ASSUME TypeOK, Iterating
  PROVE  /\ rState \in 0 .. n - 1
         /\ iPrev \in 0 .. 2 /\ iCurr \in 0 .. 2 /\ iNext \in 0 .. 2
         /\ iPrev # iCurr /\ iPrev # iNext /\ iCurr # iNext
BY StateAssumption, SizeAssumption DEF TypeOK, Iterating, iPrev, iCurr, iNext

LEMMA DivisorsType == ASSUME TypeOK, Iterating PROVE Divisors \in Matrix
<1> SUFFICES ASSUME NEW c \in Cells
             PROVE  (IF rState = 0 THEN FRAC
                     ELSE rX[iPrev][<<Up(c[1]), Up(c[2])>>]) \in Elem
  BY DEF Divisors, Matrix
<1>1. <<Up(c[1]), Up(c[2])>> \in Cells
  BY UpType DEF Cells
<1>2. rX[iPrev] \in Matrix
  BY BuffersDiffer DEF TypeOK
<1> QED
  BY <1>1, <1>2, OneType DEF Matrix

\* An iteration replaces one buffer and leaves the other two alone.
LEMMA IterateEffect ==
  ASSUME TypeOK, IterateCycle
  PROVE  /\ Iterating
         /\ rX' \in [0 .. 2 -> Matrix]
         /\ rX'[iPrev] = rX[iPrev] /\ rX'[iCurr] = rX[iCurr]
         /\ \E junk \in [ZeroDivisions(Divisors) -> Junk] :
              rX'[iNext] = Condensed(rX[iCurr], Divisors, junk)
<1>1. Iterating
  BY DEF IterateCycle, iterate
<1>2. PICK junk \in [ZeroDivisions(Divisors) -> Junk] :
        rX' = [rX EXCEPT ![iNext] = Condensed(rX[iCurr], Divisors, junk)]
  BY DEF IterateCycle, iterate, ComputeNext
<1>3. rX \in [0 .. 2 -> Matrix] /\ rX[iCurr] \in Matrix
  BY <1>1, BuffersDiffer DEF TypeOK
<1>4. Condensed(rX[iCurr], Divisors, junk) \in Matrix
  BY <1>1, <1>3, DivisorsType, CondensedType
<1> HIDE DEF iPrev, iCurr, iNext
<1>5. rX' \in [0 .. 2 -> Matrix]
  BY <1>2, <1>3, <1>4
<1>6. /\ rX'[iPrev] = rX[iPrev] /\ rX'[iCurr] = rX[iCurr]
      /\ rX'[iNext] = Condensed(rX[iCurr], Divisors, junk)
  BY <1>1, <1>2, <1>3, BuffersDiffer
<1> QED
  BY <1>1, <1>5, <1>6

\* A put changes at most the input buffer, by one element.
LEMMA PutEffect ==
  ASSUME TypeOK, NEW p \in Puts, putElem(p[1], p[2], p[3])
  PROVE  rX' \in [0 .. 2 -> Matrix]
<1>1. p[3] \in Elem
  BY PutsAssumption
<1>2. rX[1] \in Matrix
  BY DEF TypeOK
<1>3. [rX[1] EXCEPT ![<<p[1], p[2]>>] = p[3]] \in Matrix
  BY <1>1, <1>2 DEF Matrix
<1>4. [rX EXCEPT ![1][<<p[1], p[2]>>] = p[3]] \in [0 .. 2 -> Matrix]
  BY <1>3 DEF TypeOK
<1> QED
  BY <1>4 DEF putElem, TypeOK

\* The counter and the flag keep their types when a caller has the cycle.
LEMMA BystandersType ==
  ASSUME TypeOK, Bystanders
  PROVE  rCounter' \in 0 .. CounterMod - 1 /\ rDivZero' \in BOOLEAN
<1>1. (rCounter + 1) % CounterMod \in 0 .. CounterMod - 1
  BY CounterAssumption, ModRange DEF TypeOK
<1> QED
  BY <1>1 DEF TypeOK, Bystanders, countCycles, checkDivZero

LEMMA StealType ==
  ASSUME TypeOK, Steal PROVE stalls' \in 0 .. MaxStalls
BY MaxStallsAssumption DEF TypeOK, Steal

LEMMA TypeInvInit == RunInit => TypeInv
<1> SUFFICES ASSUME RunInit PROVE TypeInv
  OBVIOUS
<1>1. rX \in [0 .. 2 -> Matrix] /\ rState = stateMaxVal /\ runs = 0 /\ stalls = 0
  BY PowerUpAssumption DEF RunInit, Init
<1>2. rCounter \in 0 .. CounterMod - 1 /\ rDivZero \in BOOLEAN
  BY DEF RunInit, Init
<1>3. fresh = FALSE /\ divided = FALSE
  BY DEF RunInit
<1>4. 0 \in 0 .. MaxRuns /\ 0 \in 0 .. MaxStalls
  BY MaxRunsAssumption, MaxStallsAssumption
<1>5. TypeOK
  BY <1>1, <1>2, <1>3, <1>4 DEF TypeOK
<1>6. ~Iterating /\ ~Starting
  BY <1>1, StateAssumption, SizeAssumption DEF Iterating, Starting
<1> QED
  BY <1>3, <1>5, <1>6 DEF TypeInv, FreshWhenIdle, RunsLeft, RunCounted

LEMMA TypeInvStep == TypeInv /\ [RunNext]_vars => TypeInv'
<1> SUFFICES ASSUME TypeInv, [RunNext]_vars PROVE TypeInv'
  OBVIOUS
<1> USE DEF TypeInv
<1>1. CASE UNCHANGED vars
  BY <1>1 DEF vars, TypeOK, FreshWhenIdle, RunsLeft, RunCounted, Idle,
              Starting, Iterating
<1>2. CASE Begin
  <2>1. /\ rX' = rX /\ rState' = 0 /\ rCounter' = 0 /\ rDivZero' = FALSE
        /\ fresh' = FALSE /\ divided' = FALSE /\ stalls' = 0
    BY <1>2 DEF Begin, InitCycle, init
  <2>2. /\ 0 \in 0 .. n - 1 /\ 0 \in 0 .. CounterMod - 1
        /\ 0 \in 0 .. MaxStalls
    BY SizeAssumption, CounterAssumption, MaxStallsAssumption
  <2>3. runs' \in 0 .. MaxRuns
    BY <1>2, MaxRunsAssumption DEF Begin, InitCycle, init, TypeOK, RunsLeft
  <2>4. TypeOK'
    BY <2>1, <2>2, <2>3 DEF TypeOK
  <2>5. FreshWhenIdle' /\ RunsLeft' /\ RunCounted'
    BY <1>2, <2>1, StateAssumption, SizeAssumption
    DEF Begin, InitCycle, init, FreshWhenIdle, RunsLeft, RunCounted, TypeOK,
        Idle, Starting
  <2> QED
    BY <2>4, <2>5
<1>3. CASE Iterate
  <2>1. rX' \in [0 .. 2 -> Matrix] /\ Iterating
    BY <1>3, IterateEffect DEF Iterate
  <2>2. rState' \in (0 .. n - 1) \cup {stateMaxVal - 1, stateMaxVal}
    BY <1>3, <2>1, BuffersDiffer, SizeAssumption
    DEF Iterate, IterateCycle, iterate
  <2>3. rCounter' \in 0 .. CounterMod - 1
    BY <1>3, CounterAssumption, ModRange
    DEF Iterate, IterateCycle, countCycles, TypeOK
  <2>4. rDivZero' \in BOOLEAN /\ fresh' \in BOOLEAN /\ divided' \in BOOLEAN
    BY <1>3 DEF Iterate, IterateCycle, checkDivZero
  <2>5. UNCHANGED <<runs, stalls>>
    BY <1>3 DEF Iterate
  <2>6. TypeOK'
    BY <2>1, <2>2, <2>3, <2>4, <2>5 DEF TypeOK
  <2>7. FreshWhenIdle' /\ RunsLeft' /\ RunCounted'
    BY <1>3, <2>1, <2>5, BuffersDiffer, StateAssumption, SizeAssumption
    DEF Iterate, IterateCycle, iterate, FreshWhenIdle, RunsLeft, RunCounted,
        Idle, Starting, Iterating, TypeOK
  <2> QED
    BY <2>6, <2>7
<1>4. ASSUME NEW p \in Puts, Put(p[1], p[2], p[3]) PROVE TypeInv'
  <2>1. rX' \in [0 .. 2 -> Matrix] /\ UNCHANGED rState
    BY <1>4, PutEffect DEF Put, PutCycle, putElem
  <2>2. rCounter' \in 0 .. CounterMod - 1 /\ rDivZero' \in BOOLEAN
    BY <1>4, BystandersType DEF Put, PutCycle
  <2>3. stalls' \in 0 .. MaxStalls /\ fresh' = FALSE /\ UNCHANGED <<runs, divided>>
    BY <1>4, StealType DEF Put
  <2>4. TypeOK'
    BY <2>1, <2>2, <2>3 DEF TypeOK
  <2> QED
    BY <1>4, <2>1, <2>4
    DEF Put, FreshWhenIdle, RunsLeft, RunCounted, Starting, Iterating
<1>5. CASE Start
  <2>1. /\ rX' = rX /\ fresh' = FALSE /\ UNCHANGED <<runs, divided>>
        /\ rState' = IF Idle THEN stateMaxVal - 1 ELSE rState
    BY <1>5 DEF Start, StartCycle, start
  <2>2. rCounter' \in 0 .. CounterMod - 1 /\ rDivZero' \in BOOLEAN
    BY <1>5, BystandersType DEF Start, StartCycle
  <2>3. stalls' \in 0 .. MaxStalls
    BY <1>5, StealType DEF Start
  <2>4. TypeOK'
    BY <2>1, <2>2, <2>3 DEF TypeOK
  <2> QED
    BY <1>5, <2>1, <2>4, StateAssumption
    DEF Start, FreshWhenIdle, RunsLeft, RunCounted, Starting, Iterating, Idle,
        TypeOK
<1> QED
  BY <1>1, <1>2, <1>3, <1>4, <1>5 DEF RunNext

LEMMA TypeInvariant == RunSpec => []TypeInv
BY TypeInvInit, TypeInvStep, PTL DEF RunSpec

\* Whatever the callers do and whenever, the core stays in the states that
\* its rules give a meaning to, and every register in its width.
THEOREM TypeCorrect == RunSpec => []TypeOK
BY TypeInvariant, PTL DEF TypeInv

-----------------------------------------------------------------------------
(* The division by zero flag. *)

\* The flag that the last iteration leaves is about the matrix that it
\* divides by, which is the one that getIntElem reads: every cell of it is
\* the divisor of some cell.
LEMMA LastFlag ==
  ASSUME TypeInv, Iterate, rState = n - 1
  PROVE  rDivZero' <=> \E i, j \in Idx : getIntElem(i, j)' = 0
<1>1. Iterating /\ rState # 0 /\ iPrev = (n - 1) % 3 /\ rX'[iPrev] = rX[iPrev]
  BY IterateEffect, SizeAssumption DEF TypeInv, Iterate, iPrev
<1>2. rDivZero' <=> \E c \in Cells : rX[iPrev][<<Up(c[1]), Up(c[2])>>] = 0
  BY <1>1 DEF Iterate, IterateCycle, checkDivZero, iPrev
<1>3. (\E c \in Cells : rX[iPrev][<<Up(c[1]), Up(c[2])>>] = 0)
        <=> \E i, j \in Idx : rX[iPrev][<<i, j>>] = 0
  <2>1. ASSUME NEW c \in Cells, rX[iPrev][<<Up(c[1]), Up(c[2])>>] = 0
        PROVE  \E i, j \in Idx : rX[iPrev][<<i, j>>] = 0
    BY <2>1, UpType DEF Cells
  <2>2. ASSUME NEW i \in Idx, NEW j \in Idx, rX[iPrev][<<i, j>>] = 0
        PROVE  \E c \in Cells : rX[iPrev][<<Up(c[1]), Up(c[2])>>] = 0
    <3>1. PICK u \in Idx, v \in Idx : Up(u) = i /\ Up(v) = j
      BY UpOnto
    <3>2. <<u, v>> \in Cells
      BY DEF Cells
    <3> QED
      BY <2>2, <3>1, <3>2
  <2> QED
    BY <2>1, <2>2
<1> QED
  BY <1>1, <1>2, <1>3 DEF getIntElem

LEMMA FlagStep ==
  TypeInv /\ FlagTellsLastIteration /\ [RunNext]_vars => FlagTellsLastIteration'
<1> SUFFICES ASSUME TypeInv, FlagTellsLastIteration, [RunNext]_vars, fresh'
             PROVE  rDivZero' <=> \E i, j \in Idx : getIntElem(i, j)' = 0
  BY DEF FlagTellsLastIteration
<1>1. CASE UNCHANGED vars
  BY <1>1 DEF vars, FlagTellsLastIteration, getIntElem
<1>2. CASE Begin
  BY <1>2 DEF Begin
<1>3. CASE Iterate
  BY <1>3, LastFlag DEF Iterate
<1>4. ASSUME NEW p \in Puts, Put(p[1], p[2], p[3]) PROVE FALSE
  BY <1>4 DEF Put
<1>5. CASE Start
  BY <1>5 DEF Start
<1> QED
  BY <1>1, <1>2, <1>3, <1>4, <1>5 DEF RunNext

\* For every size, the flag of a finished run says whether the intermediate
\* matrix has a zero: divisions by zero in earlier iterations are forgotten.
THEOREM FlagCorrect == RunSpec => []FlagTellsLastIteration
<1>1. RunInit => FlagTellsLastIteration
  BY DEF RunInit, FlagTellsLastIteration
<1> QED
  BY <1>1, FlagStep, TypeInvariant, PTL DEF RunSpec

-----------------------------------------------------------------------------
(* The cycle counter. *)

LEMMA CounterStep ==
  TypeInv /\ CounterIsCycles /\ [RunNext]_vars => CounterIsCycles'
<1> SUFFICES ASSUME TypeInv, CounterIsCycles, [RunNext]_vars
             PROVE  CounterIsCycles'
  OBVIOUS
<1>0. /\ Iterating => rState \in Nat /\ rState + stalls \in Nat
      /\ stalls \in Nat /\ n + stalls \in Nat
  BY BuffersDiffer, SizeAssumption, MaxStallsAssumption DEF TypeInv, TypeOK
<1>1. CASE UNCHANGED vars
  BY <1>1 DEF vars, CounterIsCycles, Iterating
<1>2. CASE Begin
  <2>1. Iterating' /\ rState' = 0 /\ stalls' = 0 /\ rCounter' = 0
    BY <1>2, StateAssumption, SizeAssumption
    DEF Begin, InitCycle, init, Iterating
  <2>2. 0 % CounterMod = 0
    BY CounterAssumption, ModSmall
  <2> QED
    BY <2>1, <2>2 DEF CounterIsCycles
<1>3. CASE Iterate
  <2>1. Iterating /\ stalls' = stalls
    BY <1>3 DEF Iterate, IterateCycle, iterate
  <2>2. rCounter' = (rState + stalls + 1) % CounterMod
    BY <1>0, <1>3, <2>1, ModSucc, CounterAssumption
    DEF Iterate, IterateCycle, countCycles, CounterIsCycles
  <2>3. CASE rState = n - 1
    <3>1. ~Iterating'
      BY <1>3, <2>3, StateAssumption
      DEF Iterate, IterateCycle, iterate, Iterating
    <3>2. rState + stalls + 1 = n + stalls'
      BY <1>0, <2>1, <2>3, SizeAssumption
    <3> QED
      BY <2>2, <3>1, <3>2 DEF CounterIsCycles
  <2>4. CASE rState # n - 1
    <3>1. rState' = rState + 1
      BY <1>3, <2>4 DEF Iterate, IterateCycle, iterate
    <3>2. Iterating'
      BY <2>1, <2>4, <3>1, BuffersDiffer, StateAssumption, SizeAssumption
      DEF Iterating, TypeInv
    <3>3. rState + stalls + 1 = rState' + stalls'
      BY <1>0, <2>1, <3>1
    <3> QED
      BY <2>2, <3>2, <3>3 DEF CounterIsCycles
  <2> QED
    BY <2>3, <2>4
<1>4. ASSUME Bystanders, Steal, UNCHANGED <<rState, runs>>
      PROVE  CounterIsCycles'
  <2>1. CASE Iterating
    <3>1. rCounter' = (rState + stalls + 1) % CounterMod
      BY <1>0, <1>4, <2>1, ModSucc, CounterAssumption
      DEF Bystanders, countCycles, CounterIsCycles
    <3>2. rState + stalls + 1 = rState' + stalls' /\ Iterating'
      BY <1>0, <1>4, <2>1 DEF Steal, Iterating
    <3> QED
      BY <3>1, <3>2 DEF CounterIsCycles
  <2>2. CASE ~Iterating
    BY <1>4, <2>2
    DEF Bystanders, countCycles, Steal, Iterating, CounterIsCycles
  <2> QED
    BY <2>1, <2>2
<1>5. ASSUME NEW p \in Puts, Put(p[1], p[2], p[3]) PROVE CounterIsCycles'
  BY <1>4, <1>5 DEF Put, PutCycle, putElem
<1>6. CASE Start
  <2>1. CASE Idle
    <3>1. ~Iterating /\ ~Iterating'
      BY <1>6, <2>1, StateAssumption
      DEF Start, StartCycle, start, Idle, Iterating
    <3> QED
      BY <1>6, <3>1
      DEF Start, StartCycle, Bystanders, countCycles, Steal, CounterIsCycles
  <2>2. CASE ~Idle
    BY <1>4, <1>6, <2>2 DEF Start, StartCycle, start
  <2> QED
    BY <2>1, <2>2
<1> QED
  BY <1>1, <1>2, <1>3, <1>5, <1>6 DEF RunNext

\* For every size, every width of the counter and every schedule, the
\* counter shows the iterations done and the cycles that callers stole,
\* and it wraps around like the sum of the two.
THEOREM CounterCorrect == RunSpec => []CounterIsCycles
<1>1. RunInit => CounterIsCycles
  BY StateAssumption, SizeAssumption
  DEF RunInit, Init, CounterIsCycles, Iterating
<1> QED
  BY <1>1, CounterStep, TypeInvariant, PTL DEF RunSpec

-----------------------------------------------------------------------------
\* Whatever the callers do, a run goes through its iterations in order and
\* idles only after the last one, with its results in place.
THEOREM OnlyAdvances == RunSpec => RunOnlyAdvances
<1> DEFINE Advance ==
      /\ Starting /\ rState' # rState => rState' = 0
      /\ Iterating /\ rState' # rState =>
           \/ rState < n - 1 /\ rState' = rState + 1
           \/ rState = n - 1 /\ rState' = stateMaxVal /\ fresh'
<1>1. TypeInv /\ [RunNext]_vars => [Advance]_vars
  <2> SUFFICES ASSUME TypeInv, RunNext PROVE Advance
    OBVIOUS
  <2>1. CASE Begin
    BY <2>1 DEF Begin, InitCycle, init, Starting, Iterating
  <2>2. CASE Iterate
    <3>1. Iterating /\ ~Starting /\ rState \in 0 .. n - 1
      BY <2>2, BuffersDiffer DEF Iterate, IterateCycle, iterate, TypeInv,
                                 Iterating, Starting
    <3>2. CASE rState = n - 1
      BY <2>2, <3>1, <3>2 DEF Iterate, IterateCycle, iterate
    <3>3. CASE rState # n - 1
      <4>1. rState' = rState + 1 /\ rState < n - 1
        BY <2>2, <3>1, <3>3, SizeAssumption DEF Iterate, IterateCycle, iterate
      <4> QED
        BY <3>1, <4>1
    <3> QED
      BY <3>2, <3>3
  <2>3. ASSUME NEW p \in Puts, Put(p[1], p[2], p[3]) PROVE Advance
    BY <2>3 DEF Put, PutCycle, putElem
  <2>4. CASE Start
    BY <2>4, StateAssumption
    DEF Start, StartCycle, start, Idle, Starting, Iterating
  <2> QED
    BY <2>1, <2>2, <2>3, <2>4 DEF RunNext
<1> QED
  BY <1>1, TypeInvariant, PTL DEF RunSpec, RunOnlyAdvances

-----------------------------------------------------------------------------
(* The accelerator core implements Condensation, for every size of the     *)
(* matrix and every width of its numbers, when no putElem can come into a  *)
(* running iteration: either the rules of the core win over the caller's,  *)
(* or the callers put only while the core is idle.                         *)

NoPutMidRun == "iterate" \notin WriteUrgent \/ Disciplined

\* The instance's operators are those of KKCell.
LEMMA SameMatrix == Abstract!Matrix = Matrix
BY DEF Abstract!Matrix, Matrix, Abstract!Cells, Cells, Abstract!Idx, Idx,
       Abstract!Elem, Elem

\* What the mapping reads, by the phase of the core.
LEMMA MappingRunning ==
  ASSUME TypeInv, Iterating
  PROVE  /\ kBar = rState
         /\ currBar = rX[iCurr]
         /\ prevBar = rX[iPrev]
<1>1. ~fresh
  BY StateAssumption DEF TypeInv, FreshWhenIdle, Idle, Iterating
<1> QED
  BY <1>1 DEF kBar, currBar, prevBar, iCurr, iPrev

LEMMA MappingWaiting ==
  ASSUME ~Iterating, ~fresh
  PROVE  kBar = 0 /\ currBar = rX[1] /\ prevBar = rX[0]
BY DEF kBar, currBar, prevBar

\* Reading a matrix cell by cell gives the matrix.
LEMMA ReadAll ==
  ASSUME NEW m \in Matrix
  PROVE  [c \in Cells |-> m[<<c[1], c[2]>>]] = m
<1>1. \A c \in Cells : <<c[1], c[2]>> = c
  BY DEF Cells
<1> QED
  BY <1>1 DEF Matrix

-----------------------------------------------------------------------------
LEMMA InitRefines == RunInit => Abstract!Init
<1> SUFFICES ASSUME RunInit PROVE Abstract!Init
  OBVIOUS
<1>1. ~Iterating /\ ~fresh
  BY StateAssumption DEF RunInit, Init, Iterating
<1>2. rX[0] \in Matrix /\ rX[1] \in Matrix
  BY PowerUpAssumption DEF RunInit, Init
<1> QED
  BY <1>1, <1>2, MappingWaiting, SameMatrix DEF Abstract!Init

\* Anything may follow, as long as the core waits with its input in place.
LEMMA WaitingRefines ==
  ASSUME TypeOK', ~Iterating', ~fresh'
  PROVE  Abstract!Load
<1>1. kBar' = 0 /\ currBar' = rX'[1] /\ prevBar' = rX'[0]
  BY DEF kBar, currBar, prevBar
<1>2. rX'[0] \in Matrix /\ rX'[1] \in Matrix
  BY DEF TypeOK
<1> QED
  BY <1>1, <1>2, SameMatrix DEF Abstract!Load

\* The abstract iteration on the mapped state is the iteration of the core.
LEMMA CondenseMatches ==
  ASSUME TypeInv, Iterating
  PROVE  /\ Abstract!Divisor(kBar = 0, prevBar) = Divisors
         /\ \A junk : Abstract!Condensed(currBar, Divisors, junk)
                        = Condensed(rX[iCurr], Divisors, junk)
         /\ Abstract!ZeroDivisions(Divisors) = ZeroDivisions(Divisors)
<1>1. Abstract!Cells = Cells /\ \A i : Abstract!Up(i) = Up(i)
  BY DEF Abstract!Cells, Cells, Abstract!Idx, Idx, Abstract!Up, Up
<1>2. Abstract!Divisor(kBar = 0, prevBar) = Divisors
  BY <1>1, MappingRunning DEF Abstract!Divisor, Divisors
<1>3. ASSUME NEW a, NEW b
      PROVE  /\ Abstract!FxMul(a, b) = FxMul(a, b)
             /\ Abstract!FxSub(a, b) = FxSub(a, b)
             /\ Abstract!FxDiv(a, b) = FxDiv(a, b)
  BY DEF Abstract!FxMul, FxMul, Abstract!FxSub, FxSub, Abstract!FxDiv, FxDiv,
         Abstract!Wrap, Wrap, Abstract!Quot, Quot, Abstract!Magnitude, Magnitude
<1>4. \A i, j : Abstract!Minor(currBar, i, j) = Minor(rX[iCurr], i, j)
  BY <1>1, <1>3, MappingRunning DEF Abstract!Minor, Minor
<1>5. \A junk : Abstract!Condensed(currBar, Divisors, junk)
                  = Condensed(rX[iCurr], Divisors, junk)
  BY <1>1, <1>3, <1>4 DEF Abstract!Condensed, Condensed
<1> QED
  BY <1>1, <1>2, <1>5 DEF Abstract!ZeroDivisions, ZeroDivisions

\* An iteration before the surplus one is a condensation.
LEMMA IterateRefines ==
  ASSUME TypeInv, TypeInv', Iterate, rState # n - 1
  PROVE  Abstract!Condense
<1>1. Iterating /\ rState \in 0 .. n - 1
  BY BuffersDiffer DEF TypeInv, Iterate, IterateCycle, iterate
<1>2. rState' = rState + 1 /\ rState < n - 1
  BY <1>1, SizeAssumption DEF Iterate, IterateCycle, iterate
<1>3. Iterating'
  BY <1>1, <1>2, StateAssumption, SizeAssumption DEF Iterating
<1>4. kBar' = rState + 1 /\ currBar' = rX'[iNext] /\ prevBar' = rX'[iCurr]
  <2>1. ~fresh'
    BY <1>3, StateAssumption DEF TypeInv, FreshWhenIdle, Idle, Iterating
  <2>2. kBar' = rState'
    BY <1>3, <2>1 DEF kBar
  <2>3. currBar' = rX'[(rState' + 1) % 3] /\ prevBar' = rX'[rState' % 3]
    BY <2>1, <2>2 DEF currBar, prevBar
  <2>4. (rState' + 1) % 3 = iNext /\ rState' % 3 = iCurr
    BY <1>1, <1>2 DEF iNext, iCurr
  <2> QED
    BY <1>2, <2>2, <2>3, <2>4
<1>5. rX'[iCurr] = currBar
  BY <1>1, IterateEffect, MappingRunning DEF TypeInv, Iterate
<1>6. PICK junk \in [ZeroDivisions(Divisors) -> Junk] :
        rX'[iNext] = Condensed(rX[iCurr], Divisors, junk)
  BY IterateEffect DEF TypeInv, Iterate
<1>7. kBar = rState
  BY <1>1, MappingRunning
<1>8. \E j \in [Abstract!ZeroDivisions(Divisors) -> Junk] :
        currBar' = Abstract!Condensed(currBar, Divisors, j)
  BY <1>1, <1>4, <1>6, CondenseMatches
<1>9. Abstract!Divisor(kBar = 0, prevBar) = Divisors
  BY <1>1, CondenseMatches
<1> QED
  BY <1>2, <1>4, <1>5, <1>7, <1>8, <1>9 DEF Abstract!Condense

\* The surplus iteration writes the third buffer: the results stay.
LEMMA SurplusRefines ==
  ASSUME TypeInv, TypeInv', Iterate, rState = n - 1
  PROVE  UNCHANGED <<kBar, currBar, prevBar>>
<1>1. Iterating
  BY DEF Iterate, IterateCycle, iterate
<1>2. kBar = n - 1 /\ currBar = rX[iCurr] /\ prevBar = rX[iPrev]
  BY <1>1, MappingRunning
<1>3. fresh'
  BY DEF Iterate
<1>4. kBar' = n - 1 /\ currBar' = rX'[n % 3] /\ prevBar' = rX'[(n - 1) % 3]
  <2>1. n % 3 \in 0 .. 2 /\ (n - 1) % 3 \in 0 .. 2
    BY SizeAssumption
  <2>2. rX'[n % 3] \in Matrix /\ rX'[(n - 1) % 3] \in Matrix
    BY <2>1 DEF TypeInv, TypeOK
  <2> QED
    BY <1>3, <2>2, ReadAll DEF kBar, currBar, prevBar, getDetElem, getIntElem
<1>5. iCurr = n % 3 /\ iPrev = (n - 1) % 3
  BY SizeAssumption DEF iCurr, iPrev
<1>6. rX'[iCurr] = rX[iCurr] /\ rX'[iPrev] = rX[iPrev]
  BY IterateEffect DEF TypeInv, Iterate
<1> QED
  BY <1>2, <1>4, <1>5, <1>6

\* No put comes into a running iteration.
LEMMA PutWaits ==
  ASSUME NoPutMidRun, TypeOK, NEW p \in Puts, Put(p[1], p[2], p[3])
  PROVE  ~Iterating
BY StateAssumption
DEF NoPutMidRun, Put, PutCycle, CallerMayFire, isRunning, Iterating, TypeOK

LEMMA StepRefines ==
  ASSUME NoPutMidRun, TypeInv, TypeInv', [RunNext]_vars
  PROVE  [Abstract!Next]_<<kBar, currBar, prevBar>>
<1>1. CASE UNCHANGED vars
  BY <1>1 DEF vars, kBar, currBar, prevBar, Iterating, getDetElem, getIntElem
<1>2. CASE Begin
  <2>1. ~Iterating /\ ~fresh
    BY <1>2, StateAssumption
    DEF Begin, InitCycle, init, Starting, Iterating, TypeInv, FreshWhenIdle, Idle
  <2>2. rState' = 0 /\ rX' = rX /\ ~fresh'
    BY <1>2 DEF Begin, InitCycle, init
  <2>3. kBar' = 0 /\ currBar' = rX[1] /\ prevBar' = rX[0]
    BY <2>2 DEF kBar, currBar, prevBar
  <2> QED
    BY <2>1, <2>3, MappingWaiting
<1>3. CASE Iterate
  BY <1>3, IterateRefines, SurplusRefines DEF Abstract!Next
<1>4. ASSUME NEW p \in Puts, Put(p[1], p[2], p[3])
      PROVE  Abstract!Load
  <2>1. ~Iterating
    BY <1>4, PutWaits DEF TypeInv
  <2>2. ~Iterating' /\ ~fresh'
    BY <1>4, <2>1 DEF Put, PutCycle, putElem, Iterating
  <2> QED
    BY <2>2, WaitingRefines DEF TypeInv
<1>5. CASE Start
  <2>1. rX' = rX /\ ~fresh'
    BY <1>5 DEF Start, StartCycle, start
  <2>2. CASE Iterating
    <3>1. rState' = rState /\ ~fresh
      BY <1>5, <2>2, StateAssumption
      DEF Start, StartCycle, start, Idle, Iterating, TypeInv, FreshWhenIdle
    <3> QED
      BY <2>1, <3>1 DEF kBar, currBar, prevBar, Iterating
  <2>3. CASE ~Iterating
    <3>1. CASE Idle
      <4>1. rState' = stateMaxVal - 1
        BY <1>5, <3>1 DEF Start, StartCycle, start
      <4>2. ~Iterating'
        BY <4>1, StateAssumption DEF Iterating
      <4> QED
        BY <2>1, <4>2, WaitingRefines DEF TypeInv, Abstract!Next
    <3>2. CASE ~Idle
      <4>1. ~Iterating'
        BY <1>5, <2>3, <3>2 DEF Start, StartCycle, start, Iterating
      <4> QED
        BY <2>1, <4>1, WaitingRefines DEF TypeInv, Abstract!Next
    <3> QED
      BY <3>1, <3>2
  <2> QED
    BY <2>2, <2>3
<1> QED
  BY <1>1, <1>2, <1>3, <1>4, <1>5 DEF RunNext, Abstract!Next

\* Each run of the core computes the condensation of its input: the matrices
\* that getDetElem and getIntElem read are the last two of n - 1 exact steps,
\* and neither the rotation of the buffers nor the surplus iteration nor a
\* second start disturbs them.
THEOREM Implements == NoPutMidRun => (RunSpec => IsCondensation)
<1> SUFFICES ASSUME NoPutMidRun PROVE RunSpec => IsCondensation
  OBVIOUS
<1>1. TypeInv /\ TypeInv' /\ [RunNext]_vars
        => [Abstract!Next]_<<kBar, currBar, prevBar>>
  BY StepRefines
<1>2. [Abstract!Next]_<<kBar, currBar, prevBar>>
        => [Abstract!Next]_(Abstract!vars)
  BY DEF Abstract!vars
<1> QED
  BY <1>1, <1>2, InitRefines, TypeInvariant, PTL
  DEF RunSpec, IsCondensation, Abstract!Spec
=============================================================================
