----------------------------- MODULE KKIteration -----------------------------
(***************************************************************************)
(* The accelerator core, mkFixedPointKKIteration of KKIteration.bsv.  A    *)
(* step is one clock cycle, with all the rules that fire in it: every rule *)
(* reads the registers as they were before the cycle.                      *)
(*                                                                         *)
(* The compiler decides at build time which rule wins when two rules that  *)
(* conflict are ready in the same cycle.  iterate, countCycles and         *)
(* checkDivZero do not conflict and fire together.  A caller's rule that   *)
(* contains putElem and start (processWrite) writes rState and rX, which   *)
(* init and iterate read and write: it conflicts with both, and the source *)
(* gives no urgency.  WriteUrgent holds the rules of the core over which   *)
(* the caller's rule wins, so the four values of WriteUrgent are the four  *)
(* schedules a build can have.                                             *)
(***************************************************************************)
EXTENDS KKCell

CONSTANTS stateMaxVal,   \* the idle state, all ones in the state register
          CounterMod,    \* 2^32: how far the cycle counter counts
          PowerUp,       \* what the uninitialised matrix registers may hold
          Puts,          \* the calls of putElem the callers make: <<i, j, a>>
          WriteUrgent    \* the rules that the caller's rule pre-empts

ASSUME StateAssumption == stateMaxVal \in Nat /\ stateMaxVal > n + 1
ASSUME CounterAssumption == CounterMod \in Nat \ {0}
ASSUME PowerUpAssumption == PowerUp \subseteq [0 .. 2 -> Matrix]
ASSUME PutsAssumption == Puts \subseteq Nat \X Nat \X Elem
ASSUME UrgencyAssumption == WriteUrgent \subseteq {"init", "iterate"}

VARIABLES rX,         \* three matrices
          rState,     \* stateMaxVal: idle, stateMaxVal - 1: started,
                      \* 0 .. n - 1: the iteration to do next
          rCounter,   \* cycles spent in iterations
          rDivZero    \* the division by zero flag

core == <<rX, rState, rCounter, rDivZero>>

\* The macros STATEREGSZ and STATEMAXVAL for a matrix of size m.
StateRegSize(m) ==
  1 + CHOOSE b \in 0 .. m + 2 : 2^b >= m + 2 /\ \A c \in 0 .. b - 1 : 2^c < m + 2
StateMax(m) == 2^StateRegSize(m) - 1

-----------------------------------------------------------------------------
(* The rules. *)

Idle == rState = stateMaxVal
Starting == rState = stateMaxVal - 1
Iterating == rState < stateMaxVal - 1

iPrev == rState % 3
iCurr == (rState + 1) % 3

\* Mutant: the new matrix overwrites the divisors.
iNextInPlace == rState % 3

iNext == (rState + 2) % 3

\* Mutant: the counter is not reset.
initKeepsCounter ==
  /\ Starting
  /\ rDivZero' = FALSE
  /\ rState' = 0
  /\ UNCHANGED <<rX, rCounter>>

init ==
  /\ Starting
  /\ rCounter' = 0
  /\ rDivZero' = FALSE
  /\ rState' = 0
  /\ UNCHANGED rX

\* Mutant: the first iteration divides too.
DivisorsAlways == [c \in Cells |-> rX[iPrev][<<Up(c[1]), Up(c[2])>>]]

Divisors ==
  [c \in Cells |-> IF rState = 0 THEN FRAC ELSE rX[iPrev][<<Up(c[1]), Up(c[2])>>]]

ComputeNext ==
  \E junk \in [ZeroDivisions(Divisors) -> Junk] :
    rX' = [rX EXCEPT ![iNext] = Condensed(rX[iCurr], Divisors, junk)]

\* Mutant: one iteration too many.
iterateTooFar ==
  /\ Iterating
  /\ ComputeNext
  /\ rState' = IF rState = n THEN stateMaxVal ELSE rState + 1

\* Mutant: the state wraps around instead of going idle.
iterateForever ==
  /\ Iterating
  /\ ComputeNext
  /\ rState' = (rState + 1) % n

iterate ==
  /\ Iterating
  /\ ComputeNext
  /\ rState' = IF rState = n - 1 THEN stateMaxVal ELSE rState + 1

countCycles ==
  /\ Iterating
  /\ rCounter' = (rCounter + 1) % CounterMod

\* Mutant: the divisors of the next iteration are looked at.
checkDivZeroNext ==
  /\ Iterating
  /\ rDivZero' = \E c \in Cells :
                   rState # 0 /\ rX[(rState + 1) % 3][<<Up(c[1]), Up(c[2])>>] = 0

checkDivZero ==
  /\ Iterating
  /\ rDivZero' = \E c \in Cells :
                   rState # 0 /\ rX[rState % 3][<<Up(c[1]), Up(c[2])>>] = 0

-----------------------------------------------------------------------------
(* The methods. *)

\* An index outside the array selects no register.
putElem(i, j, a) ==
  /\ rX' = IF <<i, j>> \in Cells THEN [rX EXCEPT ![1][<<i, j>>] = a] ELSE rX
  /\ UNCHANGED rState

\* Mutant: start does not look whether a run is going on.
startAlways ==
  /\ rState' = stateMaxVal - 1
  /\ UNCHANGED rX

start ==
  /\ rState' = IF Idle THEN stateMaxVal - 1 ELSE rState
  /\ UNCHANGED rX

isRunning == rState # stateMaxVal

getIntElem(i, j) == rX[(n - 1) % 3][<<i, j>>]
getDetElem(i, j) == rX[n % 3][<<i, j>>]
getCounter == rCounter
divZero == rDivZero

-----------------------------------------------------------------------------
(* The cycles. *)

\* The schedule lets the caller's rule fire.
CallerMayFire ==
  /\ Starting => "init" \in WriteUrgent
  /\ Iterating => "iterate" \in WriteUrgent

\* Mutant: a stolen cycle is not counted.
BystandersUncounted == UNCHANGED <<rCounter, rDivZero>>

\* The rules that do not conflict with the caller's, in its cycle.
Bystanders ==
  \/ countCycles /\ checkDivZero
  \/ ~Iterating /\ UNCHANGED <<rCounter, rDivZero>>

InitCycle == init
IterateCycle == iterate /\ countCycles /\ checkDivZero
PutCycle(i, j, a) == CallerMayFire /\ putElem(i, j, a) /\ Bystanders
StartCycle == CallerMayFire /\ start /\ Bystanders

Init ==
  /\ rX \in PowerUp
  /\ rState = stateMaxVal
  /\ rCounter \in 0 .. CounterMod - 1
  /\ rDivZero \in BOOLEAN

Next ==
  \/ InitCycle
  \/ IterateCycle
  \/ \E p \in Puts : PutCycle(p[1], p[2], p[3])
  \/ StartCycle

Spec == Init /\ [][Next]_core
=============================================================================
