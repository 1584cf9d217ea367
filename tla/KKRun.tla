-------------------------------- MODULE KKRun --------------------------------
(***************************************************************************)
(* The attempts of the accelerator core: KKIteration with history          *)
(* variables, which record what a caller may conclude from the registers.  *)
(* They are observers: no action of KKIteration reads them.                *)
(*                                                                         *)
(* Disciplined says that the callers call putElem only when isRunning is   *)
(* false, as the_algorithm of the Nios program does.                       *)
(***************************************************************************)
EXTENDS KKIteration

CONSTANTS Disciplined,
          MaxRuns,     \* bound: how many runs are started
          MaxStalls    \* bound: how many cycles of a run are stolen

ASSUME DisciplineAssumption == Disciplined \in BOOLEAN
ASSUME MaxRunsAssumption == MaxRuns \in Nat
ASSUME MaxStallsAssumption == MaxStalls \in Nat

VARIABLES runs,        \* how many runs were begun since power up
          fresh,       \* the results of the last run are in place
          divided,     \* an iteration of the last attempt divided by zero
          stalls       \* the cycles that callers stole from its iterations

history == <<runs, fresh, divided, stalls>>
vars == <<rX, rState, rCounter, rDivZero, runs, fresh, divided, stalls>>

-----------------------------------------------------------------------------
RunInit ==
  /\ Init
  /\ runs = 0
  /\ fresh = FALSE
  /\ divided = FALSE
  /\ stalls = 0

Begin ==
  /\ InitCycle
  /\ runs' = runs + 1
  /\ fresh' = FALSE
  /\ divided' = FALSE
  /\ stalls' = 0

Iterate ==
  /\ IterateCycle
  /\ fresh' = (rState = n - 1)
  /\ divided' = (divided \/ ZeroDivisions(Divisors) # {})
  /\ UNCHANGED <<runs, stalls>>

\* The caller's rule takes the cycle; an iteration that was due is put off.
Steal == \/ Iterating /\ stalls < MaxStalls /\ stalls' = stalls + 1
         \/ ~Iterating /\ UNCHANGED stalls

Put(i, j, a) ==
  /\ Disciplined => ~isRunning
  /\ PutCycle(i, j, a)
  /\ fresh' = FALSE
  /\ Steal
  /\ UNCHANGED <<runs, divided>>

Start ==
  /\ Idle => runs < MaxRuns
  /\ StartCycle
  /\ fresh' = FALSE
  /\ Steal
  /\ UNCHANGED <<runs, divided>>

RunNext ==
  \/ Begin
  \/ Iterate
  \/ \E p \in Puts : Put(p[1], p[2], p[3])
  \/ Start

RunSpec == RunInit /\ [][RunNext]_vars

\* A rule that is ready and wins its conflicts fires at the next clock edge.
\* Only for the builds in which the callers' writes do not win.
Fairness == WF_vars(Begin) /\ WF_vars(Iterate)

FairSpec == RunSpec /\ Fairness

-----------------------------------------------------------------------------
\* Every register holds a value of its width; the states between the last
\* iteration and the start state, which have no meaning, are never reached.
TypeOK ==
  /\ rX \in [0 .. 2 -> Matrix]
  /\ rState \in (0 .. n - 1) \cup {stateMaxVal - 1, stateMaxVal}
  /\ rCounter \in 0 .. CounterMod - 1
  /\ rDivZero \in BOOLEAN
  /\ runs \in 0 .. MaxRuns
  /\ fresh \in BOOLEAN
  /\ divided \in BOOLEAN
  /\ stalls \in 0 .. MaxStalls

\* getCounter counts every cycle of the last run: one for each iteration
\* done and one for each cycle in which a caller's write put one off.
CounterIsCycles ==
  /\ Iterating => rCounter = (rState + stalls) % CounterMod
  /\ runs > 0 /\ ~Iterating => rCounter = (n + stalls) % CounterMod

\* When a run is over and nothing was put since, the flag says whether the
\* intermediate matrix, the last divisor, has a zero.
FlagTellsLastIteration ==
  fresh => (rDivZero <=> \E i, j \in Idx : getIntElem(i, j) = 0)

\* The doc of divZero (KKIteration.bsv, line 92) and of the slave's read
\* handler (KKAvalonSlave.bsv, line 134): true if any division by zero
\* occurred in the last attempt.  It does not hold.
FlagTellsAnyIteration == fresh => (rDivZero <=> divided)

\* A run, once started, can neither be restarted nor cut short: the state
\* moves on by one iteration at a time and idles only after the last one.
RunOnlyAdvances ==
  [][ /\ Starting /\ rState' # rState => rState' = 0
      /\ Iterating /\ rState' # rState =>
           \/ rState < n - 1 /\ rState' = rState + 1
           \/ rState = n - 1 /\ rState' = stateMaxVal /\ fresh' ]_vars

\* Every run that was started ends, when no caller's write can stall it.
EveryRunEnds == isRunning ~> ~isRunning

-----------------------------------------------------------------------------
(* The refinement of Condensation.  The three buffers rotate: iteration    *)
(* rState condenses rX[(rState + 1) % 3].  The core does n iterations, and *)
(* the last one, a surplus one, is a stuttering step of the abstraction.   *)

kBar == IF fresh THEN n - 1 ELSE IF Iterating THEN rState ELSE 0
currBar == IF fresh THEN [c \in Cells |-> getDetElem(c[1], c[2])]
                    ELSE rX[(kBar + 1) % 3]
prevBar == IF fresh THEN [c \in Cells |-> getIntElem(c[1], c[2])]
                    ELSE rX[kBar % 3]

Abstract == INSTANCE Condensation
              WITH k <- kBar, curr <- currBar, prev <- prevBar

\* The matrices of getDetElem and getIntElem at the end of a run are the
\* last two of the condensation of the matrix that rX[1] held at its start.
IsCondensation == Abstract!Spec
=============================================================================
