CONSTANTS
  n = 3
  FRAC = 4
  HALF = 512
  CounterMod = 4
  stateMaxVal <- MCStateMax
  Junk <- MCTwoJunk
  Unmapped <- MCJunk
  PowerUp <- MCPowerUp
  Puts <- MCPuts
  Request <- MCRequest
  Nothing = Nothing
  WriteUrgent <- Never
  Inputs <- MCInputs
  Exact <- MCExact
  Finer = 2
  Mantissa = 7
SPECIFICATION FairSystem
INVARIANTS InvertsExactly ReadsTheCondensation PutsReachAnIdleCore
PROPERTIES LegalMaster ProgramEnds
