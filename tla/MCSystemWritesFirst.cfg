CONSTANTS
  n = 4
  FRAC = 1
  HALF = 32768
  CounterMod = 8
  stateMaxVal <- MCStateMax
  Junk <- MCJunk
  Unmapped <- MCJunk
  PowerUp <- MCPowerUp
  Puts <- MCPuts
  Request <- MCRequest
  Nothing = Nothing
  WriteUrgent <- Always
  Inputs <- MCInputs
  Exact <- MCExact
  Finer = 1
  Mantissa = 16
SPECIFICATION FairSystem
INVARIANTS InvertsExactly ReadsTheCondensation
PROPERTIES EveryCycleCounts ProgramEnds
