CONSTANTS
  n = 3
  FRAC = 4
  HALF = 16
  CounterMod = 4
  stateMaxVal <- MCStateMax
  Junk <- MCJunk
  PowerUp <- MCPowerUp
  Puts <- MCPuts
  WriteUrgent <- Never
  MaxRuns = 2
  MaxStalls = 3
  Disciplined = FALSE
SPECIFICATION FairSpec
INVARIANTS TypeOK CounterIsCycles FlagTellsLastIteration
PROPERTIES IsCondensation EveryRunEnds
