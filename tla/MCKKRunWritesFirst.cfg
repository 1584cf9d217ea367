CONSTANTS
  n = 4
  FRAC = 4
  HALF = 16
  CounterMod = 6
  stateMaxVal <- MCStateMax
  Junk <- MCJunk
  PowerUp <- MCPowerUp
  Puts <- MCPuts
  WriteUrgent <- Always
  MaxRuns = 2
  MaxStalls = 3
  Disciplined = TRUE
SPECIFICATION RunSpec
INVARIANT CounterIsCycles
PROPERTIES RunOnlyAdvances IsCondensation
