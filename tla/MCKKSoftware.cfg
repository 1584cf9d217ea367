CONSTANTS
  n = 4
  FRAC = 1
  HALF = 536870912
  Junk <- MCJunk
  Inputs <- MCInputs
  Garbage <- MCGarbage
SPECIFICATION Spec
INVARIANTS HasTheMinors Inverts
PROPERTIES IsCondensation
CHECK_DEADLOCK FALSE
