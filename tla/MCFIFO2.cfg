CONSTANTS
  Bit = {1, 2}
  guarded = FALSE
SPECIFICATION Spec
INVARIANT TypeOK
PROPERTY IsFIFO
