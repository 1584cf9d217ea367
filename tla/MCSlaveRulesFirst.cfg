CONSTANTS
  n = 2
  FRAC = 2
  HALF = 4
  CounterMod = 4
  stateMaxVal <- MCStateMax
  Junk <- MCJunk
  Unmapped <- MCJunk
  PowerUp <- MCPowerUp
  Puts <- MCPuts
  Request <- MCRequest
  Nothing = Nothing
  WriteUrgent <- Never
SPECIFICATION FairSlave
INVARIANTS SlaveTypeOK HeadWaitBounded OneAnswerPerRead
PROPERTIES InOrder AnswerComesNearer ReadsAnswered RunsEnd
