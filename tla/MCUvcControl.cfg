SPECIFICATION Spec
CONSTANTS
  Asks <- MCAsks
  MaxRequests = 4
  MaxTimeouts = 2
  MaxFaults = 1
CHECK_DEADLOCK FALSE
INVARIANTS TypeOK DataReachesItsControl AnswersMatch ErrorCodeTells
PROPERTY Answered
