SPECIFICATION FundingSpec
CONSTANTS
  r1 = r1
  r2 = r2
  Requests <- MCRequests
PROPERTY TransitionsAreAllowed
CHECK_DEADLOCK FALSE
