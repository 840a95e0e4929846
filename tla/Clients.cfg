SPECIFICATION ClientsSpec
CONSTANTS
  r1 = r1
  r2 = r2
  i1 = i1
  i2 = i2
  i3 = i3
  t1 = t1
  t2 = t2
  n1 = n1
  n2 = n2
  u1 = u1
  u2 = u2
  Requests <- MCRequests
  Operator = r1
  Items <- MCItems
  PageSize = 1
  Tabs <- MCTabs
  Newcomers <- MCNewcomers
  Managed <- MCManaged
SYMMETRY Symmetric
INVARIANTS
  ClientsTypeOK
  EveryGateWasPassed
  ActiveLeaseIsFunded
  OperatorCallsAreAudited
  NothingUntouchedIsMissed
  PreviewNeedsEntry
  SelectionsAreCarried
PROPERTY NothingSavedIsLost
