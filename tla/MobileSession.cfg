SPECIFICATION Spec
CONSTANTS
  u1 = u1
  u2 = u2
  p1 = p1
  p2 = p2
  Users <- MCUsers
  Applicants <- MCApplicants
  Plans <- MCPlans
  Payloads <- MCPayloads
  Slots <- MCSlots
  RuntimeEnv <- MCBuild
  Offered <- HomeOnly
  Linked <- ProfileLink
  RefreshIssued <- AlwaysRefresh
  MaxTokens = 2
  MaxDepth = 2
  MaxCalls = 2
  Rotating = TRUE
INVARIANTS
  CurrentSessionAsks
  NothingOfTheAccountRemains
PROPERTY StartupEnds
