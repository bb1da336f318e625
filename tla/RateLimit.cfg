SPECIFICATION LimitSpec
CONSTANTS
  Gateways = {g1, g2}
  Shared = Shared
  None = None
  Second = 2
  Rate = 1
  Burst = 1
  Lag = 1
  Lead = 1
  MaxTime = 7
  MaxCalls = 5
  MaxFaults = 2
INVARIANTS
  SharedBounded
  FailoverBounded
  RetrySuffices
SYMMETRY GatewaySymmetry
CHECK_DEADLOCK FALSE
