SPECIFICATION Spec
CONSTANTS
  Calls = {c1, c2}
  Gateways = {g1}
  AdminGateway = g1
  CacheTTL = 2
  NegativeTTL = 1
  ExpiresAt = 9
  MaxPause = 1
  MaxTime = 3
SYMMETRY Symmetry
CHECK_DEADLOCK FALSE
PROPERTY RevokedImmediately
