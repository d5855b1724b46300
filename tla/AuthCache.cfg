SPECIFICATION Spec
CONSTANTS
  Calls = {c1, c2, c3}
  Gateways = {g1, g2}
  AdminGateway = g1
  CacheTTL = 2
  NegativeTTL = 1
  ExpiresAt = 4
  MaxPause = 1
  MaxTime = 5
SYMMETRY Symmetry
CHECK_DEADLOCK FALSE
INVARIANT RevokedKeyAgesOut NoFalseRejection
PROPERTY RevocationSticks
