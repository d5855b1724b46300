SPECIFICATION Spec
CONSTANTS
  Requests = {r1}
  KeyRPM = 2
  DefaultRPM = 0
  KeyTPM = 1
  DefaultTPM = 0
  Window = 2
  TicksPerSecond = 2
  Lag = 0
  Lead = 0
  TokenCounts = {1}
  MaxTime = 9
SYMMETRY Symmetry
CHECK_DEADLOCK FALSE
INVARIANT TpmKeyExpires
