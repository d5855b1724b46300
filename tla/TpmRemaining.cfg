SPECIFICATION Spec
CONSTANTS
  Requests = {r1, r2}
  KeyRPM = 1
  DefaultRPM = 0
  KeyTPM = 2
  DefaultTPM = 0
  Window = 2
  TicksPerSecond = 2
  Lag = 0
  Lead = 0
  TokenCounts = {1}
  MaxTime = 2
SYMMETRY Symmetry
CHECK_DEADLOCK FALSE
PROPERTY TpmRemainingIsTrue
