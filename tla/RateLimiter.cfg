SPECIFICATION Spec
CONSTANTS
  Requests = {r1, r2, r3}
  KeyRPM = 0
  DefaultRPM = 2
  KeyTPM = 3
  DefaultTPM = 0
  Window = 2
  TicksPerSecond = 2
  Lag = 0
  Lead = 1
  TokenCounts = {2}
  MaxTime = 4
SYMMETRY Symmetry
CHECK_DEADLOCK FALSE
INVARIANT RpmHolds TpmOvershootBounded
PROPERTY RpmRejectsOnlyAtLimit RetryAfterIsEarliest
