SPECIFICATION Spec
CONSTANTS
  Cap = 1
  MaxChunks = 2
CHECK_DEADLOCK FALSE
PROPERTY DisconnectNotRecorded
