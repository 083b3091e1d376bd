CONSTANTS
  RESOLUTION = 2
  Register <- MCRegister
  Uptime <- MCUptime
SPECIFICATION SensorSpec
INVARIANTS SampleExact
CHECK_DEADLOCK FALSE
