CONSTANTS
  MaxOutages = 1
  PubRetries = 1
  SyncRetries = 1
  HoldTarget = 2
  MaxPresses = 2
  MaxPowerCycles = 1
SPECIFICATION ResetFairSpec
PROPERTIES
  ResetForgets
  ResetReprovisions
  HoldingResets
CHECK_DEADLOCK FALSE
