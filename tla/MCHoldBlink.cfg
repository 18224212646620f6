CONSTANTS
  MaxOutages = 0
  PubRetries = 1
  SyncRetries = 1
  HoldTarget = 1
  MaxPresses = 1
  MaxPowerCycles = 0
SPECIFICATION Spec
PROPERTY
  BlinksDuringHold
