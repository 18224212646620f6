CONSTANTS
  MaxOutages = 2
  PubRetries = 2
  SyncRetries = 2
  HoldTarget = 1
  MaxPresses = 0
  MaxPowerCycles = 1
SPECIFICATION LinkFairSpec
INVARIANTS
  RetryPending
  OncePerBoot
  BluetoothFreedWhenProvisioned
PROPERTIES
  LifecycleForward
  ServicesInOrder
  OnlineLinkRecovers
  EventLoopReturns
  KeepsPublishing
CHECK_DEADLOCK FALSE
