SPECIFICATION EarlySpec
CONSTANTS
  Events = {"e"}
  TypeOf <- OneType
  Names = {"new"}
  Relays = {r1, r2}
  Releases = {1, 2}
  Declares <- Adds
  MinLease = 1
  MaxDuration = 127
  HandlerTimeout = 1
  SettleTimeout = 1
  HandlerGrace = 2
  Retention = 3
  MaxAttempts = 2
  BatchSize = 2
  BackoffBase = 1
  BackoffMax = 1
  BackoffDelay <- MCBackoffDelay
  PollInterval = 1
  Overlap = 1
  MaxTime = 12
  MaxFaults = 1
  MaxReplays = 1
  LastReplay = 3
INVARIANTS RolloutLosesNothing SettledInTime
CHECK_DEADLOCK FALSE
SYMMETRY Interchangeable
