SPECIFICATION RunsSpec
CONSTANTS
  Events = {e1}
  TypeOf <- OneType
  Names = {c1}
  Relays = {r1, r2}
  Releases = {1, 2}
  Declares <- OneConsumes
  MinLease = 1
  MaxDuration = 127
  HandlerTimeout = 1
  SettleTimeout = 1
  HandlerGrace = 1
  Retention = 1
  MaxAttempts = 1
  BatchSize = 1
  BackoffBase = 0
  BackoffMax = 0
  BackoffDelay <- MCBackoffDelay
  MaxTime = 2
  MaxFaults = 0
  MaxReplays = 1
INVARIANT EventKept
PROPERTIES UndeliveredKept ClaimProtected
CHECK_DEADLOCK FALSE
SYMMETRY Interchangeable
