SPECIFICATION StallSpec
CONSTANTS
  Events = {e1}
  TypeOf <- OneType
  Names = {c1, c2}
  Relays = {r1, r2}
  Releases = {1}
  Declares <- AllConsume
  MinLease = 1
  MaxDuration = 127
  HandlerTimeout = 1
  SettleTimeout = 1
  HandlerGrace = 1
  Retention = 0
  MaxAttempts = 2
  BatchSize = 2
  BackoffBase = 1
  BackoffMax = 1
  BackoffDelay <- MCBackoffDelay
  MaxTime = 5
  MaxFaults = 0
  MaxReplays = 0
INVARIANTS OutboxTypeOK RunningKeepsRow RunsWithinBudget NoConsumerSkipped
PROPERTIES ClaimProtected SettledStays
CHECK_DEADLOCK FALSE
SYMMETRY Interchangeable
