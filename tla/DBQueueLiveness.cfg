SPECIFICATION FairSpec
CONSTANTS
  Jobs = {"a"}
  Types = {"report"}
  Users = {}
  JobType <- OneType
  JobKey <- OneKey
  JobLane <- OneLane
  JobPriority <- OneZero
  JobCreated <- OneZero
  JobDelay <- OneDelay
  JobMax <- OneMax
  JobUser <- OneNobody
  NoKey = "none"
  NoUser = "none"
  NoJob = "none"
  AnyLane = "any"
  Workers = {"w1", "w2"}
  Consumers = {}
  WorkerLane <- AnyWorkerLane
  Tokens = {1, 2, 3, 4, 5}
  NoToken = 0
  Leases = {1, 2}
  Gates = {{}, {"report"}}
  Signals = {"close", "cancel"}
  HandlerTimeout = 1
  DeferDelay = 1
  DoneRetention = 0
  PruneEvery = 1
  BackoffBase = 1
  BackoffMax = 2
  MaxDuration = 31
  LongestStreak = 12
  BackoffDelay <- MCBackoffDelay
  MaxFaults = 1
  MaxResets = 1
INVARIANTS RunsBounded ClaimedHasHolder NeverDropped DelayIsIdeal
PROPERTIES LeaseProtects BudgetCovered EventuallySettled
