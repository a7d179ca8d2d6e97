SPECIFICATION Spec
CONSTANTS
  Jobs = {"a"}
  Types = {"report"}
  Users = {"u"}
  JobType <- OneType
  JobKey <- OneKey
  JobLane <- OneLane
  JobPriority <- OneZero
  JobCreated <- OneZero
  JobDelay <- OneZero
  JobMax <- OneMax
  JobUser <- OneUser
  NoKey = "none"
  NoUser = "none"
  NoJob = "none"
  AnyLane = "any"
  Workers = {"w1", "w2"}
  Consumers = {}
  WorkerLane <- AnyWorkerLane
  Tokens = {1, 2, 3, 4, 5}
  NoToken = 0
  Leases = {1}
  Gates = {}
  Signals = {}
  HandlerTimeout = 0
  DeferDelay = 1
  DoneRetention = 0
  PruneEvery = 1
  BackoffBase = 0
  BackoffMax = 2
  MaxDuration = 31
  LongestStreak = 0
  BackoffDelay <- MCBackoffDelay
  MaxFaults = 0
  MaxResets = 2
PROPERTIES ReplayNotInFlight
