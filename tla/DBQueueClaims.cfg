SPECIFICATION Spec
CONSTANTS
  Jobs = {"a", "b"}
  Types = {"report"}
  Users = {"u"}
  JobType <- RivalType
  JobKey <- RivalKey
  JobLane <- AnyJobLane
  JobPriority <- Zero
  JobCreated <- Zero
  JobDelay <- Zero
  JobMax <- RivalMax
  JobUser <- RivalUser
  NoKey = "none"
  NoUser = "none"
  NoJob = "none"
  AnyLane = "any"
  Workers = {"w1"}
  Consumers = {"c1"}
  WorkerLane <- OneWorker
  Tokens = {1, 2, 3, 4, 5, 6}
  NoToken = 0
  Leases = {1, 2, 3}
  Gates = {}
  Signals = {"close"}
  HandlerTimeout = 1
  DeferDelay = 1
  DoneRetention = 1
  PruneEvery = 1
  BackoffBase = 0
  BackoffMax = 0
  MaxDuration = 31
  LongestStreak = 0
  BackoffDelay <- MCBackoffDelay
  MaxFaults = 0
  MaxResets = 2
INVARIANTS TypeOK AttemptBudget UniqueLive RunsBounded
PROPERTIES LeaseProtects ImplementsJobQueue TerminalStays OnlyEnqueueCreates
