SPECIFICATION LoopSpec
CONSTANTS
  Schedules = {"s", "p"}
  Definitions <- EveryTwo
  NoDef = NoDef
  Poisoned = {"p"}
  Users = {}
  NoUser = "none"
  Replicas = {r1, r2}
  OwnerOf <- OwnOwner
  Skew <- InStep
  LeaseDuration = 6
  Retention = 0
  SweepPeriod = 1
  MaxCatchUp = 12
  MaxTime = 14
  MaxFaults = 1
  MaxRegisters = 2
INVARIANTS EveryTickServed LeaderKeepsLease
CHECK_DEADLOCK FALSE
SYMMETRY Interchangeable
