SPECIFICATION Spec
CONSTANTS
  Schedules = {"s"}
  Definitions <- UserCadences
  NoDef = NoDef
  Poisoned = {}
  Users = {"u"}
  NoUser = "none"
  Replicas = {"r1"}
  OwnerOf <- OwnOwner
  Skew <- InStep
  LeaseDuration = 2
  Retention = 0
  SweepPeriod = 2
  MaxCatchUp = 2
  MaxTime = 2
  MaxFaults = 1
  MaxRegisters = 2
INVARIANTS ErasedStaysErased
