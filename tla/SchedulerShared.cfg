SPECIFICATION Spec
CONSTANTS
  Schedules = {"s"}
  Definitions <- OneCadence
  NoDef = NoDef
  Poisoned = {}
  Users = {}
  NoUser = "none"
  Replicas = {r1, r2}
  OwnerOf <- SharedOwner
  Skew <- InStep
  LeaseDuration = 2
  Retention = 1
  SweepPeriod = 1
  MaxCatchUp = 1
  MaxTime = 3
  MaxFaults = 0
  MaxRegisters = 1
PROPERTIES TickOnce WatermarkAdvances NoOverlap
SYMMETRY Interchangeable
