SPECIFICATION Spec
CONSTANTS
  Schedules = {"s"}
  Definitions <- TwoCadences
  NoDef = NoDef
  Poisoned = {}
  Users = {"u"}
  NoUser = "none"
  Replicas = {"r1", "r2"}
  OwnerOf <- OwnOwner
  Skew <- SecondAhead
  LeaseDuration = 1
  Retention = 0
  SweepPeriod = 1
  MaxCatchUp = 2
  MaxTime = 2
  MaxFaults = 1
  MaxRegisters = 2
INVARIANTS SchedulerTypeOK
PROPERTIES NoOverlap DefinitionFenced DeposedWritesNothing
