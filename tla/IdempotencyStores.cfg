SPECIFICATION FewSpec
CONSTANTS
  Requests = {1, 2, 3, 4}
  Keys = {1, 2, 3}
  Fps = {1, 2}
  NoFp = 0
  NoKey = 0
  NoRequest = 0
  Processes = {"p", "q"}
  FailOpen = {"q"}
  Backends = {"sql", "memory"}
  TTL = 3
  InFlightTTL = 2
  ReapPeriod = 1
  MaxLatency = 1
  MaxEntries = 2
  MaxTime = 3
  MaxFaults = 1
INVARIANTS IdempotencyTypeOK OneAtATime AtMostOnce ReplayIsOwn LockedBriefly
CHECK_DEADLOCK FALSE
