SPECIFICATION FloodSpec
CONSTANTS
  Requests = {1, 2, 3, 4, 5, 6, 7, 8, 9, 10, 11, 12}
  Keys = {1, 2, 3, 4, 5, 6, 7, 8, 9, 10, 11, 12}
  Fps = {1}
  NoFp = 0
  NoKey = 0
  NoRequest = 0
  Processes = {"p"}
  FailOpen = {}
  Backends = {"memory"}
  TTL = 3
  InFlightTTL = 2
  ReapPeriod = 1
  MaxLatency = 1
  MaxEntries = 11
  MaxTime = 0
  MaxFaults = 0
PROPERTIES ClaimsShedLast
CHECK_DEADLOCK FALSE
