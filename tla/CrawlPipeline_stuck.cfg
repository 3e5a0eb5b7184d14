SPECIFICATION AnsweredSpec
CONSTANTS
  Sources = {s1}
  Keys = {k1}
  Urls = {u1}
  Workers = {w1}
  None = None
  MaxRuns = 1
  MaxRequests = 1
  MaxCycles = 0
  MaxFaults = 1
  AdminOps = {}
PROPERTY RunningRequestsResolve
