SPECIFICATION FairSpec
CONSTANTS
  Sources = {s1, s2}
  Keys = {k1}
  Urls = {u1, u2}
  Workers = {w1}
  None = None
  MaxRuns = 2
  MaxRequests = 2
  MaxCycles = 0
  MaxFaults = 0
  AdminOps = {}
PROPERTY ActiveRequestsAreServed
