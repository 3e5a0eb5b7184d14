SPECIFICATION Spec
CONSTANTS
  Sources = {s1}
  Keys = {k1, k2}
  Urls = {u1, u2}
  Workers = {w1, w2}
  None = None
  MaxRuns = 3
  MaxRequests = 1
  MaxCycles = 2
  MaxFaults = 0
  AdminOps = {"update", "delete"}
SYMMETRY FullSymmetry
INVARIANTS MissesHaveRuns ClaimsAreExclusive QueueInv
