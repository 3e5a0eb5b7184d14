SPECIFICATION McSpec
CONSTANTS
  Sources = {s1, s2}
  Other = s2
  Keys = {k1, k2}
  Urls = {u1, u2}
  Workers = {w1}
  None = None
  MaxRuns = 4
  MaxRequests = 2
  MaxCycles = 4
  MaxFaults = 2
  AdminOps = {"update", "pause", "resume", "delete"}
SYMMETRY KeyAndUrlSymmetry
INVARIANTS LiveJobsInBoundary MissesAreExact CompletedHasOutcome AbandonmentsCostFaults
PROPERTIES ClosedOnEvidence OnlyHealthyRunsTouchJobs RefinesLifecycle RefinesRecords
