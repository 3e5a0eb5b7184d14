SPECIFICATION Spec
CONSTANTS
  Requests = {r1, r2}
  Jobs = {j1}
  MaxFaults = 2
  SlowShutdowns = TRUE
SYMMETRY UploadSymmetry
INVARIANT ScanInv
INVARIANT ProfilesHaveScans
INVARIANT MatchesAreAnchored
INVARIANT StrandedScansHaveCause
PROPERTY RefinesVerdict
