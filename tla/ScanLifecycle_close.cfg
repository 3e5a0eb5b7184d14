SPECIFICATION Spec
CONSTANTS
  Requests = {r1}
  Jobs = {j1}
  MaxFaults = 0
  SlowShutdowns = TRUE
INVARIANT CloseLeavesTerminalScans
