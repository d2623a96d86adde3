\* One shell and one tunnel.
SPECIFICATION Spec
CONSTANTS
  j1 = j1  j2 = j2  NoJob = NoJob  NoInfo = NoInfo
  JobId = {j1}
  Kind = {"shell"}
  MaxLaunches = 1
  MaxTunnels = 1
  MaxOutput = 1
  MaxInput = 0
  OutputCap = 1
  InputCap = 1
  Monitors = {1}
  Stops = FALSE
INVARIANT OutputHasReader
\* The launches are bounded: when all are over nothing is left to do.
CHECK_DEADLOCK FALSE
