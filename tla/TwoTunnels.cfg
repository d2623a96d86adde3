\* Two launches of one job or of two, two tunnels, input, and restarts.
SPECIFICATION Spec
CONSTANTS
  j1 = j1  j2 = j2  NoJob = NoJob  NoInfo = NoInfo
  JobId = {j1, j2}
  Kind = {"shell", "unknown"}
  MaxLaunches = 2
  MaxTunnels = 2
  MaxOutput = 3
  MaxInput = 3
  OutputCap = 1
  InputCap = 1
  Monitors = {}
  Stops = TRUE
SYMMETRY Symmetry
CONSTRAINT Streams
INVARIANT TypeOK
INVARIANT TunnelStream
INVARIANT TakeOver
INVARIANT KeyboardStream
