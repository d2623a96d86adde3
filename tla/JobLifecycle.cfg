\* Two launches under one id, with failures, crashes and restarts.
SPECIFICATION FairSpec
CONSTANTS
  j1 = j1  j2 = j2  NoJob = NoJob  NoInfo = NoInfo
  JobId = {j1}
  Kind = {"shell", "batch", "malformed", "unknown"}
  MaxLaunches = 2
  MaxTunnels = 0
  MaxOutput = 0
  MaxInput = 0
  OutputCap = 1
  InputCap = 1
  Monitors = {1, 2}
  Stops = TRUE
INVARIANT DoneMeansRemoved
INVARIANT StatusNotAhead
PROPERTY ImplementsPromise
PROPERTY Reported
