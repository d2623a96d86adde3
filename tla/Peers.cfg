\* Two agents: a clock that is set, a message lost, a restart, a relayed message.
SPECIFICATION Spec
CONSTANTS
  a1 = a1  a2 = a2  NoPeer = NoPeer
  Agent = {a1, a2}
  Tick = 2
  Limit = 3
  Lateness = 0
  MaxDelay = 1
  MaxTime = 8
  MaxLost = 1
  MaxBack = 1
  MaxAhead = 1
  Width = 16
  Adjusted = {a1}
  Stoppable = {a2}
  Talkers = {a2}
  Relayed = {a1}
INVARIANT TypeOK
INVARIANT OnlineMeansAlive
INVARIANT LivePeerOnline
\* Time is bounded: at the end nothing is left to do.
CHECK_DEADLOCK FALSE
