\* One client, channels that overrun, messages that are lost or encrypted.
SPECIFICATION Spec
CONSTANTS
  gateway = gateway  robot = robot  user = user  guest = guest  c1 = c1  c2 = c2
  Agent = {gateway, robot}
  Client = {user}
  Conn = {c1}
  NoConn = NoConn
  Nobody = Nobody
  Serving = {gateway}
  Authorized = {user}
  Ids <- OneId
  Cap = 1
  SubscriberCap = 1
  Sending <- Mixed
  MaxNumber = 2
  MaxOutput = 1
  MaxTicks = 1
  MaxLost = 1
INVARIANT TypeOK
INVARIANT InOrderOnce
\* What clients and agents send is bounded: at the end nothing is left to do.
CHECK_DEADLOCK FALSE
