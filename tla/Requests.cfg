\* Two clients; they share an id, one has another that is not authorised. Nothing is lost.
SPECIFICATION FairSpec
CONSTANTS
  gateway = gateway  robot = robot  user = user  guest = guest  c1 = c1  c2 = c2
  Agent = {gateway, robot}
  Client = {user, guest}
  Conn = {c1, c2}
  NoConn = NoConn
  Nobody = Nobody
  Serving = {gateway}
  Authorized = {user, gateway}
  Ids <- SharedIds
  Cap = 4
  SubscriberCap = 2
  Sending <- Requests
  MaxNumber = 2
  MaxOutput = 0
  MaxTicks = 0
  MaxLost = 0
INVARIANT AnswersBelong
INVARIANT AnsweredOnce
PROPERTY Answered
\* What clients and agents send is bounded: at the end nothing is left to do.
CHECK_DEADLOCK FALSE
