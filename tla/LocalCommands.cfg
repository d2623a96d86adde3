\* Two clients and every kind of command.
SPECIFICATION Spec
CONSTANTS
  robot = robot  user = user  c1 = c1  c2 = c2
  Agent = {robot}
  Client = {user}
  Conn = {c1, c2}
  NoConn = NoConn
  Nobody = Nobody
  MaxNumber = 3
  Cap = 2
  Command = {"subscribe", "answered", "unanswered", "garbled", "binary"}
INVARIANT TypeOK
PROPERTY FirstAnswered
\* The task ends, or waits for good.
CHECK_DEADLOCK FALSE
