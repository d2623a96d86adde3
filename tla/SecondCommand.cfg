\* Two commands of the command line, one after the other.
SPECIFICATION Spec
CONSTANTS
  robot = robot  user = user  c1 = c1  c2 = c2
  Agent = {robot}
  Client = {user}
  Conn = {c1, c2}
  NoConn = NoConn
  Nobody = Nobody
  MaxNumber = 0
  Cap = 1
  Command = {"answered"}
PROPERTY NextAnswered
\* The task ends, or waits for good.
CHECK_DEADLOCK FALSE
