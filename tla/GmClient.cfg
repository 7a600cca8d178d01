\* Two requests, one page that waits for the connection, one failure.
CONSTANTS
  Request = {q1, q2}
  Page = {p1}
  Nobody = nobody
  MaxFailures = 1
SPECIFICATION FairSpec
CHECK_DEADLOCK FALSE
INVARIANTS
  CalledBackRight
  Accounted
PROPERTIES
  ScheduledAreSent
  AnsweredWhileUp
