SPECIFICATION FairSpec
CONSTANTS
  Clients = {c1, c2}
  Servers = {s1, s2}
  Crowded = {s2}
  QueueSize = 1
PROPERTIES
  Answered
CHECK_DEADLOCK FALSE
