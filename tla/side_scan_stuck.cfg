\* Two instances, the credentials of one refused; no fault.
SPECIFICATION FairSpec
CONSTANTS
  j1 = j1
  j2 = j2
  w1 = w1
  w2 = w2
  Jobs = {j1, j2}
  Denied = {j2}
  Workers = {w1}
  Ids <- MCIds
  NoId = NoId
  NoMessage = NoMessage
  TimeLimit = 1
  Ttl = 2
  MaxRetries = 0
  MaxFaults = 0
PROPERTIES
  JobReachesTerminal
\* The jobs run out.
CHECK_DEADLOCK FALSE
