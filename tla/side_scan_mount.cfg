\* Two instances, two workers, no retry, no fault.
SPECIFICATION Spec
CONSTANTS
  j1 = j1
  j2 = j2
  w1 = w1
  w2 = w2
  Jobs <- MCJobs
  Denied = {}
  Workers <- MCWorkers
  Ids <- MCIds
  NoId = NoId
  NoMessage = NoMessage
  TimeLimit = 1
  Ttl = 2
  MaxRetries = 0
  MaxFaults = 0
INVARIANTS
  NoVolumeLeak
\* The jobs run out.
CHECK_DEADLOCK FALSE
