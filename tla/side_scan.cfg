\* One instance, whose attempts overlap by retry and redelivery on two workers,
\* one retry, two faults; a snapshot expires after twice the time limit.
SPECIFICATION Spec
CONSTANTS
  j1 = j1
  j2 = j2
  w1 = w1
  w2 = w2
  Jobs = {j1}
  Denied = {}
  Workers <- MCWorkers
  Ids <- MCIds
  NoId = NoId
  NoMessage = NoMessage
  TimeLimit = 1
  Ttl = 2
  MaxRetries = 1
  MaxFaults = 2
INVARIANTS
  TypeOK
  YaraReadsOwnVolume
  NoSnapshotLeak
  SnapshotOutlivesScan
  NoJobLost
PROPERTIES
  FailedIsFinal
SYMMETRY WorkerSymmetry
\* The jobs run out.
CHECK_DEADLOCK FALSE
