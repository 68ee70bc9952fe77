\* One account, an instance, another resource and a data asset, three scans.
SPECIFICATION Spec
CONSTANTS
  a1 = a1
  a2 = a2
  i1 = i1
  r1 = r1
  d1 = d1
  r2 = r2
  n1 = n1
  Accounts <- OneAccount
  Resources <- OneResources
  Collection <- OneCollection
  AccountOf <- OneAccountOf
  Names <- OneNames
  NameOf <- OneNameOf
  Instances <- OneInstances
  Scopes <- OneScopes
  MaxScans = 3
  MaxFaults = 1
INVARIANTS
  TypeOK
  FindingsHaveAssets
  NoDanglingEdges
  HistoryAddsUp
PROPERTIES
  CompletedScanMirrorsCloud
\* The bounded number of scans runs out.
CHECK_DEADLOCK FALSE
