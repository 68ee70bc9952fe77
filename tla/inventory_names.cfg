\* One account, an instance with a name, two scans and no fault.
SPECIFICATION Spec
CONSTANTS
  a1 = a1
  a2 = a2
  i1 = i1
  r1 = r1
  d1 = d1
  r2 = r2
  n1 = n1
  Accounts <- OneAccount
  Resources <- FewResources
  Collection <- FewCollection
  AccountOf <- FewAccountOf
  Names <- FewNames
  NameOf <- FewNameOf
  Instances <- OneInstances
  Scopes <- FewScopes
  MaxScans = 2
  MaxFaults = 0
PROPERTIES
  CascadeReachesFindings
\* The bounded number of scans runs out.
CHECK_DEADLOCK FALSE
