\* Two accounts of one cloud, one scan each.
SPECIFICATION Spec
CONSTANTS
  a1 = a1
  a2 = a2
  i1 = i1
  r1 = r1
  d1 = d1
  r2 = r2
  n1 = n1
  Accounts <- TwoAccounts
  Resources <- TwoResources
  Collection <- TwoCollection
  AccountOf <- TwoAccountOf
  Names <- TwoResources
  NameOf <- TwoNameOf
  Instances = {}
  Scopes <- TwoScopes
  MaxScans = 2
  MaxFaults = 0
PROPERTIES
  DeletesOwnAccountOnly
\* The bounded number of scans runs out.
CHECK_DEADLOCK FALSE
