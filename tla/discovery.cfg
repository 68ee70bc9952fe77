\* One cluster, two workers, three requests, one fault.
SPECIFICATION Spec
CONSTANTS
  prod = prod
  test = test
  a1 = a1
  own = own
  b1 = b1
  w1 = w1
  w2 = w2
  Providers = {prod}
  Assets <- MCAssets
  Owner <- MCOwner
  TypeOf <- MCTypeOf
  Types = 2
  Silent = {1}
  Foreign = {own}
  Workers <- MCWorkers
  MaxRequests = 3
  MaxQueue = 1
  MaxRetries = 1
  MaxFaults = 1
INVARIANTS
  TypeOK
  PathLeadsToSecret
  PurgeIsFinal
  JobsSettle
PROPERTIES
  NoSecretLeft
  LeaseSpec
  DiscoveryMirrorsCloud
SYMMETRY MCSymmetry
