\* Six vertices, two states of the cloud, one change or fault.
SPECIFICATION Spec
CONSTANTS
  planned = planned
  shrunk = shrunk
  vm = vm
  group = group
  vpc = vpc
  app = app
  user = user
  bucket = bucket
  none = none
  w1 = w1
  w2 = w2
  Resources = {vm, group, vpc}
  Identities = {app, user}
  DataAssets = {bucket}
  None = none
  MaxDepth = 4
  Reach = 3
  Clouds <- MCClouds
  Workers = {w1, w2}
  MaxPaths = 50
  MaxQueue = 2
  MaxEvents = 1
INVARIANTS
  TypeOK
  FlagsCoverPaths
  RatingsAgree
PROPERTIES
  GraphSettles
