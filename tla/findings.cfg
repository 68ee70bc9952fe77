\* Two accounts, three findings, two scans, and two of: a finding
\* triaged, an export of single rows, a midnight.
SPECIFICATION Spec
CONSTANTS
  cis = cis
  nist = nist
  iac = iac
  c11 = c11
  c12 = c12
  c21 = c21
  bare = bare
  mfa = mfa
  port = port
  vm = vm
  db = db
  acc1 = acc1
  acc2 = acc2
  none = none
  Versions = {cis, nist, iac}
  Controls = {c11, c12, c21}
  Bare = bare
  FamilyTable <- MCFamilyTable
  Labelled = {}
  HeadOf <- MCHeadOf
  Catalog <- MCCatalog
  None = none
  Weight <- MCWeight
  Keys <- MCKeys
  Rank <- MCRank
  Mapping <- MCMapping
  SeverityOf <- MCSeverityOf
  Scanners = {acc1, acc2}
  AccountOf <- MCAccountOf
  PageSize = 1
  Filters = {{"FAIL", "PASS"}}
  MaxScans = 2
  MaxEvents = 2
INVARIANTS
  TypeOK
  ExportComplete
  PagesAgree
  TrendIsCurrent
PROPERTIES
  TriageNeverLowersAScore
CHECK_DEADLOCK FALSE
