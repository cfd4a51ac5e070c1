CONSTANTS
  prod = prod
  local = local
  prodYaml = prodYaml
  localYaml = localYaml
  Ids = {prod, local}
  IdOf <- Names
  Local = local
  CertFiles = TRUE
  Files = {prodYaml, localYaml}
  MaxStarts = 3
  MaxEdits = 2
SPECIFICATION FairSpec
INVARIANTS ListedIsDeclared RegisteredIsListed
PROPERTIES BrokenIsKept MetricsAreNoticed
\* The last process has ended and nothing changes any more.
CHECK_DEADLOCK FALSE
