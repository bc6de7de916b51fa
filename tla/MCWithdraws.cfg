SPECIFICATION Spec
CONSTANTS
  c1 = c1  c2 = c2  op = op  a = a  b = b  m1 = m1  m2 = m2  None = None
  CR = {c1, c2}
  Namespace = {op, a, b}
  OperatorNs = op
  ConfigMapName = {m1}
  DefaultCm = m1
  HelmCR = {}
  SubsetCR = {}
  CanGetNs = TRUE
  MemberChoices <- AllTargets
  CmChoices = {None}
  UserOps = {"edit", "delete"}
  CacheLag = FALSE
  MaxUserOps = 4
  MaxNsEvents = 0
  MaxFaults = 1
INVARIANT RbacAccounted CompletedMeansProjected CompletedMeansListed RecordsKeptInv
PROPERTY SharedNamespaceKept
CHECK_DEADLOCK FALSE
