SPECIFICATION Spec
CONSTANTS
  c1 = c1  c2 = c2  op = op  a = a  b = b  m1 = m1  m2 = m2  None = None
  CR = {c1}
  Namespace = {op, a, b}
  OperatorNs = op
  ConfigMapName = {m1}
  DefaultCm = m1
  HelmCR = {}
  SubsetCR = {}
  CanGetNs = TRUE
  MemberChoices <- OneOrBoth
  CmChoices = {None}
  UserOps = {"edit"}
  CacheLag = TRUE
  MaxUserOps = 1
  MaxNsEvents = 0
  MaxFaults = 0
INVARIANT CompletedMeansListed
CHECK_DEADLOCK FALSE
