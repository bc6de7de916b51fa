SPECIFICATION FairSpec
CONSTANTS
  c1 = c1  c2 = c2  op = op  a = a  b = b  m1 = m1  m2 = m2  None = None
  CR = {c1}
  Namespace = {op, a}
  OperatorNs = op
  ConfigMapName = {m1}
  DefaultCm = m1
  HelmCR = {}
  SubsetCR = {}
  CanGetNs = TRUE
  MemberChoices <- WithOwn
  CmChoices = {None}
  UserOps = {"edit", "delete"}
  CacheLag = TRUE
  MaxUserOps = 2
  MaxNsEvents = 2
  MaxFaults = 1
PROPERTY Converges
CHECK_DEADLOCK FALSE
