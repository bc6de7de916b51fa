SPECIFICATION FairSpec
CONSTANTS
  c1 = c1  c2 = c2  op = op  a = a  b = b  m1 = m1  m2 = m2  None = None
  CR = {c1, c2}
  Namespace = {op, a}
  OperatorNs = op
  ConfigMapName = {m1, m2}
  DefaultCm = m1
  HelmCR = {}
  SubsetCR = {c1}
  CanGetNs = FALSE
  MemberChoices <- JustA
  CmChoices = {None, m2}
  UserOps = {"rename", "delete"}
  CacheLag = FALSE
  MaxUserOps = 3
  MaxNsEvents = 1
  MaxFaults = 0
INVARIANT CompletedMeansProjected CompletedMeansListed
PROPERTY Converges
CHECK_DEADLOCK FALSE
