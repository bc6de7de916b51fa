SPECIFICATION Spec
CONSTANTS
  c1 = c1  c2 = c2  op = op  a = a  b = b  m1 = m1  m2 = m2  None = None
  CR = {c1, c2}
  Namespace = {op, a, b}
  OperatorNs = op
  ConfigMapName = {m1}
  DefaultCm = m1
  HelmCR = {c2}
  SubsetCR = {}
  CanGetNs = TRUE
  MemberChoices <- OneOrBoth
  CmChoices = {None}
  UserOps = {"edit", "delete"}
  CacheLag = TRUE
  MaxUserOps = 3
  MaxNsEvents = 0
  MaxFaults = 1
INVARIANT TypeOK IInv
PROPERTY FinalizerBeforeProjection CleanedBeforeRelease ImplementsLifecycle
CHECK_DEADLOCK FALSE
