SPECIFICATION FairSpec
CONSTANTS
  scopeA = scopeA  scopeB = scopeB  cm1 = cm1  cm2 = cm2  l1 = l1  l2 = l2  l3 = l3
  pod = pod  deploy = deploy  daemon = daemon  stateful = stateful  foreign = foreign
  Scope = {scopeA, scopeB}
  ConfigMap = {cm1, cm2}
  CmOf <- OwnMaps
  List = {l1, l2, l3}  FirstList = l1  Follows <- Growing  None = None
  Workload = {pod, deploy, daemon, stateful, foreign}
  KindOf <- AllKinds  Reads <- SomeReads  Selects <- SelectAll
  MaxEdits = 2  MaxFaults = 1  Restarting = {pod, deploy}  MaxRestarts = 1  MaxAccess = 1
INVARIANTS TypeOK SuccessMeansRefreshed
PROPERTIES RightsNeverFail PodsFollow
CHECK_DEADLOCK FALSE
