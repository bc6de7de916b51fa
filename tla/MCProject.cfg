SPECIFICATION FairSpec
CONSTANTS
  n1 = n1  s1 = s1  s2 = s2  r1 = r1  r2 = r2  None = None
  core = core  apps = apps  pods = pods  jobs = jobs  get = get  list_ = list_
  escalate = escalate  o1 = o1  o2 = o2  Wild = Wild  NoName = NoName
  Group = {core, apps}
  Resource = {pods, jobs}
  Verb = {get, list_, escalate}
  supportedVerbs = {get, list_}
  Name = {o1, o2, NoName}
  Ns = {n1}
  RoleName = {r1, r2}
  RulesOf <- TheirRules
  ManagedRules <- OwnRules
  ObjectName <- AllNames
  NameOf <- OwnNames
  Sa = {s1, s2}
  StartBound <- OneOrTwo
  MaxPushes = 2
  MaxEdits = 1
  MaxFaults = 1
INVARIANT TypeOK NobodyBlocks SuccessMeansCopied SuccessMeansBoundFromScratch
  SubsetReports PushesAsAbstracted CopiesGrantExactly CopiesGrantSomething
  GoroutinesInv
PROPERTY PushReturns
CHECK_DEADLOCK FALSE
