SPECIFICATION FairSpec
CONSTANTS
  scopeA = scopeA  scopeB = scopeB  cm1 = cm1  cm2 = cm2  n1 = n1  n2 = n2
  p1 = p1  p2 = p2  c1 = c1  c2 = c2
  Scope = {scopeA, scopeB}
  ConfigMap = {cm1, cm2}  StartCm <- OneMap
  Ns = {n1, n2}
  Package = {p1, p2}  Csv = {c1, c2}  PackageOf <- FirstPackage
  Hooked = {c1}  Bare = {c2}
  Absent = Absent  Plain = Plain
  StartEnv <- FirstPlain  StartValidated <- AllValid  StartHook <- Narrowed
  StartMarks = {p1}  StartEnabled <- OneOrBoth  Touched = {scopeA}  MaxOthers = 1  MaxFaults = 1
INVARIANT TypeOK
PROPERTIES PatchedMeansInjected Injected Settles
CHECK_DEADLOCK FALSE
