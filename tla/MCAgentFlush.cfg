SPECIFICATION Spec
CONSTANTS
  None = None
  found = found
  Agents = {found}
  Flushers = {f1, f2}
  MaxUnder = 1
  Policies <- ThePolicies
  DefaultPolicy <- Daily
  Configs <- NoConfig
  Costs = {1}
  GlobalLimit = 1
  GlobalPeriod = 2
  MaxRequests = 1
  Window = 1
  LateCalls = FALSE
  MaxTime = 1
  MaxCalls = 2
  MaxSpend = 1
SYMMETRY Symmetry
INVARIANT CleanIsSafe
CHECK_DEADLOCK FALSE
