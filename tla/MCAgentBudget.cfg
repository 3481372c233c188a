SPECIFICATION PromptSpec
CONSTANTS
  None = None
  found = found
  Agents = {found}
  Flushers = {f1}
  MaxUnder = 2
  Policies <- ThePolicies
  DefaultPolicy <- Kills
  Configs <- TheConfigs
  Costs = {0, 1}
  GlobalLimit = 1
  GlobalPeriod = 2
  MaxRequests = 1
  Window = 1
  LateCalls = TRUE
  MaxTime = 2
  MaxCalls = 2
  MaxSpend = 2
INVARIANTS ExceededKillEnds ThresholdsFire OverspendBounded NoBurst
PROPERTY KillsStand
CHECK_DEADLOCK FALSE
