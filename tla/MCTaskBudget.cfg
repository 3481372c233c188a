SPECIFICATION FairSpec
CONSTANTS
  Tasks = {t1}
  Requests = {r1, r2}
  Admins = {a1}
  Flushers = {f1}
  strict = strict
  lenient = lenient
  Agents = {strict, lenient}
  TaskLimit <- TwoCaps
  Cap = 3
  MaxCost = 2
  MaxVersion = 3
INVARIANTS TypeOK HoldsMatchInFlight CapHolds TotalsLand
PROPERTY ChangedTotalsReachStore
CHECK_DEADLOCK FALSE
