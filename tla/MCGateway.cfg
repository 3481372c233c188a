SPECIFICATION MCLiveSpec
CONSTANTS
  None = None
  r1 = r1
  r2 = r2
  Requests = {r1, r2}
  Inputs <- TheInputs
  Chains <- TheChains
  Configured = {"openai", "anthropic"}
  KeyMap <- TheKeyMap
  Calls = {c1, c2}
  c1 = c1
  c2 = c2
  QueueSize = 1
  MaxStarts = 2
  Docs <- TheDocs
  Bodies <- TheBodies
  Models <- TheModels
  BuiltIn <- ThePrices
  Overrides <- TheOverrides
INVARIANTS LedgersAgree AnswersAreCharged SentToItsProvider ChargedToItsAgent OrderlyExitKeepsAll BilledAsReceived
PROPERTIES StopHolds ShutdownEnds
CHECK_DEADLOCK FALSE
