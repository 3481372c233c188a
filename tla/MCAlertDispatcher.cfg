SPECIFICATION MCSpec
CONSTANTS
  warning = warning
  again = again
  kill = kill
  fifty = fifty
  Events = {warning, again, kill}
  Keys = {fifty}
  KeyOf <- TwoOfThree
  Destinations = 2
  Workers = {w1, w2}
  QueueSize = 1
  MaxRetries = 1
INVARIANT ThresholdSentOnce
PROPERTIES OneFate DrainIsComplete QueuedEnds CloseTerminates
CHECK_DEADLOCK FALSE
