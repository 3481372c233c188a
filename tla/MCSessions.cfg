SPECIFICATION Spec
CONSTANTS
  None = None
  ann = ann
  bob = bob
  People = {ann, bob}
  Changed = changed
  c1 = c1
  c2 = c2
  c3 = c3
  c4 = c4
  Calls = {c1, c2, c3, c4}
  TTL = 1
  MaxTime = 1
SYMMETRY Symmetry
INVARIANTS SessionIsBounded LoggedOutStaysOut AccountIsOnePersons
CHECK_DEADLOCK FALSE
