SPECIFICATION Spec
CONSTANTS
  MaxId = 3
  Quota = 2
  MaxAttempts = 0
  Pinnable = {2}
  Explicit = TRUE
  Faults = {"crash", "error"}
  MaxFaults = 2
INVARIANTS IdsAreFresh SwitchIsComplete
PROPERTIES PruneIsSafe
