SPECIFICATION Spec
CONSTANTS
  MaxId = 4
  Quota = 2
  MaxAttempts = 2
  Pinnable = {}
  Explicit = FALSE
  Faults = {"crash"}
  MaxFaults = 4
INVARIANTS AlwaysBootable
PROPERTIES PromotionKeepsWayBack
