SPECIFICATION Spec
CONSTANTS
  Drafts = {d1}
  MaxEdits = 1
  MaxLoads = 0
INVARIANT CloseWaitsForPublication
CHECK_DEADLOCK FALSE
