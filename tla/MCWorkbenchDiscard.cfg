SPECIFICATION Spec
CONSTANTS
  Drafts = {d1}
  MaxEdits = 2
  MaxLoads = 0
INVARIANT DiscardIsFinal
CHECK_DEADLOCK FALSE
