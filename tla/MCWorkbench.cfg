SPECIFICATION Spec
CONSTANTS
  Drafts = {d1}
  MaxEdits = 3
  MaxLoads = 1
INVARIANTS AckIsDurable CloseKeepsShownText MarkedWasSent
PROPERTY StoreNeverGoesBack
CHECK_DEADLOCK FALSE
