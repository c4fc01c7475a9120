SPECIFICATION ProgressSpec
CONSTANTS
  Clis = {c1, c2}
  Windows = {w1}
  None = None
  Drafts = {d1}
  MaxEdits = 1
  MaxLoads = 1
  Ops = {o1, o2}
  Prs = {p1}
  Accounts = {a1, a2}
  Heads = {h1}
  Notes = {n1}
  NoOp = noop
  MaxVersion = 1
  MaxReviews = 1
  MaxCrashes = 2
PROPERTIES DeliverEnds BusyEnds ReopenResolves
CHECK_DEADLOCK FALSE
