SPECIFICATION Spec
CONSTANTS
  d1 = d1  d2 = d2  o1 = o1  o2 = o2
  Drafts = {d1}
  Ops = {o1, o2}
  Prs = {p1}
  Accounts = {a1}
  Heads = {h1}
  Notes = {n1}
  NoOp = noop
  Marked = FALSE
  MaxVersion = 2
  MaxReviews = 2
  MaxCrashes = 1
INVARIANTS SentOnce NoDoublePublication ConfirmedHasEvidence
  PublishedHasEvidence RejectedNeverPosted
SYMMETRY OpSymmetry
CHECK_DEADLOCK FALSE
