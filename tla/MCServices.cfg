\* One topic at a time; see the README for the bounds.
SPECIFICATION Spec
CONSTANTS
  OutputLimit = 1
  MaxOutput = 2
  Readers = {r1, r2, r3, r4}
  Limit = 2
  N = 2
  MaxPushes = 2
  Paths = {p1, p2}
  MaxEdits = 3
  MaxRounds = 2
  Workers = {w1, w2}
  Batches = {1, 2}
  MaxSpans = 4
  Folders = 2
  Ids = {"x", "y"}
  TickLimit = 1
  MaxReviews = 2
INVARIANTS
  OutputWhole
  OneInstant
  FanoutWhole
PROPERTIES
  WorkEnds
  NoneWaitsForNothing
  SendDelivers
\* Every part has an end: the run returns, the review is settled.
CHECK_DEADLOCK FALSE
