\* One topic at a time; see the README for the bounds.
SPECIFICATION Spec
CONSTANTS
  Commits = {c1, c2}
  Accounts = {a1, a2}
  MaxMoves = 2
  MaxLost = 1
  MaxAttempts = 2
  Addresses = {"A", "B"}
  MaxOpens = 2
  MaxTyping = 1
  MaxTags = 2
  Snapshots = {s1, s2}
  Operations = {o1}
  Keep = 1
  Shown = 1
  MaxClock = 1
  Files = {f1, f2, f3}
  PageSize = 1
  MaxPages = 3
  ListingCap = 2
  MaxHeads = 2
  MaxRuns = 2
  MaxReviews = 3
  MaxListed = 2
  Changes = {x1, x2}
  MaxTrailEvents = 2
  MaxReopens = 1
  Tries = 2
INVARIANTS
  SnapshotCoherent
  BlameOfItsList
  AckedViewStored
  MissingIsTold
  GreenIsEarned
  TheNamedChange
PROPERTIES
  WorkIsKept
\* Every part has an end: a snapshot is shown or refused.
CHECK_DEADLOCK FALSE
