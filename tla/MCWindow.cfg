\* One topic at a time; see the README for the bounds.
SPECIFICATION Spec
CONSTANTS
  Tip = 3
  MaxTags = 3
  TagLimit = 3
  MaxReleases = 1
  History = 2
  MaxNames = 3
  MaxRows = 3
  HunkRanges <- RangeEdges
  MaxLine = 3
  MaxFiles = 2
  MaxTotal = 2
  MaxLines = 5
  Owners = {"a", "compare", "et"}
  MaxDepth = 3
  Hunks <- TwoHunks
  FileLines = 12
  Long = {2, 4, 8}
  Marked = {3, 5, 9}
  Height = 4
  Step = 1
  Budget = 4
  MaxActs = 4
  Rooms <- ThreeFiles
  Threshold = 2
  Deltas <- UpAndDown
  MaxEvents = 5
  MaxReplies = 1
  Languages = 1
  MaxEdits = 4
  TreePaths <- ThreeTrees
  OldPaths <- OneMove
  Lists <- TwoReleases
  TreeQueries = {0, 4}
  MaxBrowses = 4
INVARIANTS
  EachCommitReleasedOnce
  ConfirmedIsShown
  AcceptedIsSound
  SameSource
  ContextIsContiguous
  TurnIsDeliberate
  PeekIsHeld
  HighlightedEntryExists
  EditsAreNoticed
  TreeShowsChosen
PROPERTIES
  PlaceIsKept
\* Every part has an end: a comment is sent, an address is opened.
CHECK_DEADLOCK FALSE
