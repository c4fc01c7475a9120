\* Two steps of a compare, two paths, and no tags.
INIT TimelineInit
NEXT TimelineNext
CONSTANTS
  Tip = 1
  MaxTags = 0
  TagLimit = 1
  MaxReleases = 1
  History = 2
  MaxNames = 2
INVARIANT
  RenamedIsFound
\* The releases are placed once.
CHECK_DEADLOCK FALSE
