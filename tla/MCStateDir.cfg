\* Two invocations that start together; a rename fails only because of the other.
INIT StateDirInit
NEXT StateDirNext
CONSTANTS
  Processes = {1, 2}
  Spurious = FALSE
INVARIANT WorkIsFound
CHECK_DEADLOCK FALSE
