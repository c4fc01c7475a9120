SPECIFICATION Spec
CONSTANTS
  Clis = {c1, c2}
  Windows = {w1, w2}
  None = None
SYMMETRY Interchangeable
INVARIANTS OneWindow OneLaunch TokenOnce HandedOffWasTaken
CHECK_DEADLOCK FALSE
