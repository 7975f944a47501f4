SPECIFICATION Spec
CONSTANTS
  Threads = {t1, t2, t3}
  Capacity = 1
  None = None
  t1 = t1
  t2 = t2
  t3 = t3
SYMMETRY Symmetry
CHECK_DEADLOCK FALSE
INVARIANTS
  StuckOnlyByReentry
