SPECIFICATION Spec
CONSTANTS
  Callers = {c1, c2}
  Workers = {w1, w2}
  Listeners = {l1, l2}
  Streams = {"log", "connections"}
  None = None
  c1 = c1
  c2 = c2
  w1 = w1
  w2 = w2
  l1 = l1
  l2 = l2
INVARIANTS
  UpcallOnLiveRef
  RefsOwned
  NeverOverlap
