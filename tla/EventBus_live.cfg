SPECIFICATION FairSpec
CONSTANTS
  Callers = {c1, c2}
  Workers = {w1, w2}
  Listeners = {l1}
  Streams = {"log"}
  None = None
  c1 = c1
  c2 = c2
  w1 = w1
  w2 = w2
  l1 = l1
PROPERTIES
  EveryCallReturns
