SPECIFICATION LiveSpec
CONSTANTS
  Callers = {c1, c2}
  Dialers = {d1, d2}
  Appliers = {d2}
  Handlers = {h1, h2}
  Capacity = 1
  None = None
  First = h1
  Starters = {c1}
  AtOnce = 3
  c1 = c1
  c2 = c2
  d1 = d1
  d2 = d2
  h1 = h1
  h2 = h2
PROPERTIES
  EveryCallReturns
