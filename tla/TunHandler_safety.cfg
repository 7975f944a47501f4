SPECIFICATION Spec
CONSTANTS
  Callers = {c1, c2}
  Dialers = {d1, d2}
  Appliers = {d2}
  Handlers = {h1, h2, h3}
  Capacity = 2
  None = None
  c1 = c1
  c2 = c2
  d1 = d1
  d2 = d2
  h1 = h1
  h2 = h2
  h3 = h3
SYMMETRY Symmetry
INVARIANTS
  TypeOK
  UpcallHoldsLiveRef
  RefReleasedOnce
  NoRefLeak
  ListenerOwned
  QuietAfterStop
  SkipOnlyInLapse
  DescriptorOwned
