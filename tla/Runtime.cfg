SPECIFICATION Spec
CONSTANTS
  Callers = {c1, c2, c3}
  Profiles = {bare, full}
  Grouped = {full}
  Ports = {p1}
  None = None
  bare = bare
  c1 = c1
  c2 = c2
  c3 = c3
  full = full
  p1 = p1
SYMMETRY Symmetry
INVARIANTS
  TypeOK
  RunningServesConfig
  UpdateFindsConfig
  OrderMatchesConfig
  OpenWhileStopped
