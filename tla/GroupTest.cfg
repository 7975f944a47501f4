SPECIFICATION Spec
CONSTANTS
  Tests = {t1, t2}
  vpn = vpn
  fast = fast
  backup = backup
  near = near
  far = far
  Groups <- MCGroups
  Nodes <- MCNodes
  UrlTests <- MCUrlTests
  Graphs <- MCGraphs
  Requests <- MCRequests
  Selected <- NoSelection
  Latencies <- MCLatencies
  None = None
  t1 = t1
  t2 = t2
SYMMETRY Symmetry
INVARIANTS
  ChildrenFirst
  PinStays
  SeatedOnFastest
  NoCircularWait
