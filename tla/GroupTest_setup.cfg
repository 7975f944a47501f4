SPECIFICATION SetupSpec
CONSTANTS
  Tests = {t1}
  vpn = vpn
  fast = fast
  backup = backup
  near = near
  far = far
  Groups <- MCGroups
  Nodes <- MCNodes
  UrlTests <- MCUrlTests
  Graphs <- MCGraphs
  Requests <- MCRequests
  Selected <- OneSelection
  Latencies <- MCLatencies
  None = None
  t1 = t1
INVARIANTS
  PinStays
