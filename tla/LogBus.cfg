SPECIFICATION FairSpec
CONSTANTS
  Producers = {p1, p2}
  Capacity = 2
  Burst = 3
  None = None
  p1 = p1
  p2 = p2
INVARIANTS
  NothingVanishes
  NewcomerLostOnlyInRace
PROPERTIES
  KeepsLossyLog
  DispatchReturns
  PipelineFlows
