SPECIFICATION FairSpec
CONSTANTS
  Callers = {c1}
  Paths = {a}
  MaxBytes = 2
  MaxCount = 3
  Longest = 2
  MaxWritten = 8
  None = None
  c1 = c1
  a = a
INVARIANTS
  NewestFirst
  
  ClosedOnlyByFailure
PROPERTIES
  KeepsRecent
  BufferIsFlushed
