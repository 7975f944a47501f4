SPECIFICATION DnsSpec
CONSTANTS
  Queries = {q1, q2, q3, q4}
  LogCapacity = 3
  Nil = Nil
  q1 = q1
  q2 = q2
  q3 = q3
  q4 = q4
INVARIANTS
  DnsTypeOK
  RecordedOnce
PROPERTIES
  KeepsHistory
