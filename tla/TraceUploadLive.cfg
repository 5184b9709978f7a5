SPECIFICATION FairSpec
CONSTANTS
  Sources = {s1}
  Record = {a}
  Alone = {}
  Collectors = {c1, c2}
  Free = Free
  None = None
  MaxChunk = 3
  MaxRecords = 3
  MaxTruncations = 0
  MaxLosses = 0
  MaxFaults = 2
  MaxOrphans = 2
INVARIANT ConflictsReconcile
PROPERTY EverythingAcked
