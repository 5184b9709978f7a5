SPECIFICATION HistorySpec
CONSTANTS
  Sources = {s1, s2}
  Record = {a}
  Alone = {}
  Collectors = {c1, c2}
  Free = Free
  None = None
  MaxChunk = 2
  MaxRecords = 2
  MaxTruncations = 0
  MaxLosses = 0
  MaxFaults = 1
  MaxOrphans = 1
SYMMETRY Symmetry
PROPERTIES CompleteMeansAcked ImplementsDelivery
