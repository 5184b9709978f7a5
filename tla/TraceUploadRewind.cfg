SPECIFICATION Spec
CONSTANTS
  Sources = {s1}
  Record = {a, b}
  Alone = {b}
  Collectors = {c1, c2}
  Free = Free
  None = None
  MaxChunk = 2
  MaxRecords = 3
  MaxTruncations = 1
  MaxLosses = 1
  MaxFaults = 1
  MaxOrphans = 1
SYMMETRY Symmetry
INVARIANTS TypeOK AckedByWorker
PROPERTY ForwardOnly
