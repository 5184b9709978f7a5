SPECIFICATION FairSpec
CONSTANTS
  Procs = {p1, p2}
  Events = {w, a, b, c}
  Recurring = {w}
  Unsaved = {a, b}
  None = None
  Limit = 2
  Batch = 2
  MaxNotices = 1
  MaxFaults = 1
INVARIANTS TypeOK NoticesAnswered QueueBounded
PROPERTIES EventuallyCollected
