SPECIFICATION Spec
CONSTANTS
  Messages = {m, n}
  Result = Result
  None = None
  MaxEvents = 3
  MaxChanges = 1
  MaxFaults = 1
SYMMETRY MCSymmetry
INVARIANTS SentStays RevisionsSay CountedOnce
