SPECIFICATION Spec
CONSTANTS
  Processes = {p1, p2}
  Commands = {"ensure"}
  Free = Free
  None = None
  MaxApprovals = 2
  MaxExpiries = 0
  MaxRevocations = 0
  MaxResets = 0
  MaxFaults = 0
  MaxMishaps = 0
SYMMETRY Symmetry
INVARIANT OneApproval
