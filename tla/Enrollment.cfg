SPECIFICATION MCFairSpec
CONSTANTS
  Processes = {p1, p2}
  Commands = {"ensure", "enroll", "collect"}
  Free = Free
  None = None
  MaxApprovals = 6
  MaxExpiries = 1
  MaxRevocations = 1
  MaxResets = 1
  MaxFaults = 1
  MaxMishaps = 2
INVARIANTS OneBrowser NeverTheRejected
PROPERTIES NoApprovalWhilePending EventuallyEnrolled
