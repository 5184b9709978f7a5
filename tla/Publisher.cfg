SPECIFICATION PFairSpec
CONSTANTS
  Contents = {x, y}
  Requested = {1}
  None = None
  Committers = {r1, r2}
  Starts = {"snapshot", "template"}
  MaxEdits = 2
  MaxFaults = 1
INVARIANTS VersionNamesContent
PROPERTIES ImplementsReleases EventuallyPublished
