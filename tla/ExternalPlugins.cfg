SPECIFICATION Spec
CONSTANTS
  P = P
  A = A
  B = B
  None = None
  Latest = Latest
  Malformed = Malformed
  Ids = {P}
  Urls = {A, B}
  Commits <- MCCommits
  Directories <- MCDirectories
  Hubs <- MCHubs
  Files <- MCFiles
  t1 = t1
  t2 = t2
  t3 = t3
  t4 = t4
  t5 = t5
  MaxCommits <- MCMaxCommits
  Private = {A}
  MaxEdits = 1
  Texts = {1}
INVARIANTS HostsCurrent RecordsFit
PROPERTIES VersionsRise UpdatesResume
