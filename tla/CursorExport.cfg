SPECIFICATION EFairSpec
CONSTANTS
  Sessions <- MCSessions
  Transcripts <- MCTranscripts
  Databases <- MCDatabases
  Subjects = {1}
  Nothing = Nothing
  SeenLimit = 3
  Chunk = 1
  MaxPages = 2
  MaxWrites = 2
  MaxFailures = 1
PROPERTIES CompleteMeansExported TerminalLast ShortComplete EventuallyExported
