SPECIFICATION Spec
CONSTANTS
  None = None
  NoValue = NoValue
  Name <- MCName
  Fold <- MCFold
  Server = {"sv"}
  Plugin = {"pig", "long"}
  Length <- MCLength
  MaxName = 64
  Drafts <- MCDrafts
  Configs <- MCConfigs
  Repos <- MCRepos
  Slug <- MCSlug
  FirstVersion <- MCFirstVersion
  MaxOps = 4
CHECK_DEADLOCK FALSE
INVARIANTS BuiltIsCurrent InvocationsDistinct Delivered ScannedWhole
  VersionNamesOutput ReleasesRead
PROPERTIES OnWholeReleases
