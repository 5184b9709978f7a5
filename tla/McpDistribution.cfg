SPECIFICATION Spec
CONSTANTS
  good = good
  better = better
  plain = plain
  agent = agent
  bare = bare
  deleg = deleg
  odd = odd
  big = big
  None = None
  Torn = Torn
  Hubs <- MCHubs
  Frontmatter <- MCFrontmatter
  Rendered <- MCRendered
  Prompt <- MCPrompt
  Size <- MCSize
  Fold <- MCFold
  Length <- MCLength
  Words <- MCWords
  Selections <- MCSelections
  Listings <- MCListings
  Bindings <- MCBindings
  MaxSkillFiles = 2
  MaxSkillBytes = 3
  MaxFiles = 5
  MaxBytes = 7
  MaxToolName = 64
  MaxDepth = 3
  MaxNodes = 5
INVARIANTS ServedWhole BundlesLoad ListingsWhole SkillsWhole
