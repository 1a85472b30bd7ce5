SPECIFICATION Spec
CONSTANTS
  Paths <- MCPaths
  Dirs <- MCDirs
  DirOf <- MCDirOf
  Listed <- MCListed
  Globs <- MCGlobs
  Matches <- MCMatches
  Manifests <- MCManifests
  old = old
  new = new
  Pins = {old, new}
  English <- MCEnglish
  Counterpart <- MCCounterpart
  Tests <- MCTests
  SourceNames <- MCSourceNames
  Upstream <- MCUpstream
  Allowlist = {}
  GlossaryRead = TRUE
  MaxEdits = 3
  MaxCommits = 1
SYMMETRY Symmetry
INVARIANTS CheckMeansOwned OwnersForeseen NothingSlips
CHECK_DEADLOCK FALSE
