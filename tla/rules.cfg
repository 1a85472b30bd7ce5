SPECIFICATION RulesSpec
CONSTANTS
  Preceders = {"&&", "||", "??", "?", ":", "return", "=>"}
  MaxCells = 4
  NotThere = NotThere
  Holders <- MCHolders
  Urls <- MCUrls
  Traits <- MCTraits
  Spelling <- MCSpelling
  LabelAttributes = {"title", "value", "children"}
  LabelProps <- MCLabelProps
  LabelContexts <- MCLabelContexts
  CodeContexts <- MCCodeContexts
  Families <- MCFamilies
  Caps = {0, 9}
  EnglishFiles <- MCEnglishFiles
  Overlays <- MCOverlays
  Reports <- MCReports
  Scores = {7, 8, 9, 10}
  Targets <- MCTargets
  Vocabulary <- MCVocabulary
  Forbidden = {".env"}
  Number <- MCNumber
  ProperNames <- MCProperNames
  PlainDirs <- MCPlainDirs
  Words <- MCWords
  MaxNumber = 3
  Patches <- MCPatches
  Diffs <- MCDiffs
  Descriptions <- MCDescriptions
  SeriesTexts <- MCSeriesTexts
  PatchNames <- MCPatchNames
  FileNames <- MCFileNames
INVARIANTS HunksExplain OnlyTranslations CodeStringsKept LangFilesKept VerdictEarned PatchFilesHold SeriesKept
