\* Every program comes to its verdict.
SPECIFICATION FairSpec
CONSTANTS
  Programs <- MCPrograms
  StackSizeMin = 2
  Junk <- MCJunk
  KeyCodes <- MCKeys
  ScreenValues <- MCScreen
PROPERTIES
  ReachesVerdict
