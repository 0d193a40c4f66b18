\* The compiled programs, right on every stack that is large enough.
SPECIFICATION CSpec
CONSTANTS
  Programs <- MCPrograms
  StackSizeMin = 2
  Junk <- MCJunk
  KeyCodes <- MCKeys
  ScreenValues <- MCScreen
INVARIANTS
  CompiledKeepRules
  RightOrStopped
  StatementBalance
  EndsEmpty
PROPERTIES
  ImplementsCallStack
