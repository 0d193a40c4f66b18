SPECIFICATION Spec
CONSTANTS
  Programs <- CursorProgram
  StackSizeMin = 2
  Junk <- MCJunk
  KeyCodes <- MCKeys
  ScreenValues <- MCScreen
INVARIANT CursSetsPosition
