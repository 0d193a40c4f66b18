SPECIFICATION Spec
CONSTANTS
  Programs <- AssignProgram
  StackSizeMin = 2
  Junk <- MCJunk
  KeyCodes <- MCKeys
  ScreenValues <- MCScreen
INVARIANT AssignmentCopies
