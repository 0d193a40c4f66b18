\* An expression with two constants, as an argument.
SPECIFICATION Spec
CONSTANTS
  Programs <- MCPrograms
  UnsetTypes <- MCUnset
  StackSizeMin = 2
  Junk <- MCJunk
  KeyCodes <- MCKeys
  ScreenValues <- MCScreen
CONSTRAINT Quiet
INVARIANT PutnPrintsParameter
