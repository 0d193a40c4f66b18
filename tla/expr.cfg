\* Expressions, compiled and run.
SPECIFICATION Spec
CONSTANTS
  Programs <- MCPrograms
  UnsetTypes <- MCUnset
  StackSizeMin = 2
  Junk <- MCJunk
  KeyCodes <- MCKeys
  ScreenValues <- MCScreen
CONSTRAINT Quiet
INVARIANTS
  ExpressionsRight
  AcceptedBalances
