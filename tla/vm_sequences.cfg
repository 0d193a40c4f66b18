\* Every short program: the machine's own promises.
SPECIFICATION CSpec
CONSTANTS
  Programs <- MCPrograms
  StackSizeMin = 28
  Junk <- MCJunk
  KeyCodes <- MCKeys
  ScreenValues <- MCScreen
CONSTRAINT Bounded
INVARIANTS
  TypeOK
  LinkInv
PROPERTIES
  ImplementsCallStack
  PadsSuffice
