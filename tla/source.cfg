\* The compiler: every short source of three kinds.
SPECIFICATION LSpec
CONSTANTS
  x1 = x1
  x2 = x2
  l1 = l1
  l2 = l2
  f1 = f1
  f2 = f2
  VarNames = {x1, x2}
  LabelNames = {l1, l2}
  FuncNames = {f1, f2}
  ArrayLen = 2
  Families <- Structured
  Declarations <- ScalarAndArray
  Expressions = {"key", "bytes"}
  LINKS_BY_LABEL_MAX = 2
  VECTOR_STEP_SIZE = 100
  ReallocMoves = TRUE
  FUNC_MAX_PARAMS = 5
  PrintCounts = {}
CONSTRAINT Bounded
INVARIANTS
  TypeOK
  JumpsLand
  OrderAccepted
  RoutinesWhole
  PlacesDisjoint
  HeapExact
PROPERTIES
  ImplementsScopes
SYMMETRY Symmetry
CHECK_DEADLOCK FALSE
