SPECIFICATION LSpec
CONSTANTS
  x1 = x1
  x2 = x2
  l1 = l1
  l2 = l2
  f1 = f1
  f2 = f2
  VarNames = {}
  LabelNames = {}
  FuncNames = {}
  ArrayLen = 2
  Families <- Looping
  Declarations <- NoDeclarations
  Expressions = {"key"}
  LINKS_BY_LABEL_MAX = 20
  VECTOR_STEP_SIZE = 100
  ReallocMoves = TRUE
  FUNC_MAX_PARAMS = 5
  PrintCounts = {}
CONSTRAINT LoopsFirst
INVARIANTS
  OrderAccepted
CHECK_DEADLOCK FALSE
