\* Sources compiled, loaded and run.
SPECIFICATION TSpec
CONSTANTS
  x1 = x1
  x2 = x2
  f1 = f1
  l1 = l1
  VarNames = {x1, x2}
  LabelNames = {l1}
  FuncNames = {f1}
  ArrayLen = 1
  Families <- Compiled
  Declarations <- ScalarOnly
  Expressions = {"number", "key", x1, x2, f1}
  LINKS_BY_LABEL_MAX = 2
  VECTOR_STEP_SIZE = 100
  ReallocMoves = TRUE
  FUNC_MAX_PARAMS = 2
  PrintCounts = {2}
  StackSizeMin = 48
  Junk = {170}
  KeyCodes = {0, 1}
CONSTRAINTS
  Bounded
  Quiet
INVARIANTS
  LinesBalance
  EndsWell
PROPERTIES
  ImplementsSource
SYMMETRY Symmetry
CHECK_DEADLOCK FALSE
