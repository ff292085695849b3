SPECIFICATION SearchSpec
CONSTANTS
  a = a
  b = b
  c = c
  Stage <- ThreeIds
  MaxStages = 3
INVARIANTS
  ValidateExact
  VisitedSettled
  CollectExact
PROPERTIES
  SearchEnds
CHECK_DEADLOCK FALSE
