SPECIFICATION Spec
CONSTANTS
  a = a
  b = b
  c = c
  Stage <- ThreeStages
INVARIANTS
  TypeOK
  DependenciesBeforeStage
  NothingLockedForever
  NeverWaiting
  NothingFabricated
PROPERTIES
  OrderedExecution
CHECK_DEADLOCK FALSE
