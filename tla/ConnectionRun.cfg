SPECIFICATION Spec
CONSTANTS
  None = None
  Kinds <- AllKinds
  MaxFrame = 3
  MaxLines = 5
  MaxOpens = 2
INVARIANTS
  EveryLineOnceInOrder
  OpenMeansNamed
  NoSocketLeft
PROPERTIES
  ImplementsChannel
CHECK_DEADLOCK FALSE
