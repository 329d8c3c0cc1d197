SPECIFICATION Spec
CONSTANTS
  Nil = Nil
PROPERTIES
  RunsEnd
  WaitsEnd
CHECK_DEADLOCK FALSE
