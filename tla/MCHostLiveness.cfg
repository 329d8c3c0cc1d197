SPECIFICATION Spec
CONSTANTS
  Nil = Nil
PROPERTIES
  ServicesSettle
CHECK_DEADLOCK FALSE
