SPECIFICATION Spec
CONSTANTS
  Size = 4
  Data = {0, 1}
  MaxLen = 3
  MaxBytes = 6
PROPERTIES ImplementsRing
CHECK_DEADLOCK FALSE
