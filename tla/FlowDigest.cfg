SPECIFICATION Spec
CONSTANTS
  MaxContent = 2
  Valid = {1}
  MaxMade = 2
  MaxEvents = 0
INVARIANT CheckedIsValidated
CHECK_DEADLOCK FALSE
