\* Is there always an error to return when the loop ends?
CONSTANTS
  MaxRetries = 3
  MaxCalls = 3
  MaxExpiries = 2
SPECIFICATION Spec
INVARIANT NeverPanics
CHECK_DEADLOCK FALSE
