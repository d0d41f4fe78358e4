SPECIFICATION Spec
CONSTANTS
  MaxSubmits = 2
  Attempts = 2
  Faults = {"refuse_cancel"}
PROPERTIES CancelPullsEverything
CHECK_DEADLOCK FALSE
