CONSTANTS
  None = None
  MaxVersion = 2
  Reopen = TRUE
  MaxSetups = 3
  MaxChanges = 0
  MaxFaults = 0
  MaxCrashes = 0
SPECIFICATION Spec
CHECK_DEADLOCK FALSE

PROPERTY UpdateIsVerified
