CONSTANTS
  None = None
  MaxVersion = 2
  Reopen = FALSE
  MaxSetups = 4
  MaxChanges = 1
  MaxFaults = 3
  MaxCrashes = 2
SPECIFICATION Spec
CHECK_DEADLOCK FALSE
INVARIANTS TypeOK Recoverable NeverOlder RolledBack
PROPERTY UpdateIsVerified
