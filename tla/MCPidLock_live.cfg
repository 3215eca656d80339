CONSTANTS
  c1 = c1  c2 = c2
  Client = {c1, c2}
  Panel = {c2}
  Proc = {c1, c2}
  ProcOf <- OwnProcess
  Nobody = Nobody
  MaxCalls = 2
  MaxFault = 1
  MaxCrash = 1
SPECIFICATION FairSpec
CHECK_DEADLOCK FALSE
PROPERTIES CallsReturn StaleLockRecovered
