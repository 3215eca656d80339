CONSTANTS
  c1 = c1  c2 = c2  c3 = c3
  Client = {c1, c2, c3}
  Panel = {c3}
  Proc = {c1, c2, c3}
  ProcOf <- OwnProcess
  Nobody = Nobody
  MaxCalls = 1
  MaxFault = 2
  MaxCrash = 1
SPECIFICATION Spec
CHECK_DEADLOCK FALSE
INVARIANTS TypeOK MutualExclusion HolderKeepsDirectory NothingLeftBehind
PROPERTY Refinement
