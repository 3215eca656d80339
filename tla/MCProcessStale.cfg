CONSTANTS
  Req = {r1, r2}
  Pid = {p1}
  Reuse = "afterClose"
  MayHang = FALSE
  MaySpoof = FALSE
  MayLeave = FALSE
  MaxSessions = 2
  MaxTracked = 2
  MaxStarts = 2
SPECIFICATION Spec
SYMMETRY Symmetry
CHECK_DEADLOCK FALSE
INVARIANT SessionReachesItsOwn
