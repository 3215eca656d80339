SPECIFICATION ProcessSpec
CONSTANTS
  req1 = req1  req2 = req2  pid1 = pid1  pid2 = pid2  Absent = Absent
INVARIANTS
  ProcessesTyped ReachesOwnUnlessStarting SessionsAreCounted ShutdownKillsAll BackendAccounted
PROPERTIES CallsReturn StopEnds
CHECK_DEADLOCK FALSE
