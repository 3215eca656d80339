SPECIFICATION FileSpec
CONSTANTS
  g1 = g1  g2 = g2  f1 = f1  f2 = f2  f3 = f3  text1 = text1  text2 = text2
  Gone = Gone  Torn = Torn  Nothing = Nothing
INVARIANTS FilesTyped NoLostUpdate
PROPERTY FileCallsReturn
CHECK_DEADLOCK FALSE
