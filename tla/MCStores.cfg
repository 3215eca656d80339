SPECIFICATION MCSpec
CONSTANTS
    c1 = c1  c2 = c2
    r0 = r0  r1 = r1  r2 = r2  r3 = r3
    w1 = w1  w2 = w2
    s1 = s1  s2 = s2
    d1 = d1  d2 = d2  d3 = d3
    a1 = a1  a2 = a2  a3 = a3
    x1 = x1  x2 = x2  l1 = l1
    None = None
    Calls = {c1, c2}
    Digests = {d1, d2, d3}
    Declared <- declared
SYMMETRY symmetry
INVARIANTS
    TypesOK RoomsReachable CompletionIsEarned RegistryIsSound ArtifactsAreSound
    ActsOnWhatWasSeen
PROPERTY WorkIsKept
CHECK_DEADLOCK FALSE
