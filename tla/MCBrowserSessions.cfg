SPECIFICATION MCSpec
CONSTANTS
    s1 = s1
    s2 = s2
    c1 = c1
    c2 = c2
    Sessions = {s1, s2}
    Clients = {c1, c2}
    Profiles = {p1}
    Operations = {"list", "close", "delete", "snapshot", "act", "page"}
    Reaper = Reaper
    Closer = Closer
    OtherGateway = OtherGateway
    Nobody = Nobody
    MaxFaults = 1
    MaxVersion = 1
    MaxObservations = 2
SYMMETRY symmetry
INVARIANT TypeOK
INVARIANT RegisteredOwnsProfile
INVARIANT NothingOrphaned
INVARIANT OneActPerObservation
