SPECIFICATION MCSpec
CONSTANTS
    Desktops = {d1, d2}
    Calls = {c1, c2}
    MaxNumber = 3
    MaxLeases = 2
    MaxRenumberings = 1
    None = None
SYMMETRY symmetry
VIEW view
INVARIANT TypeOK
INVARIANT PoolIsConsistent
INVARIANT PlacedWithLease
PROPERTY RevokedStaysRevoked
