SPECIFICATION FreshSpec
CONSTANTS
    Desktops = {d1, d2}
    Calls = {c1, c2}
    MaxNumber = 3
    MaxLeases = 2
    MaxRenumberings = 0
    None = None
SYMMETRY symmetry
INVARIANT CompletionEndsControl
