SPECIFICATION Spec
CONSTANTS
    Fixes = {f1, f2, f3}
    Stops = {s1}
    BufferCap = 2
    DrainLimit = 2
    NoFix = NoFix
    Poison = {}
SYMMETRY FixSymmetry
INVARIANT NoFixVanishes
