SPECIFICATION Spec
CONSTANTS
    Runs = {r1, r2, r3}
    TTL = 1
    MaxTime = 1
SYMMETRY RunSymmetry
INVARIANTS
    NoConcurrentOverwrite
