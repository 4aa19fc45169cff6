SPECIFICATION ConnectedSpec
CONSTANTS
    Requests = {r1, r2, r3}
    None = None
    RefreshMs = 2
    MaxTime = 2
    MaxResets = 1
    MaxOutages = 1
SYMMETRY RequestSymmetry
INVARIANTS
    FailureNotCached
    NoStaleRegistry
    UnsupportedIsLacking
    RecoverySeen
    AnswersAreHonest
