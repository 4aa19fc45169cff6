SPECIFICATION Spec
CONSTANTS
    Runs = {r1, r2}
    Messages = {m1, m2}
    None = None
    SwitchTTL = 1
    MaxIssues = 1
    MaxVersion = 4
    MaxTime = 1
SYMMETRY Symmetries
INVARIANTS
    OfferHonoured
    DecidedOnce
    FactsOfCurrentCase
PROPERTIES
    TargetMovesByCustomer
CHECK_DEADLOCK FALSE
