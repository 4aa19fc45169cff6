SPECIFICATION Spec
CONSTANTS
    Messages = {m1, m2}
    None = None
    Results = {"attempted", "success", "timeout", "failed"}
    Failures = {}
    Declared = {}
SYMMETRY MessageSymmetry
INVARIANTS
    EmptyQueryIsOfTarget
