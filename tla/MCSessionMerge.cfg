SPECIFICATION Spec
CONSTANTS
    Messages = {m1, m2}
    None = None
    Results = {"attempted", "failed"}
    Failures <- SomeFailures
    Declared = {}
SYMMETRY MessageSymmetry
INVARIANTS
    MessageIsTarget
    ConclusionFitsTarget
    ArrivalOrderIrrelevant
PROPERTY
    ErrorsConcludeNothing
