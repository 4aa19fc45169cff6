SPECIFICATION Spec
CONSTANTS
    Prepares = {p1}
    Confirms = {c1}
    Summaries = {s1}
    Diagnoses = {d1}
    None = None
    TokenTTL = 1
    MaxTime = 1
    MaxVersion = 3
    MaxLife = 2
PROPERTIES
    StaleStateRejected
