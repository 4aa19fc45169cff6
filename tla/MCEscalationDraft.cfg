SPECIFICATION FairSpec
CONSTANTS
    Prepares = {p1, p2}
    Confirms = {c1, c2}
    Summaries = {s1, s2}
    Diagnoses = {d1}
    None = None
    TokenTTL = 1
    MaxTime = 1
    MaxVersion = 3
    MaxLife = 1
INVARIANTS
    AtMostOneLiveToken
    UsedTokensHaveDrafts
    SuccessMeansDraft
PROPERTIES
    ImplementsOneShot
    RequestsAnswered
