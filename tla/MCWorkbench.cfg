SPECIFICATION FairSpec
CONSTANTS
    Texts = {x1, x2}
    Tokens = {t1}
    Confirms = {c1, c2}
    None = None
    MaxSessions = 2
    MaxVersion = 2
INVARIANTS
    TokenFitsText
    PreparedAsShown
PROPERTIES
    PageSettles
