SPECIFICATION FairSpec
CONSTANTS
    Runs = {r1, r2}
    TTL = 2
    MaxTime = 5
INVARIANTS
    ExpiryCopiesAgree
    VersionIdentifiesState
    OverwriteOnlyAcrossLives
PROPERTIES
    OnlyExpiredRowsDeleted
    RequestsAnswered
