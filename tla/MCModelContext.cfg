SPECIFICATION ContextSpec
CONSTANTS
    Lengths = {1, 6}
    MaxEntries = 4
    MaxSingleMessage = 5
    MaxRecentConversation = 7
    MaxHistorySummary = 3
    MaxTurns = 4
    SizeOf <- Sizes
    Limit <- Limits
    Maximum = 10
    Required = {3, 4, 7}
    KeyCost = 1
    NameCost = 1
    Known <- SomeKnown
INVARIANTS
    OmissionsReported
    MemoryConserved
