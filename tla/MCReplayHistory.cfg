SPECIFICATION Spec
CONSTANTS
    MaxHistory = 1
    MaxTurns = 3
    MaxRounds = 2
    MaxResults = 2
INVARIANTS
    PastTurnsReplayed
