SPECIFICATION FairSpec
CONSTANTS
    MaxIterations = 3
    MaxDeltas = 3
INVARIANT
    NeverRaises
