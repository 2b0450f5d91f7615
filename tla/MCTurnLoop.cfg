SPECIFICATION FairSpec
CONSTANTS
    MaxIterations = 10
    MaxDeltas = 4
INVARIANTS
    TypeOK
    TurnIsAnswered
    SpokenFallbackIsMarked
    GuardTracksBlock
PROPERTIES
    ResendOnlyForHaTools
    RequestEnds
