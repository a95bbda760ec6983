CONSTANTS
    MaxTokens = 3
    Sources <- MCSources
SPECIFICATION Spec
INVARIANTS
    NeverStarved
    RaceOnlyAfterReject
    ProgramIsWhole
PROPERTIES
    LexerEnds
    KeepsContract
