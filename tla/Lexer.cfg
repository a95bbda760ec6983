CONSTANTS
    MaxNumber = 4
    MaxOperator = 3
    MaxText = 4
    MaxString = 6
    Sources <- MCSources
    keywords <- MCKeywords
SPECIFICATION Spec
INVARIANTS
    OneVerdict
    TokensOrdered
    LexedExactly
PROPERTY
    Termination
