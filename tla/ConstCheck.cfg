SPECIFICATION Spec
CONSTANTS
    Programs <- MCPrograms
    MaxBody = 2
CHECK_DEADLOCK FALSE
INVARIANTS
    ImmutablesKept
    RefusesOnlyModifications
    CheckEnds
