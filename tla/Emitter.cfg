CONSTANTS
    Bound = 5
    Nodes <- MCNodes
    Programs <- MCPrograms
SPECIFICATION Spec
INVARIANTS
    WellFormed
    Preserves
    NeverFallsOff
