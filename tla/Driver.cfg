CONSTANTS
    p1 = p1
    p2 = p2
    Proc = {p1, p2}
    MaxArgs = 3
    File <- MCFile
    BaseOf <- MCBaseOf
    Scenarios <- MCScenarios
SPECIFICATION Spec
INVARIANTS
    DefectsFail
PROPERTIES
    BuildsItsProgram
    CleansUp
