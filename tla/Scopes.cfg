CONSTANT Programs <- MCPrograms
SPECIFICATION Spec
INVARIANTS
    RefersLexically
    RejectsOnlyIllFormed
    PointersLive
