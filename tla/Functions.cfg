CONSTANTS
    Bases <- MCBases
    Programs <- MCPrograms
SPECIFICATION Spec
INVARIANTS
    NeverReentered
    CallsSelect
    SoundTypes
PROPERTIES
    ReturnTypeStable
    Terminates
