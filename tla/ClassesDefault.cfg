SPECIFICATION Spec
CONSTANTS
    Programs <- MCPrograms
    MaxBody = 1
    MaxMain = 0
CHECK_DEADLOCK FALSE
INVARIANT DefaultsConstructed
