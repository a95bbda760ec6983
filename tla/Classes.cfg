SPECIFICATION Spec
CONSTANTS
    Programs <- MCPrograms
    MaxBody = 3
    MaxMain = 3
CHECK_DEADLOCK FALSE
INVARIANTS
    OneInstancePerType
    InfersTypes
    InitializedBeforeUse
    MembersConstructed
