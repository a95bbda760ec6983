CONSTANTS
    Name <- MCName
    TextPrefix <- MCTextPrefix
    Disks <- AllDisks
SPECIFICATION Spec
INVARIANTS
    AllResolvedOneLib
    ModulesMatchImports
PROPERTY
    TerminationWhereClimbsArrive
