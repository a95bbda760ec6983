CONSTANTS
    a = a
    b = b
    c = c
    NDirs = 3
    Name <- MCName
    Path <- MCPath
    File <- MCFile
    Root <- MCRoot
    Disks <- MCDisks
SPECIFICATION Spec
INVARIANTS
    ImportsExactlyReachable
    NoDuplicateDefinitions
    OncePerFile
PROPERTY
    Termination
