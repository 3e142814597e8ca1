SPECIFICATION Spec
CONSTANTS
    Workspaces = {w1}
    Capabilities = {c1, c2}
    Threads = {t1, t2}
    Unidentified = {"blank"}
    MountpointErrs = FALSE
SYMMETRY Symmetry
INVARIANTS
    TypeOK
    NoOrphans
    MountedIsBacked
PROPERTIES
    OnlyDeleteLosesData
    ImplementsGlobalLease
