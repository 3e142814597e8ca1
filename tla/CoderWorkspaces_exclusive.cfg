SPECIFICATION WorkspacesSpec
CONSTANTS
    Workspaces = {w1, w2}
    Capabilities = {c1, c2}
    Threads = {t1, t2}
    Unidentified = {"blank"}
    MountpointErrs = FALSE
    Crashes = FALSE
    ClientTimeouts = FALSE
    LostAnswers = TRUE
    MaxFaults = 2
CHECK_DEADLOCK FALSE
SYMMETRY Symmetry
INVARIANTS
    WorkspacesTypeOK
    AtMostOneMounted
    ContainerHoldsLease
PROPERTIES
    DeletedIsGone
    LeaseOutlivesMount
