SPECIFICATION Spec
CONSTANTS
    Workspaces = {w1}
    Capabilities = {c1}
    Threads = {t1, t2}
    Unidentified = {"blank", "data", "other"}
    MountpointErrs = FALSE
PROPERTIES
    OnlyDeleteLosesData
