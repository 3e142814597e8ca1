SPECIFICATION WorkspacesSpec
CONSTANTS
    Workspaces = {w1, w2}
    Capabilities = {c1, c2}
    Threads = {t1}
    Unidentified = {"blank"}
    MountpointErrs = FALSE
    Crashes = TRUE
    ClientTimeouts = FALSE
    LostAnswers = FALSE
    MaxFaults = 1
INVARIANTS
    AtMostOneMounted
