SPECIFICATION WorkspacesFairSpec
CONSTANTS
    Workspaces = {w1}
    Capabilities = {c1}
    Threads = {t1, t2}
    Unidentified = {"blank"}
    MountpointErrs = FALSE
    Crashes = TRUE
    ClientTimeouts = TRUE
    LostAnswers = FALSE
    MaxFaults = 3
PROPERTIES
    DeleteConverges
