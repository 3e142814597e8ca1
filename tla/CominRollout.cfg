SPECIFICATION Spec
CONSTANTS
    Hosts = {"node05", "server01", "node01"}
    AutoHosts = {"node05"}
    Fresh = {"server01"}
    Flagged = {"server01"}
    Held = {"node05"}
    CanaryRing <- MCCanaryRing
    Order <- MCOrder
    Servers = {"server01"}
    ExpectVersion = TRUE
INVARIANTS
    TypeOK
    SkewExplained
    OneByOne
PROPERTIES
    RetriesAreBounded
    RetriesEnd
