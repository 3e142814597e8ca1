SPECIFICATION Spec
CONSTANTS
    Workspaces = {w1, w2}
    Capabilities = {c1, c2}
INVARIANTS
    TypeOK
    DurableAnswers
    PrivateCapability
PROPERTIES
    SteadyHolderSurvives
    ImplementsGlobalLease
