SPECIFICATION Spec
CONSTANTS
    Identities = {"admin", "titan"}
    Titan = "titan"
    Fleet = {"admin"}
    Signals = FALSE
INVARIANTS
    FailureRestores
