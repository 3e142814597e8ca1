SPECIFICATION Spec
CONSTANTS
    Identities = {"admin", "titan"}
    Titan = "titan"
    Fleet = {"admin"}
    Signals = TRUE
INVARIANTS
    TypeOK
    FailureRestoresUnlessWriteFails
    OldKeyInReach
    DestroyedOnlyWhenProved
    SuccessIsProved
    CominPutBack
PROPERTIES
    CominSeesWholeKeys
