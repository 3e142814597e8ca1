SPECIFICATION Spec
CONSTANTS
    Slots = 2
    Rounds = 2
    TurnsPerRound = 2
    MaxLines = 2
    CacheRounds = 1
CHECK_DEADLOCK FALSE
INVARIANTS
    TypeOK
    MissNeverReuses
    RejectionEndsRun
    TurnTimesFit
    PercentilesBracket
    VerificationIsExplained
    AlertIsExplained
PROPERTIES
    TurnsReuseThePrefix
    AgentIsBounded
    CacheIsBounded
    AgentEnds
    CacheEnds
