SPECIFICATION MCSpec
CONSTANTS
    HISTORY = 2
    BATCH = 2
    STALE_TICKS = 2
    RESTART_TICKS = 2
    FULL_HP = 1
    DAMAGES = {1}
    MAX_GENERATION = 3
    MAX_TICK = 5
INVARIANTS
    DuelTypeOK
    QueueKept
    SessionsKept
    RoundKept
PROPERTIES
    DamageNeedsBothPresent
    ExecutionAdvancesByOne
    KeepsTheMatch
    EveryoneIsAccepted
CHECK_DEADLOCK FALSE
