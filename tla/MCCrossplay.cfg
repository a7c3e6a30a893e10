SPECIFICATION MCSpec
CONSTANTS
    HISTORY = 3
    BATCH = 2
    STALE_TICKS = 2
    RESTART_TICKS = 1
    FULL_HP = 1
    DAMAGES = {1}
    MAX_GENERATION = 3
    MAX_TICK = 4
    TIMEOUT = 1
    MAX_WIRE = 2
    MAX_DRIFT = 2
    MAX_FAULTS = 2
    Guests = {0}
    Triggers = {TRUE, FALSE}
INVARIANTS
    InputsKept
    ClientNeverAtFault
    OwnAnswersTaken
    PlaysWhatItHears
PROPERTIES
    ClientNeverGoesBack
CHECK_DEADLOCK FALSE
