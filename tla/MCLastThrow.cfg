SPECIFICATION Spec
CONSTANTS
    Bots = {b1, b2}
    FULL_HP = 2
    MAX_PROJECTILES = 3
    FREEZE = 2
    PAUSE = 3
INVARIANT
    DieAndYouLose
