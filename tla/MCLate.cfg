SPECIFICATION LateSpec
CONSTANTS
    Bots = {b1, b2}
    FULL_HP = 2
    MAX_PROJECTILES = 3
    FREEZE = 2
    PAUSE = 3
    TICK_HZ = 3
    SECOND = 7
    CATCH_UP = 2
    MAX_TIME = 12
    Configs <- Configurations
    MAX_BOTS = 1
    HEALTH = 1
    BOT_HP = 2
    Damages = {1, 2}
    CAPACITY = 2
    LIFETIME = 3
    LOSE = 1
    Volleys = {1}
    BOT_MAG = 1
    BOT_RELOAD = 2
    POSE = 1
    FINGERS = {1, 2}
    AREAS = {"fire", "reload", "walk", "move", "look"}
    CONTROLS = {"fire", "reload", "map", "zoom", "clear"}
    MODS = 2
    MAPS = 2
    Networks = TRUE
    STATUSES = {"", "waiting", "offline"}
    KEEP = 2
    ROWS = 2
    SAMPLES = 3
    FRAMES = 7
INVARIANT
    FailureShown
