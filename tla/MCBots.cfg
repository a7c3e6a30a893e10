SPECIFICATION Spec
CONSTANTS
    MAPS = 1
    MODS = 1
    COUNTS = {}
    BOTS = {3}
    MAX_SAID = 3
INVARIANT
    BotsAsAsked
