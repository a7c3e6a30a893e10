SPECIFICATION FairSpec
CONSTANTS
    MAPS = 1
    MODS = 1
    COUNTS = {2}
PROPERTIES
    LoadingEnds
