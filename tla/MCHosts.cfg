SPECIFICATION HostsSpec
CONSTANTS
    MAPS = 1
    MODS = 1
    COUNTS = {2}
    BUNDLES = {1}
    MAX_LOG = 4
    TEXTURES = 2
    PIECES = 2
    PSP_MODS = 2
    BOTS = {1, 3}
    MAX_SAID = 3
INVARIANTS
    WorldAsAsked
    NothingOfAnother
    GraphicsMatchWorld
    NoStalePress
    PushedWhole
PROPERTIES
    WaitEnds
