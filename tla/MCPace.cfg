\* One second of a crossplay session on the Mac, in units of 1/960 second, of
\* which a tick of the room takes 16 and a tick of the game 15.
SPECIFICATION Spec
CONSTANTS
    TICK_HZ = 60
    SECOND = 960
    CATCH_UP = 4
    MAX_TIME = 960
    HOST_HZ = 64
INVARIANT
    SameRate
CHECK_DEADLOCK FALSE
