SPECIFICATION Spec
CONSTANTS
    Bridges = {"game", "other"}
    Second = {"other"}
    Keyed = {"game", "other"}
    NoSlot = NoSlot
    MAX_CONNECTIONS = 3
    IDLE = 2
    MAX_STREAMS = 3
    MAX_ASKS = 2
INVARIANTS
    SlotHeldOnce
    PresentHasConnection
    PolledOncePerPass
    WellKept
PROPERTIES
    HeardInOrder
