SPECIFICATION MCSpec
CONSTANT
    CUT = FALSE
INVARIANTS
    ReadsExactly
    KeptWhole
    SeenIsDrawn
    WallsHold
\* Maps are cooked, read and grouped once.
CHECK_DEADLOCK FALSE
