SPECIFICATION WadSpec
CONSTANT
    CUT = TRUE
INVARIANT
    FoundIsNamed
CHECK_DEADLOCK FALSE
