CONSTANTS
    Ids <- MCIds
    Widths = {1, 4}

SPECIFICATION Spec

INVARIANT KnownPartsSized

CHECK_DEADLOCK FALSE
