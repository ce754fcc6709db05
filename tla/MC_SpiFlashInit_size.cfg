CONSTANTS
    Ids <- MCSpecIds
    Widths = {1, 4}

SPECIFICATION Spec

INVARIANT OpenedSizeValid

CHECK_DEADLOCK FALSE
