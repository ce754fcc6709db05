CONSTANTS
    Ids <- MCIds
    RawSizes = {0, 16}
    ViewOffs = {0, 4, 12}
    ViewSizes = {0, 4, 8, 16}
    AccOffs = {0, 3, 4, 7, 8, 12, 15, 16}
    Widths = {1, 4}

SPECIFICATION Spec
INVARIANT ConfinedToSlice
