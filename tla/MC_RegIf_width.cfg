CONSTANTS
    Ids <- MCIds
    RawSizes = {16}
    ViewOffs = {4}
    ViewSizes = {8}
    AccOffs = {0, 7, 15}
    Widths = {1, 4}
SPECIFICATION Spec
INVARIANT OkAccessInBounds
