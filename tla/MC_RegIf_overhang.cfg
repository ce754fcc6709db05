CONSTANTS
    Ids <- MCIds
    RawSizes = {16}
    ViewOffs = {0, 12}
    ViewSizes = {0, 8, 16}
    AccOffs = {0}
    Widths = {1}
SPECIFICATION Spec
INVARIANT ViewsNested
