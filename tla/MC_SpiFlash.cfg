CONSTANTS
    PAGE = 2
    SUBSECTOR = 4
    SECTOR = 8
    BANK = 8
    MaxSize = 16
    Sizes = {8, 16}
    InitMems <- MCInitMems
    Addrs = {0, 1, 4, 8}
    WriteLens = {0, 1, 3}
    EraseLens = {0, 4, 6, 12}
    ReadLens = {3}
    MaxCalls = 2
    MaxCloses = 1

SPECIFICATION Spec

INVARIANT WriteOutcome
INVARIANT EraseOutcome
INVARIANT ReadOutcome
INVARIANT NeverWhileBusy
INVARIANT IdleMeansReady

PROPERTY ImplementsFlashMemory

CHECK_DEADLOCK FALSE
