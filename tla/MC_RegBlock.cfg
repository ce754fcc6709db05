CONSTANTS
    Offsets <- MCOffsets3
    Layouts <- MCLayouts
    Garbage <- MCGarbage
    Base = 256
    Start = 0
    Size = 48
    RegsSize = 0
    InitCapacity = 2
    Growth = 4
    MaxCount = 6
    AllocFailures = {}
    Types = {1, 2}
    Versions = {1, 2}
    MaxIndex = 1
SPECIFICATION Spec
INVARIANTS EnumerationCorrect FindSelectsNth FreeReleasesAll
PROPERTY Terminates
CHECK_DEADLOCK FALSE
