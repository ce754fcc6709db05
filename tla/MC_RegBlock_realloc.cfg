CONSTANTS
    Offsets <- MCOffsets8
    Layouts <- MCLinear
    Garbage <- MCGarbage
    Base = 0
    Start = 0
    Size = 128
    RegsSize = 0
    InitCapacity = 8
    Growth = 4
    MaxCount = 12
    AllocFailures = {"list"}
    Types = {1}
    Versions = {1}
    MaxIndex = 0
SPECIFICATION Spec
INVARIANT FreeReleasesAll
CHECK_DEADLOCK FALSE
