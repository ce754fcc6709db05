CONSTANTS
    Protocols = {"QUAD_STR"}
    DummyCounts = {10}

SPECIFICATION Spec

INVARIANT ClockHighFenced

CHECK_DEADLOCK FALSE
