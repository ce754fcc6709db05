CONSTANTS
    Protocols = {"STR", "DUAL_STR", "QUAD_STR"}
    DummyCounts = {0, 2}

SPECIFICATION Spec

INVARIANT ByteRoundTrip

CHECK_DEADLOCK FALSE
