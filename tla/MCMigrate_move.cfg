CONSTANTS
    BlockWords = 2
    Appended = 1
    V9_ENTRY_COUNT = 6
    ENTRY_COUNT = 4
SPECIFICATION Spec
INVARIANTS Carried NoPhantom MovesWhole Arrives
