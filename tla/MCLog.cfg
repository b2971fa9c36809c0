SPECIFICATION Spec
CONSTANTS
    t1 = t1
    t2 = t2
    Threads = {t1, t2}
    Messages <- MCMessages
    PRINT_BUFF_SIZE = 4
    NUM_BUFF_SIZE = 3
    Width = 8
    UnsupportedTag <- MCUnsupportedTag
    MaxCalls = 1
INVARIANTS
    TypeOK
    OutputIsRendering
    CutOnlyWhenFull
PROPERTIES
    EveryPrintReturns
CHECK_DEADLOCK FALSE
