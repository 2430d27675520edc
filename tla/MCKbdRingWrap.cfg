\* 'A' typed repeatedly against INT 16h/00 on a three-word ring.
CONSTANTS
    START = 30
    END = 36
    MaxScans = 4
    STS2 = 0
    OobKeys = {}
    Empty = Empty
    FloppyWord = FloppyWord
    NoScan = NoScan
    Scancodes = {30}
    T1Rows <- MCT1Rows
    T2Rows <- MCT2Rows
SPECIFICATION Spec
CHECK_DEADLOCK FALSE
PROPERTY KeyQueueRefined
