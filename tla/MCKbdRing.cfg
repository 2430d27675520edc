\* Keys typed against INT 16h/00 and /10 on a three-word ring.
CONSTANTS
    START = 30
    END = 36
    MaxScans = 4
    STS2 = 0
    OobKeys = {}
    Empty = Empty
    FloppyWord = FloppyWord
    NoScan = NoScan
    Scancodes <- MCScancodes
    T1Rows <- MCT1Rows
    T2Rows <- MCT2Rows
SPECIFICATION Spec
\* After the last scancode a guest blocked in INT 16h waits for ever.
CHECK_DEADLOCK FALSE
INVARIANTS TypeOK
PROPERTIES KeyStored TypedKeyWakesReader
