\* INT 13h/08 on a disk of two floppy cylinders.
CONSTANTS
    GOrig = GOrig
    GGarbage = GGarbage
    GData = GData
    Orig <- GOrig
    Garbage <- GGarbage
    GuestData <- GData
    Vals <- MCVals
    MAX_MDISKS = 4
    UWidth = 8
    LBA_WIDTH = 5
    LOWMEM = 67108864
    GRAM = 4
    TIMER_WRAP = 1
    Counts = {1}
    DapSizes = {26}
    CHs = {0}
    DHs = {0}
    Bufs = {0}
    Conts = {0}
    VidModes = {3}
    NO_LBA = 1000
    CFG_TBL = 59125
    DiskImages <- MCParamsDisks
    DiskIoArgs <- MCReadArgs
    Drives = {128}
    CLs = {1}
    Lbas = {0}
SPECIFICATION Spec
INVARIANT DriveParamsRoundTrip
CHECK_DEADLOCK FALSE
