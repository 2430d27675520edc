\* All traps with the ROM's own requests and in-range guest requests.
\* The host stops on POWER_OFF (exit(0)): a state with no successor is the
\* end of the VM, not a deadlock.
CONSTANTS
    GOrig = GOrig
    GGarbage = GGarbage
    GData = GData
    Orig <- GOrig
    Garbage <- GGarbage
    GuestData <- GData
    Vals <- MCVals
    DiskImages <- MCDisks
    DiskIoArgs <- MCDiskIoArgs
    MAX_MDISKS = 4
    UWidth = 8
    LBA_WIDTH = 5
    LOWMEM = 67108864
    GRAM = 4
    TIMER_WRAP = 1
    Drives = {0, 128, 129}
    Counts = {1}
    DapSizes = {16, 26}
    CHs = {0}
    CLs = {0, 1, 2}
    DHs = {0}
    Lbas = {0, 1, 2}
    Bufs = {0, 1}
    Conts = {0, 1, 2, 3, 4}
    VidModes = {3, 18, 19}
    NO_LBA = 1000
    CFG_TBL = 59125
SPECIFICATION Spec
VIEW PersistentView
INVARIANTS TypeOK E820WalkExact
PROPERTIES DiskDataIntegrity
CHECK_DEADLOCK FALSE
