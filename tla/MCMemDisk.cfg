CONSTANTS
    MAX_MDISKS = 8
    MaxCreates = 2
    MaxSectors = 2
    UWidth = 8
    Offsets = {0, 1, 2}
    CreateOutcomes = {"ok", "open", "fstat", "read"}
    a = a
    OrigData = OrigData
    GarbageData = GarbageData
    Orig <- OrigData
    Garbage <- GarbageData
    Images <- MCImages
    Vals <- MCVals
SPECIFICATION Spec
INVARIANTS TypeOK ChsWithinDisk MdAccessInBounds
PROPERTIES AbsDiskRefined
