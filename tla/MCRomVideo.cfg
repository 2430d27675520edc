CONSTANTS
    ModeArgs <- MCModeArgs
    PageArgs <- MCPageArgs
    ColArgs <- MCColArgs
    RowArgs <- MCRowArgs
    Windows <- MCWindows
    LineArgs <- MCLineArgs
    CountArgs <- MCCountArgs
    TtyArgs <- MCTtyArgs
    JunkPages <- MCJunkPages
    OtherAH <- MCOtherAH
    MaxCalls <- MCMaxCalls
SPECIFICATION Spec
INVARIANT Int10WritesInAddressedPage
CHECK_DEADLOCK FALSE
