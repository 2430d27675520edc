\* The guest makes every 1- and 2-byte access of MCAccessesSpec, in any
\* order; does bhyve abort only on the fatal ones?
SPECIFICATION Spec
CONSTANTS
    Ports <- MCPorts
    Accesses <- MCAccessesSpec
    Modes <- MCModes
    InitImage <- MCInitImage
    MaxOps = 2
    glyphs <- MCFont
    FontFiles <- MCNoFont
CHECK_DEADLOCK FALSE
INVARIANTS
    AbortOnlyWhenFatal
