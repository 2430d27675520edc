\* INT 10h/00 AL=13h reaches vga_switchmode(0x13) while the display thread
\* renders.
SPECIFICATION Spec
CONSTANTS
    Ports <- MCPorts
    Accesses <- MCAccesses
    Modes <- MCModes
    glyphs <- MCFont
    FontFiles <- MCNoFont
    InitImage <- MCInitImage
    MaxOps = 2
CHECK_DEADLOCK FALSE
PROPERTIES
    RenderInImage
