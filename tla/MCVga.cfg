\* The VGA register file, DAC and display thread under every order of the
\* guest's port accesses, mode switches and vga_render steps.
SPECIFICATION Spec
CONSTANTS
    Ports <- MCPorts
    Accesses <- MCAccesses
    Modes <- MCModes
    InitImage <- MCInitImage
    MaxOps = 5
    glyphs <- MCFont
    FontFiles <- MCFontFiles
\* bhyve exits when an assert fires, and the guest stops after MaxOps
\* accesses; after either only the display thread may still move.
CHECK_DEADLOCK FALSE
INVARIANTS
    TypeOK
    DacProtocol
    FontNeverPartial
    GlyphLineIsReference
PROPERTIES
    ImageFollowsSize
