------------------------------- MODULE MCVga -------------------------------
(***************************************************************************)
(* Model values for Vga: the accesses a guest makes when it programs the   *)
(* DAC (INT 10h/1010 and direct 3C8/3C9 writes), reads input status 1 to   *)
(* reset the attribute flip-flop, writes the GC, sequencer and CRTC with   *)
(* 16-bit index/data OUTs, and touches ports vga.c does not know, plus one *)
(* access of each kind that fails an assert.                               *)
(***************************************************************************)
EXTENDS Vga

In(w, p) == [dir |-> "in", w |-> w, port |-> p, val |-> 0]
Out(w, p, v) == [dir |-> "out", w |-> w, port |-> p, val |-> v]

\* 16-bit OUT of index i and data v to an index port.
OutIdx(p, i, v) == Out(2, p, i + 256 * v)

MCAccesses ==
    { Out(1, \h3c8, 255), OutIdx(\h3c8, 0, \h2a), Out(1, \h3c9, \h15),
      Out(1, \h3c9, \h40), Out(1, \h3c7, 255), In(1, \h3c9), In(2, \h3c8),
      In(1, \h3da), Out(1, \h3c0, \h10), Out(1, \h3c0, \h15),
      In(1, \h3c1),
      OutIdx(\h3ce, 5, \h10), OutIdx(\h3ce, 5, \h20), OutIdx(\h3ce, 9, 0),
      In(1, \h3cf),
      OutIdx(\h3c4, 2, \h0f), OutIdx(\h3c4, 7, 0), In(2, \h3c4),
      OutIdx(\h3d4, \h0e, 7), OutIdx(\h3d4, \h30, 0), In(2, \h3d4),
      Out(1, \h3c2, \h67), In(1, \h3c2), In(1, \h3cc),
      In(1, \h3ca),
      Out(1, \h3d8, 9), In(1, \h3d0), Out(1, \h3d0, 0), In(4, \h3c8) }

\* The accesses spec 4.3 allows: each port access is a 1- or 2-byte transfer.
MCAccessesSpec == {a \in MCAccesses : a.w \in {1, 2}}

(***************************************************************************)
(* What vga_font_file can name.  Psf(magic0, magic1, size16, body) is a   *)
(* file whose 4-byte header reads whole; the others fail earlier.          *)
(***************************************************************************)
NoFontFile == [given |-> FALSE, open |-> FALSE, hdr |-> 0, magic0 |-> FALSE,
               magic1 |-> FALSE, size16 |-> FALSE, body |-> 0]
FontPath(open, hdr) == [NoFontFile EXCEPT !.given = TRUE, !.open = open, !.hdr = hdr]
Psf(m0, m1, c16, body) ==
    [FontPath(TRUE, 4) EXCEPT !.magic0 = m0, !.magic1 = m1, !.size16 = c16,
                              !.body = body]

MCFontFiles ==
    { NoFontFile,
      FontPath(FALSE, 0),                  \* open fails
      FontPath(TRUE, 0), FontPath(TRUE, 2),  \* empty file; 2-byte file
      FontPath(TRUE, -1),                  \* header read fails
      Psf(TRUE, TRUE, TRUE, FONT_CHUNKS),  \* an 8x16 PSF1 font
      Psf(TRUE, TRUE, TRUE, 1),            \* truncated in the glyph data
      Psf(TRUE, TRUE, TRUE, 0),            \* header only
      Psf(TRUE, TRUE, TRUE, -1),           \* glyph read fails
      Psf(TRUE, TRUE, FALSE, FONT_CHUNKS), \* an 8x8 PSF1 font
      Psf(FALSE, FALSE, FALSE, FONT_CHUNKS) } \* not PSF1 at all

\* bhyve started without a font file.
MCNoFont == {NoFontFile}

\* VGA_IOPORT_START .. VGA_IOPORT_END (vga.h)
MCPorts == \h3c0 .. \h3df

MCModes == {3, \h12, \h13}

MCInitImage == <<640, 480>>


(***************************************************************************)
(* Glyph rows for glyph_render_line: every row of up to two cells over two *)
(* characters and three attributes (bright-on-blue, black-on-white, and    *)
(* one whose background nibble has bit 3 set), plus an 81-column request.  *)
(* The font gives each character and scanline a different bit pattern.    *)
(***************************************************************************)
MCFont == [ch \in 0..255 |-> [y \in 0..15 |-> (ch * 37 + y * 73 + 5) % 256]]

GlyphCells == {c + 256 * at : c \in {\h41, \hb2}, at \in {\h1e, \h70, \hc9}}

GlyphRows == UNION {[1..n -> GlyphCells] : n \in 0..2}

\* What spec 4 says pixel x of scanline y of a row is.
RefPixel(row, y, x) ==
    LET cell == row[x \div 8 + 1]
        bits == glyphs[cell % 256][y]
        attr == (cell \div 256) % 256
    IN IF (bits \div 2 ^ (7 - (x % 8))) % 2 = 1 THEN colors[attr % 16]
                                             ELSE colors[attr \div 16]

\* Spec 4 over the rows above.
GlyphRowsAsSpecified ==
    /\ ~glyph_render_line(<<>>, 81).ok
    /\ \A row \in GlyphRows :
          LET cols == Len(row)
              out  == glyph_render_line(row, cols)
          IN /\ out.ok
             /\ Len(out.px) = 16 * cols * 8
             /\ \A y \in 0..15, x \in 0..(cols * 8 - 1) :
                   out.px[y * cols * 8 + x + 1] = RefPixel(row, y, x)

(***************************************************************************)
(* glyph_render_line renders what spec 4 promises: for cols <= 80 exactly  *)
(* 16 scanlines of cols*8 pixels, each pixel the cell's foreground colour  *)
(* where its glyph bit (MSB first) is set and the background colour        *)
(* otherwise; for cols > 80 it returns NULL.  This is what the display    *)
(* thread draws whenever the device is in text mode (vga_mode 3), where    *)
(* vga_render_text fills the 640x400 image row by row through it.          *)
(***************************************************************************)
GlyphLineIsReference ==
    vga_mode = 3 => GlyphRowsAsSpecified

=============================================================================
