------------------------------- MODULE Glyphs -------------------------------
(***************************************************************************)
(* The glyph renderer of bhyve/glyphs.c: glyph_render_line turns one text  *)
(* row of char+attribute cells into 16 scanlines of 8 pixels per cell,     *)
(* through the fixed 16-colour palette.  vga_render_text calls it for the  *)
(* 25 rows of the text page.  For rendering, the font table glyphs[256][16] *)
(* is the constant glyphs; glyph_load_psf, which vga_init calls to fill    *)
(* the (zero-initialised) table from a PSF1 file, is modelled on an        *)
(* abstract table of FONT_CHUNKS chunks, each zero or the file's data.    *)
(***************************************************************************)
EXTENDS Integers, SequencesExt

CONSTANT glyphs     \* [0..255 -> [0..15 -> 0..255]], glyphs[ch][scanline]

FONT_SCANLINES == 16
MAX_COLS == 80

\* static uint32_t colors[16], indexed by a 4-bit colour number.
colors == [k \in 0..15 |->
             << \h00000000, \h000000dd, \h0000dd00, \h0000dddd,
                \h00dd0000, \h00dd00dd, \h00dddd00, \h00dddddd,
                \h00555555, \h000000f0, \h0000f000, \h0000f0f0,
                \h00f00000, \h00f000f0, \h00f0f000, \h00ffffff >>[k + 1]]

Bit(v, n) == (v \div (2 ^ n)) % 2

\* Mutant: the unrolled loop emits bit 0 first.
bitmap_to_32bpp_lsb(bits, fg, bg) ==
    [k \in 1..8 |-> IF Bit(bits, k - 1) = 1 THEN fg ELSE bg]

\* The eight pixels of one glyph byte, bit 7 (1 << 7) first.
bitmap_to_32bpp(bits, fg, bg) ==
    [k \in 1..8 |-> IF Bit(bits, 8 - k) = 1 THEN fg ELSE bg]

\* row[i] & 0xff, (row[i] >> 8) & 0xff, for a cell of the row.
Ch(cell) == cell % 256
Attr(cell) == (cell \div 256) % 256

\* glyph_render_line(row, cols, output): NULL when cols > 80, else the
\* pixels written, scanline by scanline (y outer, cell i inner).
glyph_render_line(row, cols) ==
    IF cols > MAX_COLS
    THEN [ok |-> FALSE, px |-> <<>>]
    ELSE [ok |-> TRUE,
          px |-> FlattenSeq(
                   [y \in 1..FONT_SCANLINES |->
                      FlattenSeq(
                        [i \in 1..cols |->
                           bitmap_to_32bpp(glyphs[Ch(row[i])][y - 1],
                                           colors[Attr(row[i]) % 16],
                                           colors[(Attr(row[i]) \div 16) % 16])])])]

-----------------------------------------------------------------------------
(***************************************************************************)
(* glyph_load_psf (glyphs.c:108-141).  A font file is what its reads      *)
(* return: open fails (~open), hdr bytes of the 4-byte header (-1 for an   *)
(* error), whether magic[0], magic[1] and charsize are 0x36, 0x04 and 16, *)
(* and body chunks of the glyph read (-1 for an error).  The glyph read    *)
(* goes straight into the table, so a short read overwrites its first     *)
(* chunks before the byte count is returned as the error.                  *)
(***************************************************************************)
FONT_CHUNKS == 2        \* sizeof(glyphs) = 4096 bytes, in chunks of 2048

ZeroTable == [i \in 1 .. FONT_CHUNKS |-> "zero"]
FileTable == [i \in 1 .. FONT_CHUNKS |-> "file"]

FontFileType ==
    [given : BOOLEAN, open : BOOLEAN, hdr : {-1, 0, 2, 4},
     magic0 : BOOLEAN, magic1 : BOOLEAN, size16 : BOOLEAN,
     body : {-1} \cup 0 .. FONT_CHUNKS]

\* The header test: && where || is meant, so it rejects only a header
\* that gets all three fields wrong.
PsfHeaderRejected(f) == ~f.magic0 /\ ~f.magic1 /\ ~f.size16

\* The glyph read: err = n unless n is the whole table.
GlyphReadErrShortOk(f) == IF f.body < 0 THEN f.body ELSE 0
GlyphReadErr(f) == IF f.body = FONT_CHUNKS THEN 0 ELSE f.body

glyph_load_psf(f, table) ==
    CASE ~f.open -> [err |-> -1, table |-> table]
      [] f.hdr # 4 -> [err |-> f.hdr, table |-> table]
      [] PsfHeaderRejected(f) -> [err |-> -1, table |-> table]
      [] OTHER ->
           [err |-> GlyphReadErr(f),
            table |-> [i \in 1 .. FONT_CHUNKS |->
                         IF i <= f.body THEN "file" ELSE table[i]]]

\* vga_init's font step (vga.c:1355-1356): with a font file configured,
\* any non-zero result of glyph_load_psf ends bhyve with exit(1).
vga_init_font(f) ==
    IF ~f.given THEN [exit |-> FALSE, table |-> ZeroTable]
    ELSE LET r == glyph_load_psf(f, ZeroTable)
         IN  [exit |-> r.err # 0, table |-> r.table]

=============================================================================
