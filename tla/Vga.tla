-------------------------------- MODULE Vga --------------------------------
(***************************************************************************)
(* The VGA device of the bhyve BIOS (src/bios/bhyve/vga.c) as the guest    *)
(* reaches it.  vga_init registers vga_port_handler on the VGA ports and   *)
(* nothing else: the planar memory handlers are never installed, so a      *)
(* guest store to 0xA0000 or 0xB8000 is a plain RAM store and is not       *)
(* modelled.  Two threads share the vga_softc without a lock:              *)
(*   - the vCPU, whose port accesses run vga_port_handler and whose        *)
(*     BCMD_VIDEO/VIDMODE command (microbios.c:311-315) runs               *)
(*     vga_switchmode;                                                      *)
(*   - the display thread, which calls vga_render periodically.            *)
(* Register contents are abstracted to the few values the properties tell  *)
(* apart; a failed assert() ends the process (aborted).                    *)
(***************************************************************************)
EXTENDS Integers, SequencesExt, Bitwise, TLC, Glyphs

CONSTANTS
    Ports,        \* the ports vga_init registers (VGA_IOPORT_START .. END)
    Accesses,     \* the port accesses the guest makes: [dir, w, port, val]
    Modes,        \* the modes INT 10h/00 passes to BCMD_VIDEO/VIDMODE
    InitImage,    \* the console image's size before vga_init, as <<w, h>>
    MaxOps,       \* bound on the guest's port accesses and mode switches
    FontFiles     \* what vga_font_file names: FontFileType records

ASSUME FontFiles \subseteq FontFileType

\* Port numbers and register indices (vga.h, standard VGA).
CRTC_IDX_MONO_PORT == \h3b4
CRTC_DATA_MONO_PORT == \h3b5
CRTC_IDX_COLOR_PORT == \h3d4
CRTC_DATA_COLOR_PORT == \h3d5
ATC_IDX_PORT == \h3c0
ATC_DATA_PORT == \h3c1
GEN_INPUT_STS0_PORT == \h3c2
GEN_MISC_OUTPUT_PORT == \h3cc
SEQ_IDX_PORT == \h3c4
SEQ_DATA_PORT == \h3c5
DAC_MASK == \h3c6
DAC_IDX_RD_PORT == \h3c7
DAC_IDX_WR_PORT == \h3c8
DAC_DATA_PORT == \h3c9
GEN_FEATURE_CTRL_PORT == \h3ca
GC_IDX_PORT == \h3ce
GC_DATA_PORT == \h3cf
GEN_INPUT_STS1_MONO_PORT == \h3ba
GEN_INPUT_STS1_COLOR_PORT == \h3da
CrtcRegs == 0 .. \h18            \* CRTC_HORIZ_TOTAL .. CRTC_LINE_COMPARE
AtcRegs == 0 .. \h14             \* ATC_PALETTE0 .. ATC_COLOR_SELECT
SeqRegs == 0 .. 4                \* SEQ_RESET .. SEQ_MEMORY_MODE
GcRegs == 0 .. 8                 \* GC_SET_RESET .. GC_BIT_MASK
GC_MODE == 5
GC_MODE_C4 == \h20
GEN_IS1_VR_DE == \h09

\* Every access reaches vga_port_handler: its port (and port + 1 for a
\* 2-byte access) is one vga_init registered.
ASSUME \A a \in Accesses : a.port \in Ports /\ (a.w = 2 => a.port + 1 \in Ports)

VARIABLES
    dev,        \* the vga_softc registers (crtc, atc, seq, gc, dac, misc, sts1),
                \* gc_image->vgamode, and whether an assert() ended bhyve
    inval,      \* what the last IN returned in AX
    vga_mode, gc_width, gc_height, gc_bpp,
    vpc,        \* vCPU: "idle", or "mode" between the size and mode stores
    vnext,      \* the mode vga_switchmode is storing
    image,      \* the console image: [w, h, vgamode]
    rpc,        \* display thread: "check" (vga_check_size) or "draw"
    ops,        \* guest accesses so far
    dacBase, dacLog, \* history: last DAC write index, data bytes since
    font        \* glyphs[][] after vga_init, in FONT_CHUNKS chunks

vars == <<dev, inval, vga_mode, gc_width, gc_height, gc_bpp, vpc,
          vnext, image, rpc, ops, dacBase, dacLog, font>>

Byte(v) == v % 256

\* The DAC's 6-bit-to-8-bit expansion and the packed entry (vga.c:1171-1180).
Expand(v) == (v * 4) | ((v % 2) * 2) | (v % 2)
PaletteRgb(r, g, b) == (Expand(r) * 65536) | (Expand(g) * 256) | Expand(b)

PalByte(pal, k) == IF k \in DOMAIN pal THEN pal[k] ELSE 0

Abort(s) == [s EXCEPT !.aborted = TRUE]

(***************************************************************************)
(* The data-port writes of vga_port_out_handler, one operator per register *)
(* group, as a function from the device record to its next value.        *)
(***************************************************************************)
CrtcOut(s, v) ==
    IF s.crtc.index \in CrtcRegs
      THEN [s EXCEPT !.crtc.r[s.crtc.index] = v]
      ELSE Abort(s)

\* The flip-flop selects index or data; the assert tests the old index.
AtcOut(s, v) ==
    IF s.atc.ff = 0
      THEN IF (s.atc.index \div 32) % 2 = 1 THEN Abort(s)
           ELSE [s EXCEPT !.atc.index = v % 32, !.atc.ff = 1]
    ELSE IF s.atc.index \in AtcRegs
      THEN [s EXCEPT !.atc.r[s.atc.index] = IF s.atc.index < 16 THEN v % 64 ELSE v,
                     !.atc.ff = 0]
      ELSE Abort(s)

SeqOut(s, v) ==
    IF s.seq.index \in SeqRegs THEN [s EXCEPT !.seq.r[s.seq.index] = v]
                               ELSE Abort(s)

\* GC_MODE asserts chain-4 is off; any GC_MODE write marks the image VGA.
GcOut(s, v) ==
    IF s.gc.index \notin GcRegs THEN Abort(s)
    ELSE LET t == [s EXCEPT !.gc.r[s.gc.index] = v,
                            !.vgamode = s.vgamode \/ s.gc.index = GC_MODE]
         IN  IF s.gc.index = GC_MODE /\ (v \div GC_MODE_C4) % 2 = 1
               THEN Abort(t) ELSE t

\* dac_wr_index = val; dac_wr_subindex = 0 (1162-1165).
DacIdxWrKeepSub(s, v) == [s EXCEPT !.dac.wi = v]

DacIdxWrOut(s, v) == [s EXCEPT !.dac.wi = v, !.dac.ws = 0]

\* A data byte goes to the write cursor; the third completes the entry.
DacDataOutNoWrap(s, v) ==
    LET d  == s.dac
        p  == (<<d.wi, d.ws>> :> v) @@ d.pal
    IN  IF d.ws + 1 = 3
          THEN [s EXCEPT !.dac = [d EXCEPT !.pal = p, !.wi = d.wi + 1, !.ws = 0]]
          ELSE [s EXCEPT !.dac = [d EXCEPT !.pal = p, !.ws = d.ws + 1]]

DacDataOut(s, v) ==
    LET d  == s.dac
        p  == (<<d.wi, d.ws>> :> v) @@ d.pal
        rgb == PaletteRgb(PalByte(p, <<d.wi, 0>>), PalByte(p, <<d.wi, 1>>),
                          PalByte(p, <<d.wi, 2>>))
    IN  IF d.ws + 1 = 3
          THEN [s EXCEPT !.dac = [d EXCEPT !.pal = p, !.rgb = (d.wi :> rgb) @@ d.rgb,
                                           !.wi = Byte(d.wi + 1), !.ws = 0]]
          ELSE [s EXCEPT !.dac = [d EXCEPT !.pal = p, !.ws = d.ws + 1]]

vga_port_out_handler(s, port, v) ==
    CASE port \in {CRTC_IDX_MONO_PORT, CRTC_IDX_COLOR_PORT} ->
           [s EXCEPT !.crtc.index = v]
      [] port \in {CRTC_DATA_MONO_PORT, CRTC_DATA_COLOR_PORT} -> CrtcOut(s, v)
      [] port = ATC_IDX_PORT -> AtcOut(s, v)
      [] port = SEQ_IDX_PORT -> [s EXCEPT !.seq.index = v % 32]
      [] port = SEQ_DATA_PORT -> SeqOut(s, v)
      [] port = DAC_IDX_RD_PORT -> [s EXCEPT !.dac.ri = v, !.dac.rs = 0]
      [] port = DAC_IDX_WR_PORT -> DacIdxWrOut(s, v)
      [] port = DAC_DATA_PORT -> DacDataOut(s, v)
      [] port = GC_IDX_PORT -> [s EXCEPT !.gc.index = v]
      [] port = GC_DATA_PORT -> GcOut(s, v)
      [] port = GEN_INPUT_STS0_PORT -> [s EXCEPT !.misc = v]
      [] port \in {ATC_DATA_PORT, DAC_MASK, GEN_INPUT_STS1_MONO_PORT,
                   GEN_INPUT_STS1_COLOR_PORT, \h3d8, \h3d9} -> s
      [] OTHER -> s    \* unhandled port: returns -1 to bhyve's inout layer


InRes(s, v) == [s |-> s, val |-> v, err |-> FALSE]

\* A data-port read of a register group: an unknown index fails an assert.
RegIn(s, grp, regs) ==
    IF s[grp].index \in regs THEN InRes(s, s[grp].r[s[grp].index])
                             ELSE InRes(Abort(s), 0)

\* A DAC data read returns the byte at the read cursor and advances it.
DacDataIn(s) ==
    LET d == s.dac IN
    InRes(IF d.rs + 1 = 3 THEN [s EXCEPT !.dac.ri = Byte(d.ri + 1), !.dac.rs = 0]
                          ELSE [s EXCEPT !.dac.rs = d.rs + 1],
          PalByte(d.pal, <<d.ri, d.rs>>))

\* Reading input status 1 resets the attribute flip-flop to "index".
InputStatus1In(s) ==
    InRes([s EXCEPT !.atc.ff = 0, !.sts1 = GEN_IS1_VR_DE], GEN_IS1_VR_DE)

vga_port_in_handler(s, port) ==
    CASE port \in {CRTC_IDX_MONO_PORT, CRTC_IDX_COLOR_PORT} ->
           InRes(s, s.crtc.index)
      [] port \in {CRTC_DATA_MONO_PORT, CRTC_DATA_COLOR_PORT} ->
           RegIn(s, "crtc", CrtcRegs)
      [] port = ATC_IDX_PORT -> InRes(s, s.atc.index)
      [] port = ATC_DATA_PORT -> RegIn(s, "atc", AtcRegs)
      [] port = SEQ_IDX_PORT -> InRes(s, s.seq.index)
      [] port = SEQ_DATA_PORT -> RegIn(s, "seq", SeqRegs)
      [] port = DAC_DATA_PORT -> DacDataIn(s)
      [] port = GC_IDX_PORT -> InRes(s, s.gc.index)
      [] port = GC_DATA_PORT -> RegIn(s, "gc", GcRegs)
      [] port = GEN_MISC_OUTPUT_PORT -> InRes(s, s.misc)
      [] port = GEN_INPUT_STS0_PORT -> InRes(Abort(s), 0)
      [] port \in {GEN_INPUT_STS1_MONO_PORT, GEN_INPUT_STS1_COLOR_PORT} ->
           InputStatus1In(s)
      [] port \in {GEN_FEATURE_CTRL_PORT, \h3c3} -> InRes(s, 0)
      [] OTHER -> [s |-> s, val |-> 0, err |-> TRUE]

\* The byte an IN leaves in AL: cleared, then set unless the handler failed.
InByte(r) == IF r.err THEN 0 ELSE r.val

(***************************************************************************)
(* vga_port_handler (vga.c:1272-1321): a 2-byte access is two 1-byte       *)
(* accesses to port and port + 1; any other width fails an assert.  The    *)
(* second access does not happen once the first has aborted bhyve.         *)
(***************************************************************************)
vga_port_handler(s, a) ==
    CASE a.w = 1 /\ a.dir = "in" ->
           LET r == vga_port_in_handler(s, a.port) IN [s |-> r.s, val |-> InByte(r)]
      [] a.w = 1 /\ a.dir = "out" ->
           [s |-> vga_port_out_handler(s, a.port, Byte(a.val)), val |-> 0]
      [] a.w = 2 /\ a.dir = "in" ->
           LET r1 == vga_port_in_handler(s, a.port)
               r2 == vga_port_in_handler(r1.s, a.port + 1)
           IN  IF r1.s.aborted THEN [s |-> r1.s, val |-> 0]
               ELSE [s |-> r2.s, val |-> InByte(r1) + 256 * InByte(r2)]
      [] a.w = 2 /\ a.dir = "out" ->
           LET t == vga_port_out_handler(s, a.port, Byte(a.val)) IN
           [s |-> IF t.aborted THEN t
                  ELSE vga_port_out_handler(t, a.port + 1, a.val \div 256),
            val |-> 0]
      [] OTHER -> [s |-> Abort(s), val |-> 0]

\* The bytes an access writes, in order (history for the DAC properties).
OutBytes(a) ==
    CASE a.dir = "in" -> <<>>
      [] a.w = 1 -> << <<a.port, Byte(a.val)>> >>
      [] a.w = 2 -> << <<a.port, Byte(a.val)>>, <<a.port + 1, a.val \div 256>> >>
      [] OTHER -> <<>>

DacHistStep(h, e) ==
    CASE e[1] = DAC_IDX_WR_PORT -> [base |-> e[2], log |-> <<>>]
      [] e[1] = DAC_DATA_PORT -> [h EXCEPT !.log = Append(@, e[2])]
      [] OTHER -> h

DacHist(a) ==
    FoldLeft(DacHistStep, [base |-> dacBase, log |-> dacLog], OutBytes(a))

\* The guest executes IN or OUT on a VGA port.
GuestPort ==
    /\ vpc = "idle" /\ ~dev.aborted /\ ops < MaxOps
    /\ \E a \in Accesses :
         LET r == vga_port_handler(dev, a) IN
         /\ dev' = r.s
         /\ inval' = r.val
         /\ dacBase' = DacHist(a).base
         /\ dacLog' = DacHist(a).log
    /\ ops' = ops + 1
    /\ UNCHANGED <<vga_mode, gc_width, gc_height, gc_bpp, vpc, vnext, image, rpc,
                   font>>


(***************************************************************************)
(* BCMD_VIDEO/VIDMODE runs vga_switchmode (vga.c:1324-1346): it stores the *)
(* size, then the mode; a mode other than 03h and 12h gets the 320x200x8   *)
(* size and returns -1 without storing the mode.                           *)
(***************************************************************************)
vga_switchmode ==
    /\ vpc = "idle" /\ ~dev.aborted /\ ops < MaxOps
    /\ \E m \in Modes :
         CASE m = 3 ->
                /\ gc_width' = 640 /\ gc_height' = 400 /\ gc_bpp' = 4
                /\ vpc' = "mode" /\ vnext' = m
           [] m = \h12 ->
                /\ gc_width' = 640 /\ gc_height' = 480 /\ gc_bpp' = 4
                /\ vpc' = "mode" /\ vnext' = m
           [] OTHER ->
                /\ gc_width' = 320 /\ gc_height' = 200 /\ gc_bpp' = 8
                /\ UNCHANGED <<vpc, vnext>>
    /\ ops' = ops + 1
    /\ UNCHANGED <<dev, inval, vga_mode, image, rpc, dacBase, dacLog, font>>

\* vgasc->vga_mode = mode (1344), the last store of vga_switchmode.
StoreMode ==
    /\ vpc = "mode" /\ ~dev.aborted
    /\ vga_mode' = vnext
    /\ vpc' = "idle"
    /\ UNCHANGED <<dev, inval, gc_width, gc_height, gc_bpp, vnext, image, rpc,
                   ops, dacBase, dacLog, font>>

\* vga_in_reset returns 0 before its test (267-274): rendering is never
\* suppressed.
vga_in_reset == FALSE

\* old_width != gc_width || old_height != gc_height (287).
SizeChangedWidthOnly == image.w # gc_width

SizeChanged == image.w # gc_width \/ image.h # gc_height

\* vga_render's first step, vga_check_size (277-289): resize the console
\* image to gc_width x gc_height when it differs.
vga_check_size ==
    /\ rpc = "check" /\ ~dev.aborted
    /\ image' = IF ~vga_in_reset /\ SizeChanged
                  THEN [w |-> gc_width, h |-> gc_height] ELSE image
    /\ rpc' = "draw"
    /\ UNCHANGED <<dev, inval, vga_mode, gc_width, gc_height, gc_bpp, vpc, vnext,
                   ops, dacBase, dacLog, font>>

\* A row of the text page (blank: space, grey on black); how many pixels
\* glyph_render_line writes does not depend on the cells.
TextRow == [i \in 1..MAX_COLS |-> \h0720]
TextRowPixels == Len(glyph_render_line(TextRow, MAX_COLS).px)

\* The pixels vga_render writes into the image's data (297-357):
\* vga_render_text renders 25 rows of 80 cells through glyph_render_line;
\* mode 12h and the 8-bpp path draw gc_width x gc_height.
DrawnPixels == IF vga_mode # 3 THEN gc_width * gc_height ELSE 25 * TextRowPixels

\* The rest of vga_render: draw by vga_mode into the image (366-376).
vga_draw ==
    /\ rpc = "draw" /\ ~dev.aborted
    /\ rpc' = "check"
    /\ UNCHANGED <<dev, inval, vga_mode, gc_width, gc_height, gc_bpp, vpc, vnext,
                   image, ops, dacBase, dacLog, font>>

vga_render == vga_check_size \/ vga_draw

\* static uint32_t colors4bpp[16]: the same values as glyphs.c's colors.
colors4bpp == colors

\* base_palette[] of vga_initialize_palette: the 72-entry hue wheel.
base_palette ==
    <<
     \h0000ff, \h4100ff, \h8200ff, \hbe00ff, \hff00ff, \hff00be, \hff0082, \hff0041,
     \hff0000, \hff4100, \hff8200, \hffbe00, \hffff00, \hbeff00, \h82ff00, \h41ff00,
     \h00ff00, \h00ff41, \h00ff82, \h00ffbe, \h00ffff, \h00beff, \h0082ff, \h0041ff,
     \h8282ff, \h9e82ff, \hbe82ff, \hdf82ff, \hff82ff, \hff82df, \hff82be, \hff829e,
     \hff8282, \hff9e82, \hffbe82, \hffdf82, \hffff82, \hdfff82, \hbeff82, \h9eff82,
     \h82ff82, \h82ff9e, \h82ffbe, \h82ffdf, \h82ffff, \h82dfff, \h82beff, \h829eff,
     \hbabaff, \hcabaff, \hdfbaff, \hefbaff, \hffbaff, \hffbaef, \hffbadf, \hffbaca,
     \hffbaba, \hffcaba, \hffdfba, \hffefba, \hffffba, \hefffba, \hdfffba, \hcaffba,
     \hbaffba, \hbaffca, \hbaffdf, \hbaffef, \hbaffff, \hbaefff, \hbadfff, \hbacaff >>

\* Each 8-bit channel of c divided by k (the half and quarter copies).
ScaledRgb(c, k) ==
    ((c \div 65536) % 256 \div k) * 65536 + ((c \div 256) % 256 \div k) * 256
      + (c % 256) \div k

\* vga_initialize_palette: dac_palette_rgb[0..247] as vga_init leaves it;
\* 248..255 stay 0 from calloc, and the 6-bit dac_palette stays all 0.
vga_initialize_palette ==
    [i \in 0 .. 247 |->
        CASE i < 16  -> colors4bpp[i]
          [] i < 32  -> LET v == 15 * (i - 15) IN v * 65536 + v * 256 + v
          [] i < 104 -> base_palette[i - 31]
          [] i < 176 -> ScaledRgb(base_palette[i - 103], 2)
          [] OTHER   -> ScaledRgb(base_palette[i - 175], 4)]

\* vga_init (1349-1390): calloc'ed registers, the default palette, then
\* vga_switchmode(3).
Init ==
    /\ \E f \in FontFiles :
         LET fi == vga_init_font(f) IN
         /\ font = fi.table
         /\ dev = [crtc |-> [index |-> 0, r |-> [i \in CrtcRegs |-> 0]],
                    atc  |-> [ff |-> 0, index |-> 0, r |-> [i \in AtcRegs |-> 0]],
                    seq  |-> [index |-> 0, r |-> [i \in SeqRegs |-> 0]],
                    gc   |-> [index |-> 0, r |-> [i \in GcRegs |-> 0]],
                    dac  |-> [ri |-> 0, rs |-> 0, wi |-> 0, ws |-> 0,
                              pal |-> <<>>, rgb |-> vga_initialize_palette],
                    misc |-> 0, sts1 |-> 0, vgamode |-> FALSE, aborted |-> fi.exit]
    /\ inval = 0
    /\ vga_mode = 3 /\ gc_width = 640 /\ gc_height = 400 /\ gc_bpp = 4
    /\ vpc = "idle" /\ vnext = 3
    /\ image = [w |-> InitImage[1], h |-> InitImage[2]]
    /\ rpc = "check" /\ ops = 0
    /\ dacBase = 0 /\ dacLog = <<>>

Next == GuestPort \/ vga_switchmode \/ StoreMode \/ vga_render

\* The display thread calls vga_render for as long as bhyve runs, and the
\* vCPU finishes a vga_switchmode it has begun; the guest is not assumed
\* to access the VGA at all.
Spec == Init /\ [][Next]_vars /\ WF_vars(StoreMode)
        /\ WF_vars(vga_check_size) /\ WF_vars(vga_draw)

-----------------------------------------------------------------------------

TypeOK ==
    /\ dev.aborted \in BOOLEAN /\ dev.vgamode \in BOOLEAN
    /\ dev.atc.ff \in {0, 1}
    /\ dev.dac.wi \in 0 .. 255 /\ dev.dac.ws \in 0 .. 2
    /\ dev.dac.ri \in 0 .. 255 /\ dev.dac.rs \in 0 .. 2
    /\ vga_mode \in {3, \h12}
    /\ vpc \in {"idle", "mode"} /\ rpc \in {"check", "draw"}
    /\ image \in [w : {InitImage[1], 320, 640}, h : {InitImage[2], 200, 400, 480}]
    /\ font \in [1 .. FONT_CHUNKS -> {"zero", "file"}]

(***************************************************************************)
(* The DAC write protocol: the palette bytes and packed entries are those  *)
(* of the data bytes the guest wrote to 3C9 since its last write to 3C8,   *)
(* taken three at a time at consecutive indices from the one it wrote, and *)
(* the write cursor points just past them, whatever DAC reads, read-index  *)
(* writes and other port accesses came in between.                         *)
(***************************************************************************)
DacProtocol ==
    ~dev.aborted =>
      LET d == dev.dac
          n == Len(dacLog)
          Slot(k) == <<Byte(dacBase + (k - 1) \div 3), (k - 1) % 3>>
      IN  /\ d.wi = Byte(dacBase + n \div 3) /\ d.ws = n % 3
          /\ \A k \in 1 .. n : PalByte(d.pal, Slot(k)) = dacLog[k]
          /\ \A j \in 0 .. n \div 3 - 1 :
               d.rgb[Byte(dacBase + j)] =
                 PaletteRgb(dacLog[3 * j + 1], dacLog[3 * j + 2], dacLog[3 * j + 3])

(***************************************************************************)
(* Once the guest stops switching modes, the display thread brings the     *)
(* console image to the size vga_switchmode set, and it stays so.          *)
(***************************************************************************)
ImageFollowsSize ==
    <>[](dev.aborted \/ (image.w = gc_width /\ image.h = gc_height))

(***************************************************************************)
(* vga_render never writes more pixels than the console image holds: the  *)
(* mode it draws by and the image it draws into agree.                     *)
(***************************************************************************)
RenderInImage ==
    [][rpc = "draw" /\ rpc' = "check" => DrawnPixels <= image.w * image.h]_vars

(***************************************************************************)
(* Spec 4.3: each DAC value is 6 bits, expanded to 8 as                    *)
(* (v << 2) | ((v & 1) << 1) | (v & 1), one byte per channel.              *)
(***************************************************************************)
SixBitRgb(r, g, b) ==
    Expand(r % 64) * 65536 + Expand(g % 64) * 256 + Expand(b % 64)

DacRgbSixBit ==
    ~dev.aborted =>
      \A j \in 0 .. Len(dacLog) \div 3 - 1 :
        dev.dac.rgb[Byte(dacBase + j)] =
          SixBitRgb(dacLog[3 * j + 1], dacLog[3 * j + 2], dacLog[3 * j + 3])

(***************************************************************************)
(* The guest never runs on a half-loaded font: while bhyve runs, glyphs[][] *)
(* is all zero (no font file, or a glyph read of 0 bytes) or all the       *)
(* file's glyph data.  glyph_load_psf reads straight into the table, so a  *)
(* short read has already overwritten part of it when it returns the byte  *)
(* count; only that error and vga_init's exit(1) keep bhyve from going on. *)
(***************************************************************************)
FontNeverPartial ==
    ~dev.aborted => font \in {ZeroTable, FileTable}

(***************************************************************************)
(* Spec 4.3 and its error table: a guest access ends the bhyve process     *)
(* only for a genuine programming error, chain-4 set in GC_MODE (the       *)
(* assert in the GC data write); port 3C2 read is the recognised input-    *)
(* status-0 port.  Besides chain-4 we allow the asserts vga.c makes on a   *)
(* register index it has no slot for, which the spec leaves open.          *)
(***************************************************************************)
ChainFourSet == (dev.gc.r[GC_MODE] \div GC_MODE_C4) % 2 = 1

IndexOutsideRegs ==
    \/ dev.crtc.index \notin CrtcRegs \/ dev.atc.index \notin AtcRegs
    \/ dev.seq.index \notin SeqRegs \/ dev.gc.index \notin GcRegs

AbortOnlyWhenFatal ==
    dev.aborted => ChainFourSet \/ IndexOutsideRegs

=============================================================================
