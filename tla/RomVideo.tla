------------------------------ MODULE RomVideo ------------------------------
(***************************************************************************)
(* The ROM's INT 10h video service, handle_int10 in microboot/microboot.c. *)
(* Each action is one call of the handler for one AH subfunction, from    *)
(* the switch on AH to the ok/out labels.  State: the video fields of the  *)
(* BIOS data area (bios.h), and the effects of the last call: the byte     *)
(* ranges of text RAM it stored to (offsets from 0xB8000), the cursor      *)
(* table slots it stored to, the VIDEO command it handed to the host, the  *)
(* port accesses it made, the registers it returned and CF.                *)
(*                                                                         *)
(* The contents of text RAM are abstracted away: the model tracks where   *)
(* each call stores, not what.  Register inputs range over small sets.     *)
(***************************************************************************)
EXTENDS Integers, FiniteSets, TLC

CONSTANTS
    ModeArgs,     \* AL values for 00h (supported and not)
    PageArgs,     \* BH / AL page numbers
    ColArgs,      \* DL column values for 02h
    RowArgs,      \* DH row values for 02h
    Windows,      \* [x1, y1, x2, y2] scroll windows for 06h/07h (CL,CH,DL,DH)
    LineArgs,     \* AL line counts for 06h/07h
    CountArgs,    \* CX repeat counts for 09h
    TtyArgs,      \* AL characters for 0Eh
    JunkPages,    \* values the uninitialised local `page` can hold in 06h/07h
    OtherAH,      \* AH values the switch has no case for
    MaxCalls      \* bound on the number of INT 10h calls

VARIABLES
    vid_mode, text_columns, text_rows, scan_lines,  \* BDA 0x49, 0x4A, 0x84, 0x85
    cursor,       \* cursor_position[0..7] as [x, y]
    disp_page,    \* BDA 0x62
    wr,           \* text RAM byte ranges <<lo, hi>> stored to by the last call
    cw,           \* cursor_position indices stored to by the last call
    tgt,          \* the page the last call addresses
    cmd,          \* VIDEO command sent to the host by the last call
    ports,        \* port accesses of the last call, in order
    ret,          \* registers returned by the last call
    cf,           \* regs->flags.CF after the last call
    calls

vars == <<vid_mode, text_columns, text_rows, scan_lines, cursor, disp_page,
          wr, cw, tgt, cmd, ports, ret, cf, calls>>

NoCmd == [vidcmd |-> "none"]
NoRegs == [r \in {} |-> 0]

\* BVIDCMD_* values of microboot.h
VIDMODE == 1
DISPLAY_PAGE == 2
WRITE_CHAR == 3
SET_PALETTE == 4

\* VGA ports of microboot.c
VGA_WRITE_ATTR_INDEX == \h3C0
VGA_WRITE_ATTR_DATA == \h3C0
VGA_PALETTE_WRITE == \h3C8
VGA_PALETTE_DATA == \h3C9
VGA_INPUT_STATUS_1 == \h3DA

\* The bhyve_display_cmd bodies the handler fills in (microboot.h).
DisplayCmds ==
    [vidcmd : {VIDMODE}, mode : {\h03, \h12, \h13}, plane : {0},
     rows : {25, 30}, columns : {40, 80}]
    \cup [vidcmd : {DISPLAY_PAGE}, display_page : 0..7]
    \cup [vidcmd : {WRITE_CHAR}, row : 0..255, col : 0..255, repeat : 0..65535]
    \cup [vidcmd : {SET_PALETTE}, paddr : Nat, len : 0..65535,
          vgareg : {VGA_INPUT_STATUS_1, VGA_PALETTE_WRITE}]

\* Byte offset of cursor_position in the BDA, and of disp_page.
BDA_CURSOR == \h50
BDA_DISP_PAGE == \h62

\* Text geometry of the current mode.
Cells == (text_rows + 1) * text_columns

\* Where page p lives: page * cells * 2, as the TTY path and the host's
\* render_text (txt_ram + page * 4000) lay the pages out.
PageBase(p) == p * Cells * 2

\* The bytes of cells x1..x2 of row r of a page at base.
RowSpans(base, r0, n, x1, x2) ==
    IF x1 <= x2
    THEN {<<base + 2 * (r * text_columns + x1),
            base + 2 * (r * text_columns + x2 + 1)>> : r \in r0 .. r0 + n - 1}
    ELSE {}

\* The page check of 02h, 03h, 05h, 08h, 09h and 0Ah.
PageValid(p) == IF vid_mode = \h03 THEN p <= 7 ELSE p = 0

Clamp(v) == IF v >= text_columns THEN text_columns - 1 ELSE v
Min2(a, b) == IF a < b THEN a ELSE b
Max2(a, b) == IF a > b THEN a ELSE b

TypeOK ==
    /\ vid_mode \in {\h03, \h12, \h13}
    /\ text_columns \in {40, 80}
    /\ text_rows \in {24, 29}
    /\ scan_lines \in {0, 16}
    /\ cursor \in [0..7 -> [x : 0..255, y : 0..255]]
    /\ disp_page \in 0..7
    /\ wr \subseteq (Int \X Int)
    /\ cw \subseteq Nat
    /\ tgt \in Nat
    /\ cmd \in DisplayCmds \cup {NoCmd}
    /\ cf \in {0, 1}
    /\ calls \in 0..MaxCalls

\* microbios.c:108-110 sets mode 03h, 80 columns, 24 + 1 rows; the rest of
\* the BDA is zeroed memory.
Init ==
    /\ vid_mode = \h03
    /\ text_columns = 80
    /\ text_rows = 24
    /\ scan_lines = 0
    /\ cursor = [p \in 0..7 |-> [x |-> 0, y |-> 0]]
    /\ disp_page = 0
    /\ wr = {}
    /\ cw = {}
    /\ tgt = 0
    /\ cmd = NoCmd
    /\ ports = <<>>
    /\ ret = NoRegs
    /\ cf = 0
    /\ calls = 0

\* One INT 10h call: counts it, and the effects not listed are empty.
Call(page, w, c, h, p, r, flag) ==
    /\ calls < MaxCalls
    /\ calls' = calls + 1
    /\ tgt' = page
    /\ wr' = w
    /\ cw' = c
    /\ cmd' = h
    /\ ports' = p
    /\ ret' = r
    /\ cf' = flag

BdaVideo == <<vid_mode, text_columns, text_rows, scan_lines, cursor, disp_page>>


\* 00h: set video mode.  An unsupported AL sets CF and leaves the BDA and
\* the host alone; otherwise the geometry, the mode and the VIDMODE command.
SetMode(al) ==
    \/ /\ al \notin {\h03, \h12, \h13}
       /\ Call(disp_page, {}, {}, NoCmd, <<>>, NoRegs, 1)
       /\ UNCHANGED BdaVideo
    \/ /\ al \in {\h03, \h12, \h13}
       /\ text_columns' = IF al = \h13 THEN 40 ELSE 80
       /\ text_rows' = IF al = \h12 THEN 29 ELSE 24
       /\ scan_lines' = 16
       /\ vid_mode' = al
       /\ Call(disp_page, {}, {},
               [vidcmd |-> VIDMODE, mode |-> al, plane |-> 0,
                rows |-> text_rows' + 1, columns |-> text_columns'],
               <<>>, NoRegs, 0)
       /\ UNCHANGED <<cursor, disp_page>>

\* 02h: set cursor position of page BH, clamped to the screen.  A page the
\* mode rejects breaks out of the switch, to ok.
SetCursor(bh, dl, dh) ==
    /\ Call(bh, {}, IF PageValid(bh) THEN {bh} ELSE {}, NoCmd, <<>>, NoRegs, 0)
    /\ cursor' = IF PageValid(bh)
                 THEN [cursor EXCEPT ![bh] =
                         [x |-> Clamp(dl),
                          y |-> IF dh > text_rows THEN text_rows ELSE dh]]
                 ELSE cursor
    /\ UNCHANGED <<vid_mode, text_columns, text_rows, scan_lines, disp_page>>

\* 03h: get cursor position and shape of page BH.
GetCursor(bh) ==
    /\ Call(bh, {}, {}, NoCmd, <<>>,
            IF PageValid(bh)
            THEN [dl |-> cursor[bh].x, dh |-> cursor[bh].y, ch |-> 10, cl |-> 16]
            ELSE NoRegs, 0)
    /\ UNCHANGED BdaVideo

\* 05h: set active display page AL and tell the host.
SetPage(al) ==
    /\ Call(al, {}, {},
            IF PageValid(al) THEN [vidcmd |-> DISPLAY_PAGE, display_page |-> al]
                             ELSE NoCmd,
            <<>>, NoRegs, 0)
    /\ disp_page' = IF PageValid(al) THEN al ELSE disp_page
    /\ UNCHANGED <<vid_mode, text_columns, text_rows, scan_lines, cursor>>

\* 06h/07h with AL = 0: clear the page at disp_page * cells (bytes), then
\* cursor_position[page] = 0 with `page` never assigned on this path.
\* Slot k lies at BDA 0x50 + 2k; slot 9 is the word holding disp_page.
ClearWindow(junk) ==
    /\ Call(disp_page, {<<disp_page * Cells, disp_page * Cells + 2 * Cells>>},
            {junk}, NoCmd, <<>>, NoRegs, 0)
    /\ cursor' = IF junk <= 7 THEN [cursor EXCEPT ![junk] = [x |-> 0, y |-> 0]]
                              ELSE cursor
    /\ disp_page' = IF BDA_CURSOR + 2 * junk = BDA_DISP_PAGE THEN 0 ELSE disp_page
    /\ UNCHANGED <<vid_mode, text_columns, text_rows, scan_lines>>

\* 06h with AL > 0: scroll window up.  Rows y1..y2 move to y1 - lines and
\* the `lines` rows from y2 + 1 - lines are filled with blanks.
ScrollUpSpans(lines, win) ==
    LET base == disp_page * Cells
        x1 == Clamp(win.x1)
        x2 == Clamp(win.x2)
        n == Min2(lines, win.y1)
    IN  IF win.y1 = 0 THEN {}
        ELSE RowSpans(base, win.y1 - n, Max2(0, win.y2 - win.y1 + 1), x1, x2)
             \cup RowSpans(base, win.y2 + 1 - n, n, x1, x2)

\* 07h with AL > 0: scroll window down.  y2 at or below the last row stops;
\* the copy loop counts y down from y2 to y1 while both pointers advance a
\* row, from row y2 + lines; the `lines` rows from y1 are filled.
ScrollDownSpans(lines, win) ==
    LET base == disp_page * Cells
        x1 == Clamp(win.x1)
        x2 == Clamp(win.x2)
        n == Min2(lines, text_rows - win.y2)
        y1 == Max2(win.y1, 1)
    IN  IF win.y2 >= text_rows THEN {}
        ELSE RowSpans(base, win.y2 + n, Max2(0, win.y2 - y1 + 1), x1, x2)
             \cup RowSpans(base, y1, n, x1, x2)

Scroll(ah, lines, win) ==
    /\ Call(disp_page,
            IF ah = \h06 THEN ScrollUpSpans(lines, win)
                          ELSE ScrollDownSpans(lines, win),
            {}, NoCmd, <<>>, NoRegs, 0)
    /\ UNCHANGED BdaVideo

\* 08h: read the cell under page BH's cursor, from the page at
\* disp_page * cells (bytes).  AX returns the cell; the model records its
\* offset.
ReadChar(bh) ==
    /\ Call(bh, {}, {}, NoCmd, <<>>,
            IF PageValid(bh)
            THEN [ax_from |-> disp_page * Cells
                              + 2 * (cursor[bh].y * text_columns + cursor[bh].x)]
            ELSE NoRegs, 0)
    /\ UNCHANGED BdaVideo

\* 09h/0Ah: store the character CX times (0Ah: once) from page BH's
\* cursor, in the page at page * cells (bytes); outside mode 03h also send
\* WRITE_CHAR for the host to draw the glyph.  The cursor does not move.
WriteChar(ah, bh, cx) ==
    LET x == cursor[bh].x
        y == cursor[bh].y
        count == IF ah = \h0A THEN 1 ELSE cx
        dst == bh * Cells + 2 * (y * text_columns + x)
    IN  \/ /\ ~PageValid(bh)
           /\ Call(bh, {}, {}, NoCmd, <<>>, NoRegs, 0)
        \/ /\ PageValid(bh)
           /\ Call(bh, IF count > 0 THEN {<<dst, dst + 2 * count>>} ELSE {}, {},
                   IF vid_mode # \h03
                   THEN [vidcmd |-> WRITE_CHAR, row |-> y, col |-> x, repeat |-> count]
                   ELSE NoCmd,
                   <<>>, NoRegs, 0)
    /\ UNCHANGED BdaVideo


\* The cursor move of one 0Eh character, in the uint8 x and y of the code.
TtyMove(ch, x, y) ==
    CASE ch = \h08 -> <<IF x > 0 THEN x - 1 ELSE x, y>>
      [] ch = \h09 -> <<(x + ((x + 8) \div 8) * 8) % 256, y>>
      [] ch = \h0A -> <<x, (y + 1) % 256>>
      [] ch = \h0D -> <<0, y>>
      [] ch \in {\h07, \h0B, \h0C} -> <<x, y>>
      [] OTHER -> <<(x + 1) % 256, y>>

\* 0Eh: teletype output on the displayed page.  A printable character is
\* stored at page * cells * 2; the cursor wraps at the last column, and
\* past the last row the page moves up a row and the last row's
\* characters are blanked.
WriteTty(ch) ==
    LET page == disp_page
        base == PageBase(page)
        x0 == cursor[page].x
        y0 == cursor[page].y
        mv == TtyMove(ch, x0, y0)
        wrap == mv[1] >= text_columns
        x == IF wrap THEN 0 ELSE mv[1]
        y == IF wrap THEN (mv[2] + 1) % 256 ELSE mv[2]
        scroll == y > text_rows
        last == base + 2 * text_columns * text_rows
        stored == IF ch \in {\h07, \h08, \h09, \h0A, \h0B, \h0C, \h0D} THEN {}
                  ELSE {<<base + 2 * (y0 * text_columns + x0),
                          base + 2 * (y0 * text_columns + x0) + 1>>}
        moved == IF scroll
                 THEN {<<base, last>>, <<last, last + 2 * text_columns - 1>>}
                 ELSE {}
    IN  /\ Call(page, stored \cup moved, {page}, NoCmd, <<>>, NoRegs, 0)
        /\ cursor' = [cursor EXCEPT ![page] =
                        [x |-> x, y |-> IF scroll THEN text_rows ELSE y]]
        /\ UNCHANGED <<vid_mode, text_columns, text_rows, scan_lines, disp_page>>

\* 0Fh: get video mode, columns and displayed page.
GetMode ==
    /\ Call(disp_page, {}, {}, NoCmd, <<>>,
            [al |-> vid_mode, ah |-> text_columns, bh |-> disp_page], 0)
    /\ UNCHANGED BdaVideo

\* 10h: palette.  00h writes the attribute controller after the status
\* read that resets its flip-flop, 10h one DAC entry; 02h and 12h hand the
\* table at ES:DX to the host.  Other AL values only print.
Palette(al, r) ==
    LET paddr == r.es * 16 + r.dx
    IN  /\ Call(disp_page, {}, {},
                CASE al = \h02 -> [vidcmd |-> SET_PALETTE, paddr |-> paddr,
                                   len |-> 16, vgareg |-> VGA_INPUT_STATUS_1]
                  [] al = \h12 -> [vidcmd |-> SET_PALETTE, paddr |-> paddr,
                                   len |-> r.cx, vgareg |-> VGA_PALETTE_WRITE]
                  [] OTHER -> NoCmd,
                CASE al = \h00 -> <<<<"in", VGA_INPUT_STATUS_1>>,
                                    <<"out", VGA_WRITE_ATTR_INDEX, r.bx % 256>>,
                                    <<"out", VGA_WRITE_ATTR_DATA, r.bx \div 256>>>>
                  [] al = \h10 -> <<<<"out", VGA_PALETTE_WRITE, r.bx % 256>>,
                                    <<"out", VGA_PALETTE_DATA, r.dx \div 256>>,
                                    <<"out", VGA_PALETTE_DATA, r.cx \div 256>>,
                                    <<"out", VGA_PALETTE_DATA, r.cx % 256>>>>
                  [] OTHER -> <<>>,
                NoRegs, 0)
        /\ UNCHANGED BdaVideo

\* 12h: alternate select.  An unknown BL returns BH = 0, BL = 3, CX = 0;
\* the case has no break and runs into 1Ah.
\* 1Ah: display combination code; AL = 0 returns AL = 1Ah, BH = 0.
DccRegs(al) == IF al = \h00 THEN [al |-> \h1A, bh |-> 0] ELSE NoRegs

AltSelect(bl, al) ==
    /\ Call(disp_page, {}, {}, NoCmd, <<>>,
            DccRegs(al) @@ (IF bl \in {\h10, \h20, \h34} THEN NoRegs
                            ELSE [bh |-> 0, bl |-> \h03, cx |-> 0]), 0)
    /\ UNCHANGED BdaVideo

Dcc(al) ==
    /\ Call(disp_page, {}, {}, NoCmd, <<>>, DccRegs(al), 0)
    /\ UNCHANGED BdaVideo

\* EFh: report mode 3.
GetModeEF ==
    /\ Call(disp_page, {}, {}, NoCmd, <<>>, [al |-> \h03], 0)
    /\ UNCHANGED BdaVideo

\* 01h, 0Bh, 11h, 1Bh and 4Fh do nothing but clear CF.
NoOp ==
    /\ Call(disp_page, {}, {}, NoCmd, <<>>, NoRegs, 0)
    /\ UNCHANGED BdaVideo

\* default: print, set CF and return.
Unknown ==
    /\ Call(disp_page, {}, {}, NoCmd, <<>>, NoRegs, 1)
    /\ UNCHANGED BdaVideo

PalRegs == {[bx |-> \h0301, cx |-> \h2a15, dx |-> \h3f00, es |-> \h1000]}

Next ==
    \/ \E al \in ModeArgs : SetMode(al)
    \/ \E bh \in PageArgs, dl \in ColArgs, dh \in RowArgs : SetCursor(bh, dl, dh)
    \/ \E bh \in PageArgs : GetCursor(bh)
    \/ \E al \in PageArgs : SetPage(al)
    \/ \E junk \in JunkPages : ClearWindow(junk)
    \/ \E ah \in {\h06, \h07}, lines \in LineArgs \ {0}, win \in Windows :
          Scroll(ah, lines, win)
    \/ \E bh \in PageArgs : ReadChar(bh)
    \/ \E bh \in PageArgs, cx \in CountArgs : WriteChar(\h09, bh, cx)
    \/ \E bh \in PageArgs : WriteChar(\h0A, bh, 1)
    \/ \E ch \in TtyArgs : WriteTty(ch)
    \/ GetMode
    \/ \E al \in {\h00, \h02, \h03, \h10, \h12, \h01}, r \in PalRegs : Palette(al, r)
    \/ \E bl \in {\h10, \h55}, al \in {\h00, \h01} : AltSelect(bl, al)
    \/ \E al \in {\h00, \h01} : Dcc(al)
    \/ GetModeEF
    \/ NoOp
    \/ \E ah \in OtherAH : Unknown

Spec == Init /\ [][Next]_vars

----------------------------------------------------------------------------
(* Properties                                                              *)

\* Every store of an INT 10h call lands in the page the call addresses
\* (BH for 02h/09h/0Ah, the displayed page for 06h/07h/0Eh), at the
\* page * cells * 2 layout the host renders from, and the only cursor slot
\* it stores to is that page's.  handle_int10 computes the page base of
\* 06h-0Ah without the * 2, lets CX and the scroll window run past the
\* page, and clears the cursor slot of an unassigned `page` in 06h AL = 0.
Int10WritesInAddressedPage ==
    /\ \A w \in wr : PageBase(tgt) <= w[1] /\ w[2] <= PageBase(tgt) + 2 * Cells
    /\ cw \subseteq {tgt}

=============================================================================
