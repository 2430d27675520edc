----------------------------- MODULE MCRomVideo -----------------------------
(* INT 10h in the ROM from boot: mode 03h, pages 0 and 1 and one the mode  *)
(* rejects (8), cursor positions at the screen's corners and one past the  *)
(* last row of mode 03h (29), a scroll window in the lower part of the     *)
(* screen and one in the middle, a single cell and a full screen of CX.    *)
EXTENDS RomVideo

MCModeArgs == {\h03, \h12, \h13, \h00}
MCPageArgs == {0, 1, 8}
MCColArgs == {0, 79}
MCRowArgs == {0, 29}
MCWindows == {[x1 |-> 0, y1 |-> 10, x2 |-> 79, y2 |-> 24],
              [x1 |-> 0, y1 |-> 2, x2 |-> 79, y2 |-> 20]}
MCLineArgs == {0, 1}
MCCountArgs == {1, 2000}
MCTtyArgs == {\h41, \h09, \h0A, \h0D}
MCJunkPages == {0, 1, 9}
MCOtherAH == {\h20}
MCMaxCalls == 3
=============================================================================
