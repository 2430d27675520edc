----------------------------- MODULE MCKbdRing -----------------------------
(***************************************************************************)
(* Model-checking harness for KbdRing: a ring of three words, the rows of  *)
(* the two key tables for the scancodes typed, and a keyboard that types   *)
(* 'A', '1', left shift, left control and the E0-prefixed cursor up.       *)
(***************************************************************************)
EXTENDS KbdRing

\* Rows of key_1byte_entries (microboot.c:311-401), indexed by scancode:
\* <<normal, shift, control, alt>>.
MCT1Rows ==
    (2  :> <<561, 545, 65535, 30720>>)       \* '1'   0x0231 0x0221 0xffff 0x7800
    @@ (29 :> <<65535, 65535, 65535, 65535>>) \* left control
    @@ (30 :> <<7777, 7745, 7681, 7680>>)     \* 'A'   0x1e61 0x1e41 0x1e01 0x1e00
    @@ (42 :> <<65535, 65535, 65535, 65535>>) \* left shift
    @@ (72 :> <<18432, 18488, 65535, 65535>>) \* cursor up 0x4800 0x4838

\* Rows of key_2byte_entries (microboot.c:403-488) for the same scancodes.
MCT2Rows ==
    (2  :> <<65535, 65535, 65535, 65535>>)
    @@ (29 :> <<65535, 65535, 65535, 65535>>) \* right control
    @@ (30 :> <<65535, 65535, 65535, 65535>>)
    @@ (42 :> <<65535, 65535, 29184, 65535>>) \* e0 2a: control -> 0x7200
    @@ (72 :> <<18432, 18432, 65535, 65535>>) \* cursor up 0x4800 0x4800

\* 'A' make and release, '1', left shift and left control make and release,
\* the E0 prefix and cursor up.
MCScancodes == {30, 158, 2, 42, 170, 29, 157, 224, 72}

=============================================================================
