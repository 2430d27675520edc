# TLA+ models of the bhyve micro-BIOS

This directory holds TLA+ models of the bhyve micro-BIOS in `src/bios/`. The
BIOS has two halves. The host half is a device model inside bhyve
(`src/bios/bhyve/`). The guest half is a 16-bit ROM (`src/bios/microboot/`).
The two halves talk through one trap I/O port (0x100) and a few shared records
in guest memory. Every module here is translated from the C source; the lines
each definition stands for are listed under `"map"` in `PROJECT.json`.

## 1. The system: components, state, operations

| # | Component | Source | State it keeps | Operations that change state |
|---|---|---|---|---|
| C1 | Memory-disk store | `bhyve/memdisk.c` | `mdisks[MAX_MDISKS]` (buffer, size, sector size), `num_mds` | `md_create`, `md_write`, `md_read` (through `md_rw`). `md_chs`, `md_sectors` and `md_sectsz` only read state. |
| C4 | Shared control block | `bhyve/microbios.h`, `bhyve/microbios.c:101-167` | In guest RAM: the BDA at 0x400, BIOS_VARS at 0xF5000, the E820 block at 0xF5500, the command buffer at 0xF6000. On the host: the private E820 copy `e820_tbl` and `e820_entries`. | `microbios_setup_shared` (the SETUP command) |
| C5 | Command dispatcher | `bhyve/microbios.c:280-329, 859-884` | `mddisks[32]`, `num_mddisks`, lazily mapped guest pointers | `microbios_io_handler`. A 4-byte OUT is an INT dispatch; a 1- or 2-byte OUT is a command: SETUP, DISK_PARAMS, DISK_IO, CHANGE_ISO_EJECT, PRINTS, VIDEO, DBG_PRINT, POWER_OFF. |
| C6 | INT handlers | `bhyve/microbios.c:365-857` | vCPU registers and BIOS_VARS flags, `timer_counter`, `a20_mode`, guest RAM | INT 13h (disk) and INT 15h (system) subfunctions |
| C3 | VGA device | `bhyve/vga.c` | Four 64 KiB planes, latches, CRTC/SEQ/GC/ATC/DAC registers, the ATC flip-flop, `vga_mode`, `gc_width/height` | port reads and writes, memory reads and writes through the planar pipeline, `vga_switchmode`, and `vga_render` on the render thread |
| C2 | Glyph renderer | `bhyve/glyphs.c` | the font table | `glyph_render_line` (pure), `glyph_load_psf` |
| C7 | Text-console tap | `bhyve/textcons.c` | the client socket `cfd`, a writer thread | accept, the writer loop that mirrors 0xB8000, `recv_key_msg` (key injection) |
| C8 | Guest ROM | `microboot/microboot.c` | the BDA key ring (head, tail, start, end), cursor positions, `vid_mode`, the command `seq` | `bhyve_cmd_set`, `bhyve_load_bootsect`, INT 09h (keyboard producer), INT 16h (consumer), INT 10h (video, TTY), INT 13h/15h stubs that trap to the host |
| -- | Formatting and declarations | `microboot/printf.c`, `microboot/bios.h`, `microboot/microboot.h`, `bhyve/net_utils.h`, `bhyve/memdisk.h` | none | none |

How the parts interact:

- **ROM to host, INT path.** The ROM stub stores EAX, EDX and FLAGS in
  BIOS_VARS. It then writes 4 bytes to port 0x100 with the vector in bits
  31:16. The host reads the other registers from the paused vCPU, runs
  `handle_int13` or `handle_int15`, and writes the registers it changed back to
  the vCPU. It stores FLAGS back into BIOS_VARS.
- **ROM to host, command path.** `bhyve_cmd_set` increments `seq`, sets
  `command` and the args, and sets `results` to the sentinel `0x01BADC0D`. It
  then writes 1 or 2 bytes to the port. The host switches on `command`. The
  spec says every command answers in `results`.
- **Host to memory disk.** DISK_IO, INT 13h/02,03 and INT 13h/42,43 call
  `md_read`/`md_write` through the `microbios_disk` callbacks. These take an
  LBA and a sector count. The glue that turns them into `md_rw`'s byte offset
  and length is in the bhyve launcher, which is not under `src/`, so it is
  modelled from the spec (`spec_modelled`).
- **vCPU against the render thread.** `vga_switchmode` (the VIDEO/VIDMODE
  command) and `vga_port_handler` run on the vCPU thread. `vga_render` runs on
  the display thread and takes no lock. In text mode it draws each row of the
  text page through `glyph_render_line` (C2). `vga_init` registers only the
  port handler. The planar memory handlers are never installed, so guest
  stores to 0xA0000 and 0xB8000 are plain RAM stores.
- **Text-console tap.** `textcons_init` starts a server thread. It accepts one
  TCP client at a time and, for each client, starts a writer thread. The
  writer sends the text page every 500 ms while the shared `rc->cfd` is
  non-negative. The server thread reads key messages and hands them to
  `console_key_event`. When the client stops sending, the server sets
  `rc->cfd = -1`, joins the writer and closes the socket.
- **Interrupts inside the ROM.** INT 09h (the keyboard IRQ) adds to the BDA
  key ring. INT 16h removes from it with interrupts enabled.

What makes this code hard to test. The full list, with lines, is `"hazards"`
in `PROJECT.json`.

- Guest-controlled values reach host memory. These include unit numbers that
  are never checked against `num_mddisks`, a 64-bit LBA whose byte offset
  wraps in `md_rw`'s bounds check, and sector counts of 0 that hit
  `assert(len > 0)`.
- Error paths that overwrite or drop the error. DISK_IO sets `results = 0`
  after the I/O failed. Some commands never write `results`.
- Register encodings that must round-trip. The INT 13h/08 geometry is read
  back through the 02/03 CHS decode, and the E820 continuation is carried in
  EBX.
- Races with no lock. The render thread reads `vga_mode` and
  `gc_width/height` while the vCPU switches modes. INT 16h moves the ring head
  in two steps while INT 09h can run between them. The text-console writer
  polls `rc->cfd` while the server thread clears it.
- Off-by-one ring bounds. The keyboard producer and consumer wrap at
  different points.
- Numeric edges. These include the uint16 cylinder count in `md_chs`, `c-1`
  and `h-1` when the geometry is zero, and the wrap of `offset+len`.

## 2. Plan and status

Each run asks one question of the code. What is done, and what is left:

1. **`MemDisk`** (C1), done. Its state is the disk table. Its actions are
   `md_create` with every outcome, and `md_read`/`md_write` through `md_rw`.
   **`AbsDisk`** is the spec's contract for the store (§4.1), and `MemDisk` is
   shown to refine it with `INSTANCE ... WITH`.
2. **`MicroBios`** (C4, C5, C6, with the ROM's `bhyve_cmd_set`), done. One trap
   at a time, with the guest choosing register and argument values from small
   sets.
3. **`KbdRing`** (C8 keyboard), done. INT 09h `process_scancode` against INT
   16h, with the interrupt arriving between any two steps that run with
   IF = 1. **`AbsKeyQueue`** is what the buffer promises a DOS program.
4. **`Vga`** (C3 as the guest reaches it), done. Every register group of the
   port handlers, the DAC, `vga_switchmode` and the display thread's
   `vga_render`, in any interleaving, after `vga_init` (font, palette, mode 03h).
5. **`Glyphs`** (C2), done. `glyph_render_line` as an operator, used by `Vga`
   and checked against spec item 4. `glyph_load_psf` as an operator over an
   abstract font table, called from `Vga`'s `Init` as `vga_init` calls it.
6. **`TextCons`** (C7), done. The server thread, the writer thread and a peer.
7. **`RomVideo`** (C8 INT 10h), done. Every subfunction of `handle_int10`
   as one call, against the video fields of the BDA, with the text RAM stores
   tracked by address.

## 3. Modules and runs

### Modules

| Module | Models | State (VARIABLES) | Actions |
|---|---|---|---|
| `AbsDisk` | the contract of spec §4.1 | `disks` (unit -> length, sector size, data), `reply` (last request and answer) | `ACreate`, `ARead`, `AWrite` |
| `MemDisk` | `memdisk.c` | `num_mds`, `mdisks` (slot -> `bufsize`, `tail`, `sectsize`, `buf`), `last` (last call, its request and return value), `oob` (a `memcpy` left its buffer) | `md_create` (outcomes ok, open/fstat/read failure, short read), `md_write`, `md_read`; `md_rw` and `MdChsOf` (`md_chs`) are operators |
| `MCMemDisk` | harness for `MemDisk` | | adds `ChsWithinDisk` and the refinement mapping to `AbsDisk` |
| `MicroBios` | `microbios.c` with `vga_switchmode` and the ROM's `bhyve_cmd_set` | `MemDisk`'s variables (instanced as `MD`), `host` (running / aborted), `bda`, `e820blk`, `e820_entries`, `e820_tbl`, `a20_mode`, `flags` (BIOS_VARS CF), `reply` (what the last trap answered), `gmem` (guest buffers), `vgasc`, `ref` (what the guest last wrote per LBA, the reference for reads), `io` (the last disk transfer), `walk` (the guest's E820 walk so far) | one action per command (`CmdSetup` ... `CmdUnknown`) and per INT subfunction (`Int13Rw`, `Int13ExtRw`, `Int13Params`, `Int13Dasd`, `Int13CheckExt`, `Int13Nop`, `Int13Unknown`, `Int15Sys00`, `Int15A20`, `Int15Apm`, `Int15Move`, `Int15Mem`, `Int15E801`, `Int15E820`, `Int15Misc`, `IntUnknown`) |
| `MCMicroBios` | harness for `MicroBios` | | disk images, guest DISK_IO requests |
| `KbdRing` | `microboot.c` INT 09h and INT 16h | `head`, `tail`, `mem` (the BDA words from `key_buffer_start` to `key_buffer_end`), `status1`, `e0`/`e1` (status3), `irq` (the scancode latched in the controller), `cpc`/`sub` (where the guest's INT 16h is), `ax`/`zf`; history: `scans`, `taken`, `held`, `pe0` | `KeyType` (the controller latches a scancode), `handle_int09` (the whole of `process_scancode`), `Int16Call`, `Int16Take00`, `Int16Read10`, `Int16Add10`, `Int16Wrap10` |
| `AbsKeyQueue` | what the key buffer promises | `queue`, `taken` | `QPress`, `QTake` |
| `MCKbdRing` | harness for `KbdRing` | | scancode tables for the keys used, and the scancodes typed |
| `Vga` | `vga.c` as the guest reaches it | `dev` (the register file: CRTC/SEQ/GC/ATC indices and registers, the ATC flip-flop, DAC cursors, `dac_palette` and `dac_palette_rgb`, `aborted`), `inval`, `vga_mode`, `gc_width/height/bpp`, `vpc`/`vnext` (a mode switch in progress), `image` (the console image size), `rpc` (the display thread), `ops`, `font` (the glyph table after `vga_init`); history: `dacBase`, `dacLog` | `GuestPort` (one IN or OUT of width 1, 2 or 4 through `vga_port_handler`), `vga_switchmode` and `StoreMode` (the size, then `vga_mode`), `vga_check_size`, `vga_draw` |
| `Glyphs` | `glyphs.c` | none: `glyphs` (the font rendered from) is a constant | operators `bitmap_to_32bpp`, `glyph_render_line`, `glyph_load_psf` (open, header read, the `&&` header test, glyph read into a table of `FONT_CHUNKS` = 2 chunks, each `"zero"` or `"file"`) and `vga_init_font` (`exit(1)` on a non-zero result) |
| `MCVga` | harness for `Vga` | | about 30 port accesses (`MCAccessesSpec`: the 1- and 2-byte ones), modes {03h, 12h, 13h}, a font, the glyph rows and the reference pixel of spec item 4, and 11 font files (`MCFontFiles`: none; open, header and glyph read failures; empty, 2-byte, header-only and truncated files; an 8x16 and an 8x8 PSF1 font; a non-PSF file) |
| `TextCons` | `textcons.c` | `spc`, `scfd`, `spawned` (server thread; `Init` takes each outcome of `textcons_init`: serving, nothing listening, or listening with no thread), `rc_cfd` (the shared `rc->cfd`), `wpc`, `wfd`, `wconn` (writer thread), `fdconn` (open descriptor -> client), `acc`, `aerr`, `keys` (what `console_key_event` received); the peer: `cst`, `inbuf`, `nsent` | server: `Accept`, `AcceptFail`, `RecvKeyMsg`, `Release`, `Join`, `Close`; writer: `WriterStart`, `WriterCheck`, `SendScreen`; peer: `ClientConnect`, `ClientSend`, `ClientShutdown`, `ClientClose` |
| `MCTextCons` | harness for `TextCons` | | two clients, two bytes, descriptor numbers {4, 5} |
| `RomVideo` | `microboot.c` `handle_int10` | the BDA video fields `vid_mode`, `text_columns`, `text_rows`, `scan_lines`, `cursor` (the 8 `cursor_position` slots), `disp_page`; effects of the last call: `wr` (text RAM byte ranges stored to), `cw` (cursor slots stored to), `tgt` (the page the call addresses), `cmd` (VIDEO command to the host), `ports`, `ret` (registers returned), `cf`; `calls` | one per subfunction: `SetMode` (00h), `SetCursor` (02h), `GetCursor` (03h), `SetPage` (05h), `ClearWindow` (06h/07h AL = 0), `Scroll` (06h/07h), `ReadChar` (08h), `WriteChar` (09h/0Ah), `WriteTty` (0Eh), `GetMode` (0Fh), `Palette` (10h), `AltSelect` (12h, falling into 1Ah), `Dcc` (1Ah), `GetModeEF`, `NoOp` (01h, 0Bh, 11h, 1Bh, 4Fh), `Unknown` |
| `MCRomVideo` | harness for `RomVideo` | | the register values of the calls |

One trap is one atomic step: the vCPU that writes port 0x100 is paused until the
handler returns, and the host side runs nothing else on that state, so the
handler's whole body (every assignment, the disk call, the registers written
back and `bios_vars->flags`) is one action. The guest's register values are the
action's inputs, chosen with `\E` from small sets. A handler that reaches an
`assert` or a NULL dereference goes to `host = "aborted"` (`Abort`); after that
nothing else happens.

Data abstraction. Disk data is counted in 512-byte granules (an ISO sector is 4
granules). A granule holds a model value: the image's own data, one value the
guest writes, or garbage. The uint64 offset of `md_rw` wraps at `2^UWidth`
granules; the uint32 CHS-to-LBA arithmetic of `microbios_disk_io_cmd` and INT
13h/02 wraps at `2^LBA_WIDTH`. The wrap behaviour of the bounds check does not
depend on the width. The guest registers that the ROM reloads before every INT
are not state: only CF in BIOS_VARS is carried between traps (`flags`), and
`reply` holds the answer to the last trap. `bhyve_cmd_set` sets `results` to
MAGIC before every command, so a command's answer does not depend on an earlier
one either.

`PersistentView` leaves out `reply`, `io` and `last`. No action reads them. The
properties that look at them are action properties (`DiskDataIntegrity`) or
invariants checked in every state TLC generates. So two states that differ only
in them have the same futures.

`KbdRing`. A keyboard interrupt runs whole, because the CPU enters it with
IF = 0. INT 16h is split at the points where it runs with IF = 1. /00 waits
with IF = 1, then reads and advances with IF = 0. /10 waits, reads, adds 2 to
head and wraps it, all with IF = 1. The scancode tables are given only for the
rows the typed scancodes reach. A read past a table's end (hazard) may yield
any word of `OobKeys`.

`Vga`. A port access is one step: the vCPU is paused in the I/O exit while
`vga_port_handler` runs. A 2-byte access is the handler's two 1-byte calls in
one step. The second byte is skipped if the first one aborted. An `assert`
that fails sets `dev.aborted`, because bhyve exits. `vga_switchmode` is two
steps, because the render thread can run between the size stores and the
`vga_mode` store. `vga_render` is two steps: `vga_check_size` (resize the
image) and `vga_draw` (draw `DrawnPixels` into it). The pixel values are
abstracted away. Only their count matters to the properties, and in text mode
the count comes from `glyph_render_line`. The initial state is what `vga_init` leaves: zeroed
registers and the default mode-13h palette of `vga_initialize_palette` in
`dac_palette_rgb[0..247]`. The 6-bit `dac_palette` bytes stay 0, so until the
guest writes an entry, a DAC read (3C7/3C9) returns 0 for a colour the screen
shows.

`RomVideo`. An INT 10h call runs whole: the ROM handler runs with the
interrupt it was entered by, and nothing else in the model touches the BDA's
video fields. The model keeps where each call stores and leaves out what it
stores. Text RAM is a byte address space from 0xB8000, and a call's stores are
a set of byte ranges. `Int10WritesInAddressedPage` compares them with the page
the call addresses, laid out at `page * cells * 2` as the TTY path and the
host's `render_text` lay it out. A cursor slot is `cursor_position[k]` at BDA
0x50 + 2k, so slot 9 is the word holding `disp_page`. The uninitialised local
`page` of 06h/07h AL = 0 is any value of `JunkPages`. The palette values and
the COM1 debug output of `printf` are left out.

`TextCons`. A screen is one write step. A write fails on a closed descriptor
or a client that has closed. `textcons_thr` blocks SIGPIPE, and the writer
inherits that mask, so the failure is EPIPE and bhyve keeps running.
`accept()` returns the lowest free descriptor number. The peer may also
half-close: it stops sending but keeps reading.
### Runs

| Run | Config | Expect | What it shows |
|---|---|---|---|
| `memdisk` | `MCMemDisk.cfg` | pass | `MemDisk` refines `AbsDisk` (`AbsDiskRefined`). No accepted copy leaves its buffer (`MdAccessInBounds`). `md_chs` never claims more sectors than the disk has, at every size where its formula changes (`ChsWithinDisk`). Two images (raw 3 granules; ISO 5 granules with a tail), offsets 0-2, transfers of 1 to `MaxSectors` sectors, up to 2 creates. 2940 states. |
| `bios` | `MCMicroBios.cfg` | pass | Every command and INT subfunction, with a raw and an ISO disk. The E820 walk, for every continuation value the guest passes, follows the table and ends with EBX = 0 (`E820WalkExact`). Every successful read, through CHS, EDD or DISK_IO, returns what was last written at that LBA (`DiskDataIntegrity`). 55296 distinct states, about 70 s. |
| `bios_edd_lba_wrap` | `MCMicroBiosWrap.cfg` | violation | EDD LBA 255 (the end of the model's uint64 range): `offset + len` wraps, the check passes, `memcpy` leaves the buffer. |
| `bios_disk_io_mask` | `MCMicroBiosMask.cfg` | violation | DISK_IO read of an empty disk: `md_rw` refuses, `results = 0` reports success. |
| `bios_params_encoding` | `MCMicroBiosParams.cfg` | violation | A 72-granule disk (2 cylinders of 2x18): INT 13h/08 reports last cylinder 1 in a form that 02/03 decode as 256. |
| `kbd` | `MCKbdRing.cfg` | pass | Up to 4 scancodes (A, 1, Shift, Ctrl, E0 Up and releases) against INT 16h/00 and /10 on a three-word ring. Every make code stores exactly the key the tables give for the modifiers and E0 prefix in the scancode history (`KeyStored`). A guest waiting in INT 16h returns once 'A' is typed (`TypedKeyWakesReader`). 180810 states. |
| `kbd_ring_wrap` | `MCKbdRingWrap.cfg` | violation | 'A' typed repeatedly: after the tail wraps, INT 16h hands the guest the word at `key_buffer_end` (`KeyQueueRefined`, the refinement of `AbsKeyQueue`). |
| `vga` | `MCVga.cfg` | pass | Up to 5 guest port accesses and mode switches, with the display thread, in every order. The DAC read/write cursors and every palette entry follow the history of 3C7/3C8/3C9 bytes (`DacProtocol`). The image converges to the size of the mode last set (`ImageFollowsSize`). While in text mode, `glyph_render_line` renders what spec item 4 says for every row of up to two cells (`GlyphLineIsReference`). Whatever font file `vga_init` is given, the guest never runs on a partly overwritten glyph table (`FontNeverPartial`). 416380 states, about 80 s. |
| `vga_mode13_overflow` | `MCVgaMode13.cfg` | violation | `vga_switchmode(0x13)` leaves `vga_mode` at 3, so the display thread draws 640x400 text pixels into a 320x200 image (`RenderInImage`). |
| `vga_guest_abort` | `MCVgaAbort.cfg` | violation | Every 1- and 2-byte access the spec allows (`MCAccessesSpec`), up to 2 of them. A single 1-byte read of 3C2 (input status 0) aborts bhyve, although only chain-4 is a fatal guest error in the spec (`AbortOnlyWhenFatal`). |
| `rom_video_cls` | `MCRomVideo.cfg` | violation | Up to 3 INT 10h calls from boot. 06h with AL = 0 (clear screen) stores to the cursor slot of an unassigned `page` (`Int10WritesInAddressedPage`). |
| `textcons` | `MCTextCons.cfg` | pass | Two clients one after the other, one failed `accept()`, and a failing `pthread_create`, from each outcome of `textcons_init`. Every screen the writer sends goes to the client it was started for, never to a closed or reused descriptor (`ScreenGoesToItsClient`). A client that has stopped sending is always released, with its writer joined and its socket closed, even if it keeps reading (`HungUpClientReleased`). 86544 states. |

Every property of a passing run has a mutant in `PROJECT.json`: a plausible bug
in the mapped definition (an off-by-one in `md_rw`'s check, a cylinder count not
divided by heads, a CHS sector not decremented, an E820 continuation not
wrapped, A20 stored unvalidated, a buffer one granule too long, the ring wrapped one slot late, an E0 flag not reset, INT 16h waiting with interrupts off, a DAC index write that keeps the sub-index, a render size check that compares only the width, glyph bits emitted LSB first, the writer not joined before `close`, `rc->cfd` not cleared, a buffer passed where `buf[0]` is meant) under which TLC
finds the property violated.
### Bounds

- `MAX_MDISKS` 8 (the code's value) with at most 2 creates in `memdisk`; a table of 4 holding 2 disks in `bios`: enough for two units of different sector
  size.
- `MemDisk` also has a short-read outcome of `md_create` (`read()` returning 0
  before `st_size` bytes, so the file shrank after `fstat`). The `memdisk` run
  leaves it out of `CreateOutcomes`. With it, `AbsDiskRefined` fails: the disk
  is registered with an unread tail (hazard at `memdisk.c:97`).
- Disks of 2-5 granules: an ISO disk is larger than one sector, so requests
  that end exactly at the end, and one granule past it, both occur.
- Drives {0, 128, 129}: a floppy number and both registered disks. No request
  names an unregistered unit: that is the unchecked `mddisks[]` index
  (hazard at `microbios.c:236`), which no run reaches.
- LBAs {0, 1, 2} and CHS CL {0, 1, 2}: sector 0 (the uint32 underflow), an
  in-range and an out-of-range sector.
- E820 continuation 0-4: every entry of the 4-entry table and one past it.
- `TIMER_WRAP` 1: the timer is only ever incremented, and no property reads it.
- Geometry: 18 sizes at the edges of `md_chs` (floppy limit, 16/32 heads,
  uint16 cylinder, clamp), raw and ISO, checked as a state invariant.
- Keyboard: a ring of three words (`START` 30, `END` 36), so it fills after
  two keys and the tail wraps within 4 scancodes. The scancodes are one key
  with a value in every shift state, a digit, both Shift and Ctrl make/break
  codes, and E0 with Up.
- VGA: `MaxOps` 5. A DAC entry needs an index write and three data writes, and
  a mode switch race needs one switch with renders interleaved. Width-2 and
  width-4 accesses are included, and so are ports the handler does not know.
  The glyph check covers 2 characters x 3 attributes in rows of 0-2 cells.
  Every case of `glyph_render_line` (cell index, scanline, each of the 8 bits,
  the foreground and background nibbles) then occurs. The row length only
  repeats the inner loop.
- Text console: 2 clients and 2 bytes each, so one read can take two bytes.
  There is one accept failure. Descriptor numbers {4, 5}, so a descriptor
  that was not closed, or was reused, shows.

- ROM video: 3 calls, pages {0, 1, 8} (8 is refused in every mode), cursor
  corners {0, 79} x {0, 29}, two scroll windows, CX {1, 2000} and junk pages
  {0, 1, 9}. Every store bug listed as a hazard at `microboot.c` 802-1010 is
  reached within 3 calls: each breaks the property on its own once the
  earlier ones are closed by narrowing these sets (07h with the window rows
  2-20, 09h on page 1, CX = 2000 in mode 13h, a cursor at column 79 carried
  into mode 13h).

### Fairness and deadlock

`MemDisk` and `MicroBios` have only safety properties, so they assume no
fairness. The BIOS acts only when the guest traps, and the guest may stop
trapping. `MCMicroBios.cfg` sets `CHECK_DEADLOCK FALSE`, because after
POWER_OFF (`exit(0)`) or an abort the host no longer runs, and that is a real
end state. `MCMemDisk.cfg` keeps the deadlock check.

The liveness properties assume weak fairness only for what the code runs
unconditionally:
- `KbdRing`: `handle_int09`, because the controller's interrupt is taken
  whenever IF = 1. Also `Int16Continue`, because a vCPU in INT 16h keeps
  executing.
- `Vga`: `StoreMode`, because the vCPU finishes `vga_switchmode`. Also
  `vga_check_size` and `vga_draw`, because bhyve's display thread calls
  `vga_render` periodically.
- `TextCons`: the server thread and the writer thread, because both are
  runnable threads that the OS schedules.

`RomVideo` has one safety property and no fairness. `MCRomVideo.cfg` sets
`CHECK_DEADLOCK FALSE`, because the guest's calls are bounded by `MaxCalls`.

The user (`KeyType`), the guest's port accesses and the peer get no fairness.
A liveness property is stated only for what must happen whatever they do. The
kbd, vga and textcons runs set `CHECK_DEADLOCK FALSE`. A guest may stop typing
or accessing ports, and the text console's server thread blocks in `accept()`
for ever once no client connects. These are real end states.

### Not modelled

- **The VGA memory handlers, latches, planar write modes and raster ops**
  (`vga_mem_handler`, `vga_mem_rd/wr_handler`). `vga_init` never registers
  them, so no guest access reaches them, and the hazard list leaves them out
  for the same reason.
- **Pixel values** of modes 12h and 13h and of the text page. `Vga` counts the
  pixels drawn. Their values depend only on the RAM and palette contents,
  which no property relates to the image.
- **The glyph bytes `glyph_load_psf` reads.** Its control is modelled, with
  the table as two chunks that are zero or the file's; rendering uses the
  constant font `glyphs`, since no property relates the loaded bytes to the
  pixels. The loader also accepts an 8x8 PSF1 font and a header-only file,
  against the spec's Configuration rule for `font_file` ("load fails otherwise"); both are reachable in the
  `vga` run but no run states that rule (hazard at `glyphs.c:127`).
- **The screen text `textcons_send_screen` formats.** `TextCons` writes a
  screen as one step. (`textcons_init`'s error paths are in `Init`.)
- **Which INT 16h handler the ROM runs.** The C `handle_int16` and its
  dispatch case are compiled only under `#ifdef INT16_C`
  (`microboot.c:192, 1197`), which nothing under `src/` defines; without it
  INT 16h falls to the dispatcher's default case, which prints "UNDEFINED
  INT" and returns. `KbdRing` models the C handler,
  the one this repository has source for, as the build that defines
  `INT16_C` runs it. `handle_int1a` (`INT1A_C`, also never defined) is not
  modelled.
- **The contents of text RAM** written by INT 10h, and the palette values it
  passes on. `RomVideo` tracks where each call stores; no property is about
  the characters themselves.
- **`printf.c` and the headers**: formatting and declarations only.

`"hazards"` in `PROJECT.json` lists each hazard without a property, with a
note on why.

### Findings

1. `memdisk.c:196`: a guest EDD LBA near `2^55` wraps `offset + len` in the
   uint64 bounds check, so the host copies outside the disk buffer
   (`bios_edd_lba_wrap`).
2. `microbios.c:297`: a failed DISK_IO is answered `results = 0`
   (`bios_disk_io_mask`). The boot loader's "BOOT SECTOR LOAD FAILED"
   branch (`microboot.c:132`) is therefore never taken; a failed load shows
   only as the signature check's halt, "BOOT SIGNATURE NOT VALID"
   (`microboot.c:144-149`).
3. `microbios.c:586`: the INT 13h/08 cylinder encoding does not round-trip
   (`bios_params_encoding`).
4. `microboot.c:810`: INT 10h 06h/07h with AL = 0, the clear-screen call of
   DOS `CLS`, stores 0 to `cursor_position[page]` with `page` never assigned,
   so it resets another page's cursor, clears `disp_page` (slot 9) or writes
   past the BDA, and leaves the displayed page's cursor where it was
   (`rom_video_cls`). The same property catches the other INT 10h store bugs
   listed under Bounds.
5. `microboot.c:1213`: the INT 16h consumer wraps the head one slot after the
   producer's ring ends, so the guest is handed the word after the ring as a
   key (`kbd_ring_wrap`).
6. `vga.c:1342`: `vga_switchmode(0x13)` sets a 320x200 image but leaves
   `vga_mode` at 3, and the display thread draws 640x400 text into it
   (`vga_mode13_overflow`). The same unlocked check-then-draw also lets a
   03h -> 12h switch between `vga_check_size` and the draw write 640x480
   pixels into a 640x400 image. That race is a hazard at `vga.c:364`, and
   `RenderInImage` finds it too when `Modes` is {03h, 12h}.
7. `vga.c:955`: a 1-byte read of port 3C2, which spec 4.3 lists as the
   input-status-0 port, reaches `assert(0)` and ends the bhyve process: any
   guest can stop the VM with one `IN` (`vga_guest_abort`). The spec's error
   table makes only chain-4 and the monochrome aperture fatal.
   `vga.c:1172` (a hazard, no run): DAC data bytes are not masked to 6 bits,
   so a value of 64 or more changes the neighbouring channel. `DacRgbSixBit`
   in `Vga.tla` states the spec's expansion; add it to `MCVga.cfg`'s
   invariants and TLC finds it violated by `Out(1, 3C9, 40h)`.
8. `textcons.c:118` (a hazard, not a run): every EOF and every failed
   `accept()` presses and releases an uninitialised `buf[0]` in the guest, and
   a multi-byte read delivers only its first byte. `TextCons` reproduces this
   in `keys`.
