----------------------------- MODULE MicroBios -----------------------------
(***************************************************************************)
(* The host half of the micro-BIOS (src/bios/bhyve/microbios.c) and the    *)
(* ROM's side of the command protocol (bhyve_cmd_set, microboot.c:17-29).  *)
(*                                                                         *)
(* The vCPU is paused for the whole of a trap, so each trap is one atomic  *)
(* step: the guest loads registers or the command buffer with values from  *)
(* small sets, writes port 0x100, and the host's handler runs to the end.  *)
(*                                                                         *)
(* Disks are the memory disks of MemDisk (spec: DISK_IO "translates a      *)
(* CHS/LBA disk request to a memory-disk call").  The glue that turns the  *)
(* microbios_disk callbacks md_read/md_write(sc, lba, buf, sectors) and    *)
(* blockif_chs/blockif_sectsz into memdisk calls is in the bhyve launcher, *)
(* not under src/, and is modelled from the spec.                          *)
(*                                                                         *)
(* Guest RAM used as disk buffers is GRAM granules of 512 bytes; a buffer  *)
(* address is a granule index (the real-mode (ES << 4) + BX arithmetic is  *)
(* abstracted to that index).  Register values are 32-bit numbers; the     *)
(* guest's choices are kept below 2^31.                                    *)
(***************************************************************************)
EXTENDS Integers, Sequences

CONSTANTS
    DiskImages,   \* images registered at launch, in order: unit i is DiskImages[i+1]
    MAX_MDISKS, Vals, Orig, Garbage, UWidth,   \* as in MemDisk
    LOWMEM,       \* vm_get_lowmem_size(), in bytes
    GRAM,         \* guest RAM granules usable as disk buffers
    GuestData,    \* what guest RAM holds before any disk read
    TIMER_WRAP,   \* bda->timer_counter (a uint32) is kept modulo this
    Drives,       \* drive numbers (DL) a guest passes
    Counts,       \* sector counts (AL, DAP blocks) a guest passes
    DiskIoArgs,   \* DISK_IO argument records a guest puts in the command buffer
    DapSizes,     \* DAP and EDD-parameter struct_size values a guest passes
    CHs, CLs, DHs,\* CHS register bytes a guest passes to INT 13h/02,03
    Lbas,         \* LBAs a guest puts in a DAP or a DISK_IO command
    Bufs,         \* buffer addresses (granules) a guest passes
    Conts,        \* EBX continuation values a guest passes to E820
    VidModes,     \* modes a guest passes to VIDEO/VIDMODE
    NO_LBA,       \* stands for lba == ~0ULL in a DISK_IO command
    CFG_TBL,      \* bios_vars->bios_config_tbl_offset, set by the ROM
    LBA_WIDTH     \* width of the uint32 CHS-to-LBA arithmetic (32 in the code)

ASSUME LOWMEM >= 2 ^ 20 /\ LOWMEM <= 2 ^ 30

VARIABLES
    num_mds, mdisks, last, oob,   \* the memory-disk store (MemDisk)
    host,          \* "running", "aborted" (assert or NULL dereference), "off" (exit(0))
    bda,           \* the BIOS data area fields the host writes
    e820blk,       \* the guest's E820 block at 0xF5500: its entries
    e820_entries,  \* microbios.c:98
    e820_tbl,      \* microbios.c:99: the private copy, <<>> while NULL
    a20_mode,      \* handle_int15's static a20_mode
    flags,         \* bios_vars->flags: CF as the last INT left it
    reply,         \* what the guest reads back from its last trap (see Answers)
    gmem,          \* guest RAM granules used as disk buffers
    vgasc,         \* vga_mode, gc_width, gc_height, gc_bpp of vga.c
    ref,           \* ghost: each disk as the guest has written it, by LBA
    io,            \* ghost: the guest's last disk request and whether it was reported done
    walk           \* ghost: the E820 entries of the guest's current walk

MD == INSTANCE MemDisk WITH Images <- {}, CreateOutcomes <- {}, Offsets <- {},
                             MaxSectors <- 1, MaxCreates <- 1

vars == <<num_mds, mdisks, last, oob, host, bda, e820blk, e820_entries, e820_tbl,
          a20_mode, gmem, vgasc, ref, io, walk>>

-----------------------------------------------------------------------------
(* Register arithmetic of microbios.c:353-363.                             *)

Lo8(x)  == x % 256
Hi8(x)  == (x \div 256) % 256
Word(x) == x % 65536
High(x) == x - Word(x)                          \* x & 0xffff0000
SetAH(x, v) == x - Hi8(x) * 256 + v * 256       \* (x & 0xffff00ff) | v << 8
SetAL(x, v) == x - Lo8(x) + v                   \* (x & 0xffffff00) | v

EINVAL == 22
MAGIC  == 28237837           \* 0x01BADC0D, bhyve_cmd_set's "no answer" sentinel
SMAP   == 1397571920         \* 0x534D4150

-----------------------------------------------------------------------------
(* The disks: microbios_register_disk (microbios.c:176-186) fills the      *)
(* first free slots, so unit i is the i-th registered disk.                *)

num_mddisks == Len(DiskImages)

\* mddisks[unit] != NULL
DiskPresent(unit) == unit < num_mddisks

\* blockif_sectsz / blockif_chs / blockif_size of a unit, via memdisk.
SectSz(u)  == mdisks[u].sectsize
DiskChs(u) == MD!md_chs(u)
DiskSectors(u) == MD!md_sectors(u)

(***************************************************************************)
(* The microbios_disk callbacks md_read/md_write(sc, lba, buf, sectors)    *)
(* as the launcher provides them: md_read/md_write(unit, lba * sectsize,   *)
(* buf, sectors * sectsize), returning memdisk's 0 or -1; the uint64       *)
(* product wraps.  A read copies into guest RAM at addr.  CallbackAborts   *)
(* is a call that trips one of md_rw's asserts (a zero length).            *)
(***************************************************************************)
CallbackAborts(u, sectors) == ~MD!MdRwAsserts(u, sectors * SectSz(u))

MdCallback(u, do_write, lba, addr, sectors) ==
    LET len == sectors * SectSz(u) IN
    /\ MD!md_rw(u, do_write, (lba * SectSz(u)) % MD!Wrap,
                [i \in 0 .. len - 1 |-> gmem[addr + i]], len)
    /\ gmem' = IF do_write \/ last'.ret < 0 THEN gmem
               ELSE [g \in DOMAIN gmem |->
                       IF addr <= g /\ g < addr + len THEN last'.data[g - addr] ELSE gmem[g]]

\* The callback's return value, as the handlers test it.
MdRet == last'.ret

-----------------------------------------------------------------------------
(* Ghosts: what the guest asked for, in the spec's terms.                  *)

\* The spec's CHS to LBA rule (glossary): lba = (c * heads + h) * secpt + s - 1.
SpecLba(u, c, h, s) == (c * DiskChs(u).h + h) * DiskChs(u).s + s - 1

\* The spec's INT 13h/02,03 register layout (spec 4.6): cylinder is CL[7:6]:CH,
\* head DH[5:0], sector CL[5:0].
SpecChs(ch, cl, dh) == [c |-> ch + (cl \div 64) * 256, h |-> dh % 64, s |-> cl % 64]

\* Record a disk request and whether the BIOS reported it done; a reported
\* write updates the guest's view of the disk.
NoteIo(kind, u, lba, n, addr, done) ==
    /\ io' = [kind |-> kind, unit |-> u, lba |-> lba, n |-> n, addr |-> addr, ok |-> done]
    /\ ref' = IF kind = "write" /\ done /\ DiskPresent(u)
                THEN [ref EXCEPT ![u] =
                        [g \in DOMAIN @ |->
                           LET k == g - lba * SectSz(u) IN
                           IF 0 <= k /\ k < n * SectSz(u) THEN gmem[addr + k] ELSE @[g]]]
                ELSE ref

\* The four entries the spec tables for E820 (spec 4.7).
SpecE820 ==
    << [addr |-> 0, size |-> 1280, type |-> 2],
       [addr |-> 1280, size |-> 655360 - 1280, type |-> 1],
       [addr |-> 655360, size |-> 393216, type |-> 2],
       [addr |-> 1048576, size |-> LOWMEM - 1048576, type |-> 1] >>

-----------------------------------------------------------------------------
Entry == [addr : Nat, size : Nat, type : {1, 2}]

TypeOK ==
    /\ host \in {"running", "aborted", "off"}
    /\ e820_entries \in 0 .. 65535
    /\ e820_tbl \in Seq(Entry)
    /\ e820blk \in Seq(Entry)
    /\ a20_mode \in {0, 1}
    /\ flags \in {0, 1}
    /\ reply.kind \in {"none", "cmd", "int"}
    /\ DOMAIN gmem = 0 .. GRAM - 1
    /\ vgasc.vga_mode \in 0 .. 255
    /\ io.kind \in {"none", "read", "write", "params"}
    /\ bda.timer_counter \in 0 .. TIMER_WRAP - 1

Init ==
    /\ num_mds = num_mddisks
    /\ mdisks = [s \in MD!Slots |->
                   IF s < num_mddisks THEN MD!Registered(DiskImages[s + 1], DiskImages[s + 1].gran)
                   ELSE MD!NoDisk]
    /\ last = [op |-> "none", unit |-> 0, off |-> 0, len |-> 0, ret |-> 0, data |-> <<>>]
    /\ oob = FALSE
    /\ host = "running"
    /\ bda = [number_of_drives |-> 0, com1 |-> 0, mem_size |-> 0, rows |-> 0,
              cols |-> 0, vid_mode |-> 0, disp_page |-> 0, timer_counter |-> 0]
    /\ e820blk = <<>>
    /\ e820_entries = 0
    /\ e820_tbl = <<>>
    /\ a20_mode = 1
    /\ flags = 0
    /\ reply = [kind |-> "none"]
    /\ gmem = [g \in 0 .. GRAM - 1 |-> GuestData]
    /\ vgasc = [vga_mode |-> 3, gc_width |-> 640, gc_height |-> 400, gc_bpp |-> 4]
    /\ ref = [u \in 0 .. num_mddisks - 1 |-> mdisks[u].buf]
    /\ io = [kind |-> "none", unit |-> 0, lba |-> 0, n |-> 0, addr |-> 0, ok |-> FALSE]
    /\ walk = [entries |-> <<>>, next |-> 0]

-----------------------------------------------------------------------------
Running == host = "running"

\* A NULL dereference or a failed assert: the bhyve process dies with the VM.
Abort ==
    /\ host' = "aborted"
    /\ UNCHANGED <<num_mds, mdisks, last, oob, bda, e820blk, e820_entries, e820_tbl,
                   a20_mode, gmem, vgasc, ref, io, walk, flags, reply>>

NoIo == [kind |-> "none", unit |-> 0, lba |-> 0, n |-> 0, addr |-> 0, ok |-> FALSE]

\* A step that does no disk I/O and leaves the E820 walk alone.
NoDiskIo ==
    /\ io' = NoIo
    /\ UNCHANGED <<num_mds, mdisks, last, oob, gmem, ref, walk>>

(***************************************************************************)
(* Answers.  The guest reads a trap's answer right after it: a command's   *)
(* results (bhyve_cmd_set puts MAGIC there before every command) and the   *)
(* DISK_PARAMS record; an INT's registers and the record the host wrote    *)
(* into the guest's buffer.  The next trap overwrites them, so only the    *)
(* answer of the last trap is kept.                                        *)
(***************************************************************************)
NoParams == [disk |-> 0, heads |-> 0, cylinders |-> 0, sectors |-> 0, disk_sectors |-> 0,
             sector_size |-> 0]

CmdAnswer(v, p) == reply' = [kind |-> "cmd", results |-> v, params |-> p]

\* A buffer of n sectors of unit u at addr lies in the modelled guest RAM.
BufFits(u, addr, n) == ~DiskPresent(u) \/ addr + n * SectSz(u) <= GRAM

(***************************************************************************)
(* The command path.  bhyve_cmd_set (microboot.c:17-29) sets command and   *)
(* results = MAGIC, then OUTs one byte; microbios_io_handler               *)
(* (microbios.c:859-884) runs microbios_cmd_handler (281-329).  seq is     *)
(* only printed by the host and is left out.                               *)
(***************************************************************************)

\* The E820 entries microbios_setup_shared writes (microbios.c:120-159).
SetupEntries ==
    << [addr |-> 0, size |-> 1280, type |-> 2],
       [addr |-> 1280, size |-> 655360 - 1280, type |-> 1],
       [addr |-> 655360, size |-> 1048576 - 655360, type |-> 2],
       [addr |-> 1048576, size |-> LOWMEM - 1048576, type |-> 1] >>

\* microbios_setup_shared (microbios.c:102-167): BDA defaults, the E820
\* block, and the private copy only when e820_tbl is still NULL.
microbios_setup_shared ==
    /\ bda' = [bda EXCEPT !.number_of_drives = num_mddisks, !.com1 = 1016,
                          !.mem_size = 640, !.rows = 24, !.cols = 80, !.vid_mode = 3]
    /\ e820blk' = SetupEntries
    /\ e820_entries' = Len(SetupEntries)
    /\ e820_tbl' = IF e820_tbl = <<>> THEN SetupEntries ELSE e820_tbl

CmdSetup ==
    /\ Running
    /\ microbios_setup_shared
    /\ CmdAnswer(0, NoParams)
    /\ NoDiskIo
    /\ UNCHANGED <<host, a20_mode, vgasc, flags>>

\* microbios_disk_params (microbios.c:188-214).
microbios_disk_params(disk) ==
    LET unit == disk % 128 IN
    IF disk < 128 \/ unit >= num_mddisks
      THEN CmdAnswer(EINVAL, NoParams)
      ELSE CmdAnswer(0, [disk |-> num_mddisks, heads |-> DiskChs(unit).h,
                         cylinders |-> DiskChs(unit).c, sectors |-> DiskChs(unit).s,
                         disk_sectors |-> DiskSectors(unit), sector_size |-> SectSz(unit) * 512])

CmdDiskParams ==
    /\ Running
    /\ \E disk \in Drives : microbios_disk_params(disk)
    /\ NoDiskIo
    /\ UNCHANGED <<host, bda, e820blk, e820_entries, e820_tbl, a20_mode, vgasc, flags>>

\* Fault variant: the CHS-to-LBA rule without the - 1 for 1-based sectors.
ChsLbaNoMinus(u, cyl, head, sector) ==
    ((cyl * DiskChs(u).h + head) * DiskChs(u).s + sector) % (2 ^ LBA_WIDTH)

\* The LBA of a CHS triple, computed in uint32 arithmetic (microbios.c:247, 469).
ChsLba(u, cyl, head, sector) ==
    ((cyl * DiskChs(u).h + head) * DiskChs(u).s + sector - 1) % (2 ^ LBA_WIDTH)

(***************************************************************************)
(* DISK_IO: assert(num_mddisks > 0), microbios_disk_io_cmd (229-278), then *)
(* results = 0 (microbios.c:292-299).  disk < 0x80 answers 1; otherwise    *)
(* mddisks[disk & ~0x80] is used unchecked.  A write fails on a callback   *)
(* result < 0, a read on <= 0; either sets results = errno.  Line 297 then *)
(* overwrites results with 0 whatever happened.                            *)
(***************************************************************************)
microbios_disk_io_cmd(a) ==
    LET u   == a.disk % 128
        lba == IF a.lba = NO_LBA THEN ChsLba(u, a.cylinder, a.head, a.sector) ELSE a.lba
    IN  IF a.disk < 128
          THEN UNCHANGED <<mdisks, last, oob, gmem>>
          ELSE MdCallback(u, a.direction = 1, lba, a.addr, a.sectors)

\* The LBA the guest meant by a DISK_IO request.
IoLba(a) == IF a.lba = NO_LBA THEN SpecLba(a.disk % 128, a.cylinder, a.head, a.sector)
            ELSE a.lba

CmdDiskIo ==
    /\ Running
    /\ \E a \in DiskIoArgs :
        LET u == a.disk % 128 IN
        /\ BufFits(u, a.addr, a.sectors)
        /\ IF \/ num_mddisks = 0
              \/ a.disk >= 128 /\ ~DiskPresent(u)
              \/ a.disk >= 128 /\ CallbackAborts(u, a.sectors)
             THEN Abort
             ELSE /\ microbios_disk_io_cmd(a)
                  /\ CmdAnswer(0, NoParams)
                  /\ NoteIo(IF a.direction = 1 THEN "write" ELSE "read", u, IoLba(a),
                            a.sectors, a.addr, TRUE)
                  /\ UNCHANGED <<host, num_mds, bda, e820blk, e820_entries, e820_tbl,
                                 a20_mode, vgasc, walk, flags>>

\* CHANGE_ISO_EJECT answers 0; PRINTS and DBG_PRINT only print, and leave
\* results as the ROM set it (microbios.c:300-306, 318-320).
CmdIsoEject ==
    /\ Running
    /\ CmdAnswer(0, NoParams)
    /\ NoDiskIo
    /\ UNCHANGED <<host, bda, e820blk, e820_entries, e820_tbl, a20_mode, vgasc, flags>>

CmdPrints ==
    /\ Running
    /\ CmdAnswer(MAGIC, NoParams)
    /\ NoDiskIo
    /\ UNCHANGED <<host, bda, e820blk, e820_entries, e820_tbl, a20_mode, vgasc, flags>>

\* vga_switchmode (vga.c:1323-1346): 03h and 12h set the size and the mode;
\* any other mode sets 320x200x8 and returns -1 without setting vga_mode.
vga_switchmode(mode) ==
    CASE mode = 3  -> [vga_mode |-> 3, gc_width |-> 640, gc_height |-> 400, gc_bpp |-> 4]
      [] mode = 18 -> [vga_mode |-> 18, gc_width |-> 640, gc_height |-> 480, gc_bpp |-> 4]
      [] OTHER     -> [vgasc EXCEPT !.gc_width = 320, !.gc_height = 200, !.gc_bpp = 8]

SwitchModeRet(mode) == IF mode \in {3, 18} THEN 0 ELSE -1

\* VIDEO (microbios.c:307-317): DISPLAY_PAGE sets bda->disp_page and leaves
\* results alone; VIDMODE answers vga_switchmode's result; other sub-commands
\* (WRITE_CHAR, SET_PALETTE, VESA) do nothing.
CmdVideo ==
    /\ Running
    /\ \/ \E page \in 0 .. 1 :
            /\ bda' = [bda EXCEPT !.disp_page = page]
            /\ CmdAnswer(MAGIC, NoParams)
            /\ UNCHANGED vgasc
       \/ \E mode \in VidModes :
            /\ vgasc' = vga_switchmode(mode)
            /\ CmdAnswer(SwitchModeRet(mode), NoParams)
            /\ UNCHANGED bda
       \/ /\ CmdAnswer(MAGIC, NoParams)
          /\ UNCHANGED <<bda, vgasc>>
    /\ NoDiskIo
    /\ UNCHANGED <<host, e820blk, e820_entries, e820_tbl, a20_mode, flags>>

\* POWER_OFF: exit(0) (microbios.c:321-323).
CmdPowerOff ==
    /\ Running
    /\ host' = "off"
    /\ NoDiskIo
    /\ UNCHANGED <<bda, e820blk, e820_entries, e820_tbl, a20_mode, vgasc, flags, reply>>

\* An unknown command returns 1 to microbios_io_handler, which ignores it;
\* results keeps the ROM's MAGIC (microbios.c:324-326).
CmdUnknown ==
    /\ Running
    /\ CmdAnswer(MAGIC, NoParams)
    /\ NoDiskIo
    /\ UNCHANGED <<host, bda, e820blk, e820_entries, e820_tbl, a20_mode, vgasc, flags>>

-----------------------------------------------------------------------------
(***************************************************************************)
(* The INT path (microbios_bios_inth_handler, microbios.c:365-419).  The   *)
(* ROM stub saves EAX, EDX and FLAGS in BIOS_VARS and OUTs a dword whose   *)
(* high word is the vector.  The host bumps bda->timer_counter, runs       *)
(* handle_int13/15, stores FLAGS back (CF is flags) and writes back the  *)
(* registers it SETREGs.  On an eflags_err path RAX is not written back,   *)
(* so the guest sees the OUT value: the vector over the input AX.          *)
(***************************************************************************)

\* The registers a guest loads before an INT; CF is carried over from the
\* previous trap, as bios_vars->flags is.
InRegs(eax, ebx, ecx, edx) ==
    [eax |-> eax, ebx |-> ebx, ecx |-> ecx, edx |-> edx, es |-> 0, cf |-> flags]

\* The end of a trap: the registers as the guest sees them, and the timer.
IntAnswer(out, mem) ==
    /\ reply' = [kind |-> "int", regs |-> out, mem |-> mem]
    /\ flags' = out.cf
    /\ bda' = [bda EXCEPT !.timer_counter = (@ + 1) % TIMER_WRAP]

IntDone(out) == IntAnswer(out, [kind |-> "none"])

\* An eflags_err exit: CF set, RAX not written back.
ErrRegs(vec, r) == [r EXCEPT !.eax = vec * 65536 + Word(r.eax), !.cf = 1]

\* A trap that touches neither the disks nor guest memory.
IntStep(out) ==
    /\ Running
    /\ IntDone(out)
    /\ NoDiskIo
    /\ UNCHANGED <<host, e820blk, e820_entries, e820_tbl, a20_mode, vgasc>>

\* A vector other than 13h and 15h (microbios.c:407-410).
IntUnknown ==
    \E vec \in {16, 26} : IntStep(ErrRegs(vec, InRegs(0, 0, 0, 128)))

\* INT 13h/00,01,04,05,0C,10,16,4B: AL cleared, CF clear (microbios.c:428-438).
Int13Nop ==
    \E ah \in {0, 1, 4, 5, 12, 16, 22, 75} :
        LET r == InRegs(ah * 256 + 1, 0, 0, 128) IN
        IntStep([r EXCEPT !.eax = SetAL(@, 0), !.cf = 0])

\* An INT 13h subfunction the host does not handle (microbios.c:651-655).
Int13Unknown ==
    \E ah \in {9, 71} : IntStep(ErrRegs(19, InRegs(ah * 256, 0, 0, 128)))

(***************************************************************************)
(* A disk transfer of INT 13h/02,03 or 42,43 on a unit that is present:    *)
(* the callback, then AH = 0 and CF clear, or eflags_err when it returns   *)
(* < 0.  speclba is the LBA the guest meant, for the ghost.                *)
(***************************************************************************)
Int13Transfer(r, u, do_write, lba, addr, n, speclba) ==
    IF CallbackAborts(u, n)
      THEN Abort
      ELSE /\ MdCallback(u, do_write, lba, addr, n)
           /\ IntDone(IF MdRet < 0 THEN ErrRegs(19, r)
                      ELSE [r EXCEPT !.eax = SetAH(@, 0), !.cf = 0])
           /\ NoteIo(IF do_write THEN "write" ELSE "read", u, speclba, n, addr, MdRet >= 0)
           /\ UNCHANGED <<host, num_mds, e820blk, e820_entries, e820_tbl, a20_mode,
                          vgasc, walk>>

\* INT 13h/02,03 (microbios.c:440-496): CHS from CX and DH, AL sectors to
\* ES:BX.  A drive below 80h fails; mddisks[DL & 7Fh] is used unchecked.
Int13Rw ==
    /\ Running
    /\ \E ah \in {2, 3}, al \in Counts, ch \in CHs, cl \in CLs, dh \in DHs,
          dl \in Drives, addr \in Bufs :
        LET r        == InRegs(ah * 256 + al, addr, ch * 256 + cl, dh * 256 + dl)
            u        == dl % 128
            head     == dh % 64
            cylinder == ch + (cl \div 64) * 256
            sector   == cl % 64
        IN  /\ BufFits(u, addr, al)
            /\ CASE dl < 128          -> /\ IntDone(ErrRegs(19, r))
                                         /\ NoDiskIo
                                         /\ UNCHANGED <<host, e820blk, e820_entries, e820_tbl,
                                                        a20_mode, vgasc>>
                 [] ~DiskPresent(u)   -> Abort
                 [] OTHER             ->
                      LET g == SpecChs(ch, cl, dh) IN
                      Int13Transfer(r, u, ah = 3, ChsLba(u, cylinder, head, sector), addr, al,
                                    SpecLba(u, g.c, g.h, g.s))

\* INT 13h/42,43 (microbios.c:498-557): the DAP gives blocks, a 64-bit LBA
\* and the buffer (segmented, or linear when struct_size is 24 and buf_addr
\* is FFFFFFFFh; both forms are abstracted to a granule address).  The DAP
\* itself lies below 1 MiB + 64 KiB, so paddr_guest2host never returns NULL.
Int13ExtRw ==
    /\ Running
    /\ \E ah \in {66, 67}, dl \in Drives, blocks \in Counts, lba \in Lbas, addr \in Bufs :
        LET r == InRegs(ah * 256, 0, 0, dl)
            u == dl % 128
        IN  /\ BufFits(u, addr, blocks)
            /\ IF dl < 128 \/ ~DiskPresent(u)
                 THEN /\ IntDone(ErrRegs(19, r))
                      /\ NoDiskIo
                      /\ UNCHANGED <<host, e820blk, e820_entries, e820_tbl, a20_mode,
                                     vgasc>>
                 ELSE Int13Transfer(r, u, ah = 67, lba, addr, blocks, lba)

\* The register result of INT 13h/08 (microbios.c:577-590): EAX & FFFF0000h,
\* DH = h - 1, DL = 1, CX = ((c - 1) << 6 & FFC0h) | s, BL cleared.
Params08Regs(r, g) ==
    [r EXCEPT !.eax = High(@),
              !.edx = ((g.h - 1) % 2 ^ 24) * 256 + 1,
              !.ecx = (((g.c - 1) * 64) % 65536) + (g.s % 64),
              !.ebx = @ - Lo8(@),
              !.cf  = 0]

\* INT 13h/08 and 48 (microbios.c:559-618).  A drive below 80h fails;
\* mddisks[DL & 7Fh] is used unchecked.  48 writes an EDD parameter record
\* when the caller's struct_size is at least 26; else AH is cleared and it
\* fails with RAX not written back.
Int13Params ==
    /\ Running
    /\ \E ah \in {8, 72}, dl \in Drives, size \in DapSizes :
        LET r == InRegs(ah * 256, 256 + 7, 0, dl)
            u == dl % 128
        IN  CASE dl < 128        -> IntStep(ErrRegs(19, r))
              [] ~DiskPresent(u) -> Abort
              [] ah = 8          ->
                   /\ IntDone(Params08Regs(r, DiskChs(u)))
                   /\ io' = [NoIo EXCEPT !.kind = "params", !.unit = u]
                   /\ UNCHANGED <<num_mds, mdisks, last, oob, gmem, ref, walk, host, e820blk,
                                  e820_entries, e820_tbl, a20_mode, vgasc>>
              [] size < 26       -> IntStep(ErrRegs(19, r))
              [] OTHER           ->
                   /\ IntAnswer([r EXCEPT !.eax = SetAH(@, 0), !.cf = 0],
                                 [kind |-> "edd", struct_size |-> 26, flags |-> 2,
                                  heads |-> DiskChs(u).h, cylinders |-> DiskChs(u).c,
                                  spt |-> DiskChs(u).s, sector_size |-> SectSz(u) * 512,
                                  sectors |-> DiskSectors(u)])
                   /\ NoDiskIo
                   /\ UNCHANGED <<host, e820blk, e820_entries, e820_tbl, a20_mode, vgasc>>

\* INT 13h/15 (microbios.c:620-640): a present fixed disk answers its
\* sector count in CX:DX and AL = 0; anything else AL = 3.  CF clear.
Int13Dasd ==
    \E dl \in Drives :
        LET r == InRegs(21 * 256 + 9, 0, 0, dl)
            u == dl % 128
        IN  IntStep(IF dl >= 128 /\ DiskPresent(u)
                      THEN [r EXCEPT !.ecx = (DiskSectors(u) \div 65536) % 65536,
                                     !.edx = DiskSectors(u) % 65536,
                                     !.eax = SetAL(@, 0), !.cf = 0]
                      ELSE [r EXCEPT !.eax = SetAL(@, 3), !.cf = 0])

\* INT 13h/41 (microbios.c:642-649): EDD 1.1, BX = AA55h, CX = 5.
Int13CheckExt ==
    LET r == InRegs(65 * 256, 21930, 0, 128) IN
    IntStep([r EXCEPT !.eax = High(@) + 8448, !.ebx = 43605, !.ecx = 5, !.cf = 0])

-----------------------------------------------------------------------------
(* INT 15h (handle_int15, microbios.c:668-857).                            *)

\* 00: AH = 86h, written back, then eflags_err with CF set (microbios.c:671-675).
Int15Sys00 ==
    LET r == InRegs(0, 0, 0, 0) IN IntStep([r EXCEPT !.eax = SetAH(@, 134), !.cf = 1])

\* Fault variant: a20_mode set to AL for every subfunction.
Int15A20Raw ==
    /\ Running
    /\ \E al \in 0 .. 4 :
        LET r == InRegs(36 * 256 + al, 258, 0, 0) IN
        /\ a20_mode' = al
        /\ IntDone([r EXCEPT !.cf = 0])
        /\ NoDiskIo
        /\ UNCHANGED <<host, e820blk, e820_entries, e820_tbl, vgasc>>

\* 24/00-03: A20 disable, enable, status and support; CF clear
\* (microbios.c:676-704).  Another AL changes nothing but CF.
Int15A20 ==
    /\ Running
    /\ \E al \in 0 .. 4 :
        LET r == InRegs(36 * 256 + al, 258, 0, 0) IN
        /\ a20_mode' = CASE al = 0 -> 0 [] al = 1 -> 1 [] OTHER -> a20_mode
        /\ IntDone(CASE al \in {0, 1} -> [r EXCEPT !.eax = SetAH(@, 0), !.cf = 0]
                     [] al = 2        -> [r EXCEPT !.eax = High(@) + a20_mode, !.cf = 0]
                     [] al = 3        -> [r EXCEPT !.eax = High(@), !.ebx = High(@) + 3,
                                                   !.cf = 0]
                     [] OTHER         -> [r EXCEPT !.cf = 0])
        /\ NoDiskIo
        /\ UNCHANGED <<host, e820blk, e820_entries, e820_tbl, vgasc>>

\* 41: CF set (microbios.c:705-707).  53/00: APM absent, AH = 86h; 53/04:
\* AL = 3; CF set for both.  Other 53 subfunctions change nothing
\* (microbios.c:708-721).
Int15Apm ==
    \/ LET r == InRegs(65 * 256, 0, 0, 0) IN IntStep([r EXCEPT !.cf = 1])
    \/ \E al \in {0, 4, 1} :
        LET r == InRegs(83 * 256 + al, 0, 0, 0) IN
        IntStep(CASE al = 0 -> [r EXCEPT !.eax = SetAH(@, 134), !.cf = 1]
                  [] al = 4 -> [r EXCEPT !.eax = High(@) + 3, !.cf = 1]
                  [] OTHER  -> r)

\* 87: copy CX bytes between the GDT's source and destination entries
\* (microbios.c:722-742).  Addresses are granules of the modelled RAM and
\* CX is 0 or one granule.  AH = 0, CF clear.
Int15Move ==
    /\ Running
    /\ \E src \in Bufs, dst \in Bufs, cx \in {0, 1} :
        LET r == InRegs(135 * 256, 0, cx * 512, 0) IN
        /\ gmem' = IF cx = 0 THEN gmem ELSE [gmem EXCEPT ![dst] = gmem[src]]
        /\ IntDone([r EXCEPT !.eax = SetAH(@, 0), !.cf = 0])
        /\ io' = NoIo
        /\ UNCHANGED <<num_mds, mdisks, last, oob, ref, walk, host, e820blk, e820_entries,
                       e820_tbl, a20_mode, vgasc>>

\* 88: EAX = 8192, CF clear (microbios.c:743-751).  8A: EAX = the low 16
\* bits of lowmem - 1 MiB in bytes, CF set; the EDX it computes is never
\* written back (microbios.c:752-760).  C0: AL kept, ES:BX = F000h:the ROM's
\* configuration table (microbios.c:761-773).
Int15Mem ==
    \/ LET r == InRegs(136 * 256, 0, 0, 0) IN IntStep([r EXCEPT !.eax = 8192, !.cf = 0])
    \/ LET r == InRegs(138 * 256, 0, 0, 0) IN
       IntStep([r EXCEPT !.eax = (LOWMEM - 1048576) % 65536, !.cf = 1])
    \/ LET r == InRegs(192 * 256 + 5, 0, 0, 0) IN
       IntStep([r EXCEPT !.eax = Lo8(@), !.es = 61440, !.ebx = CFG_TBL, !.cf = 0])

\* E8/01 (microbios.c:780-791): AX = CX = 3C00h, BX = DX = the low 16 bits
\* of (memsize - 16) * 1024 / 64, computed in uint32.
Int15E801 ==
    LET r  == InRegs(232 * 256 + 1, 65536, 65536, 65536)
        bx == (((LOWMEM - 16) % 2 ^ 22) * 16) % 65536
    IN  IntStep([r EXCEPT !.eax = 15360, !.ecx = High(@) + 15360, !.ebx = High(@) + bx,
                          !.edx = High(@) + bx, !.cf = 0])

(***************************************************************************)
(* E8/20 (microbios.c:792-825): with AL = 20h, EDX = "SMAP", CX >= 20 and  *)
(* BX < e820_entries, copy e820_tbl entry BX to ES:DI and answer EAX =     *)
(* "SMAP", EBX = (BX + 1) % e820_entries, ECX = 20, EDX = 0; otherwise AX  *)
(* = 0 and CF set.  The ghost walk follows a guest that starts at 0 and    *)
(* passes back each EBX it gets; any other call ends the walk.             *)
(***************************************************************************)
\* The continuation handed back in EBX (microbios.c:816), and a fault
\* variant without the wrap to 0 after the last entry.
E820ContNoWrap(cont) == cont + 1

E820Cont(cont) == (cont + 1) % e820_entries

WalkStep(cont, e, next) ==
    CASE cont = 0                                   -> [entries |-> <<e>>, next |-> next]
      [] walk.entries # <<>> /\ cont = walk.next    -> [entries |-> Append(walk.entries, e),
                                                        next |-> next]
      [] OTHER                                      -> [entries |-> <<>>, next |-> 0]

Int15E820 ==
    /\ Running
    /\ \E edx \in {SMAP, 0}, cx \in {20, 16}, cont \in Conts :
        LET r  == InRegs(232 * 256 + 32, cont, cx, edx)
            ok == edx = SMAP /\ cx >= 20 /\ cont < e820_entries
        IN  IF ok
              THEN LET next == E820Cont(cont) IN
                   /\ IntAnswer([r EXCEPT !.eax = SMAP, !.ebx = next, !.ecx = 20, !.edx = 0,
                                          !.cf = 0],
                                 [kind |-> "e820", entry |-> e820_tbl[cont + 1]])
                   /\ walk' = WalkStep(cont, e820_tbl[cont + 1], next)
              ELSE /\ IntDone([r EXCEPT !.eax = High(@), !.cf = 1])
                   /\ walk' = [entries |-> <<>>, next |-> 0]
    /\ io' = NoIo
    /\ UNCHANGED <<num_mds, mdisks, last, oob, gmem, ref, host, e820blk, e820_entries,
                   e820_tbl, a20_mode, vgasc>>

\* EC: CF clear iff AL = 0 and BL <= 3; AH = 0 (microbios.c:826-834).
\* 86: sleep; AL = 0, CF clear (microbios.c:835-849).  Others: CF set.
Int15Misc ==
    \/ \E al \in {0, 1}, bl \in {2, 4} :
        LET r == InRegs(236 * 256 + al, bl, 0, 0) IN
        IntStep([r EXCEPT !.eax = SetAH(@, 0), !.cf = IF al = 0 /\ bl <= 3 THEN 0 ELSE 1])
    \/ LET r == InRegs(134 * 256 + 1, 0, 0, 100) IN
       IntStep([r EXCEPT !.eax = SetAL(@, 0), !.cf = 0])
    \/ \E ah \in {144, 192 + 1} :
        LET r == InRegs(ah * 256, 0, 0, 0) IN IntStep([r EXCEPT !.cf = 1])

-----------------------------------------------------------------------------
Next ==
    \/ CmdSetup \/ CmdDiskParams \/ CmdDiskIo \/ CmdIsoEject \/ CmdPrints
    \/ CmdVideo \/ CmdPowerOff \/ CmdUnknown
    \/ IntUnknown \/ Int13Nop \/ Int13Unknown \/ Int13Rw \/ Int13ExtRw
    \/ Int13Params \/ Int13Dasd \/ Int13CheckExt
    \/ Int15Sys00 \/ Int15A20 \/ Int15Apm \/ Int15Move \/ Int15Mem \/ Int15E801
    \/ Int15E820 \/ Int15Misc

Spec == Init /\ [][Next]_vars

\* The state a trap's future depends on: last, reply and io are the answer
\* of the step that set them and are read by no action.
PersistentView ==
    <<num_mds, mdisks, oob, host, bda, e820blk, e820_entries, e820_tbl, a20_mode,
      flags, gmem, vgasc, ref, walk>>

-----------------------------------------------------------------------------
(***************************************************************************)
(* A guest that walks E820 from EBX = 0, passing back each EBX it gets,    *)
(* receives the spec's four entries in order, and EBX = 0 comes back       *)
(* exactly with the last one (spec 4.6, 4.7, item 6, S3).  This relates    *)
(* SETUP's table, its private copy and the continuation arithmetic across  *)
(* several traps.                                                          *)
(***************************************************************************)
E820WalkExact ==
    walk.entries # <<>> =>
        /\ walk.entries = SubSeq(SpecE820, 1, Len(walk.entries))
        /\ (walk.next = 0) = (Len(walk.entries) = Len(SpecE820))

(***************************************************************************)
(* A read that INT 13h or DISK_IO reports done put into guest RAM exactly  *)
(* what the guest last wrote at that LBA (or the image's data), whether    *)
(* the guest addressed it by CHS, by EDD LBA or by a DISK_IO command, and  *)
(* on raw and ISO disks alike: the CHS decode, the CHS-to-LBA arithmetic,  *)
(* the lba * sectsize conversion and md_rw's copy must all agree.  It is   *)
(* checked on every step, as the request is transient state.               *)
(***************************************************************************)
ReadDelivered ==
    io.kind = "read" /\ io.ok =>
        /\ DiskPresent(io.unit)
        /\ \A k \in 0 .. io.n * SectSz(io.unit) - 1 :
              LET g == io.lba * SectSz(io.unit) + k IN
              /\ g \in DOMAIN ref[io.unit]
              /\ gmem[io.addr + k] = ref[io.unit][g]

DiskDataIntegrity == [][ReadDelivered']_vars

DriveParamsRoundTrip ==
    io.kind = "params" =>
        SpecChs(Hi8(reply.regs.ecx), Lo8(reply.regs.ecx), Hi8(reply.regs.edx)) =
            [c |-> DiskChs(io.unit).c - 1, h |-> DiskChs(io.unit).h - 1,
             s |-> DiskChs(io.unit).s]

=============================================================================
