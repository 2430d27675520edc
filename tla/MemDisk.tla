------------------------------ MODULE MemDisk ------------------------------
(***************************************************************************)
(* The memory-disk store of src/bios/bhyve/memdisk.c.                      *)
(*                                                                         *)
(* Data is abstracted to units of 512 bytes ("granules"): a disk buffer is *)
(* a function from granule index to a value, a 2048-byte ISO sector is 4   *)
(* granules.  The launcher turns an LBA into offset = lba * sectsize, so   *)
(* every offset md_rw sees is a whole number of granules.  A buffer may    *)
(* end in a partial granule ("tail", 0 or 1): it is never addressable by   *)
(* md_rw, but it decides the floppy case of md_chs.                        *)
(*                                                                         *)
(* md_rw's offset and length are uint64: offset + len wraps modulo 2^64    *)
(* bytes, i.e. 2^55 granules.  The model wraps at 2^UWidth granules; the   *)
(* wrap of the bounds check does not depend on the width.                  *)
(***************************************************************************)
EXTENDS Integers

CONSTANTS
    MAX_MDISKS,      \* size of the static table mdisks[] (memdisk.c:58)
    Images,          \* image files: [gran, tail, iso]
    CreateOutcomes,  \* what open/fstat/read do: "ok", "open", "fstat", "read", "short"
    Vals,            \* values a caller writes
    Orig,            \* the image file's own data
    Garbage,         \* bytes malloc'ed but never read into, or past a buffer
    Offsets,         \* granule offsets passed to md_read / md_write
    MaxSectors,      \* largest transfer, in sectors
    MaxCreates,      \* bound on the disks the launcher creates
    UWidth           \* width of a uint64 byte offset, counted in granules

ASSUME MaxCreates \in 1 .. MAX_MDISKS

VARIABLES
    num_mds,   \* memdisk.c:60
    mdisks,    \* memdisk.c:59: slot -> [bufsize, tail, sectsize, buf]
    last,      \* the last call and what it returned: [op, unit, off, len, ret, data]
    oob        \* some memcpy of md_rw touched bytes outside its buffer

vars == <<num_mds, mdisks, last, oob>>

Wrap == 2 ^ UWidth

Slots == 0 .. MAX_MDISKS - 1

\* A slot of the zero-initialised static table.
NoDisk == [bufsize |-> 0, tail |-> 0, sectsize |-> 0, buf |-> [g \in {} |-> Orig]]

\* strstr(src_img, ".iso") != NULL ? 2048 : 512 (memdisk.c:107-108).
SectSizeOf(img) == IF img.iso THEN 4 ELSE 1

\* A disk slot: sizes in granules, and the buffer's data.
IsDiskData(d) ==
    /\ d.bufsize \in Nat
    /\ d.tail \in {0, 1}
    /\ d.sectsize \in {0, 1, 4}
    /\ DOMAIN d.buf = 0 .. d.bufsize - 1
    /\ \A g \in DOMAIN d.buf : d.buf[g] \in Vals \cup {Orig, Garbage}

TypeOK ==
    /\ num_mds \in 0 .. MAX_MDISKS
    /\ DOMAIN mdisks = Slots
    /\ \A s \in Slots : IsDiskData(mdisks[s])
    /\ last.op \in {"none", "create", "read", "write"}
    /\ last.ret \in Int
    /\ oob \in BOOLEAN

Init ==
    /\ num_mds = 0
    /\ mdisks = [s \in Slots |-> NoDisk]
    /\ last = [op |-> "none", unit |-> 0, off |-> 0, len |-> 0, ret |-> 0, data |-> <<>>]
    /\ oob = FALSE

(***************************************************************************)
(* md_create (memdisk.c:68-114).  open() failing returns the fd (-1);      *)
(* fstat() failing returns -1 and leaks the fd; a read() error frees the   *)
(* buffer and returns -1; read() returning 0 early ("short") ends the loop *)
(* and keeps the disk, with the unread tail left as malloc'ed garbage.     *)
(* Nothing checks num_mds against MAX_MDISKS; MaxCreates <= MAX_MDISKS     *)
(* keeps the model inside the table.                                       *)
(***************************************************************************)
\* Fault variant: a buffer allocated one granule longer than the image.
RegisteredOversized(img, nread) ==
    [bufsize |-> img.gran, tail |-> img.tail, sectsize |-> SectSizeOf(img),
     buf |-> [g \in 0 .. img.gran |-> IF g < nread THEN Orig ELSE Garbage]]

Registered(img, nread) ==
    [bufsize |-> img.gran, tail |-> img.tail, sectsize |-> SectSizeOf(img),
     buf |-> [g \in 0 .. img.gran - 1 |-> IF g < nread THEN Orig ELSE Garbage]]

CreateReply(ret) == [op |-> "create", unit |-> 0, off |-> 0, len |-> 0, ret |-> ret, data |-> <<>>]

md_create ==
    /\ num_mds < MaxCreates
    /\ \E img \in Images, outcome \in CreateOutcomes :
        CASE outcome \in {"open", "fstat", "read"} ->
               /\ last' = CreateReply(-1)
               /\ UNCHANGED <<num_mds, mdisks>>
          [] outcome = "ok" ->
               /\ mdisks' = [mdisks EXCEPT ![num_mds] = Registered(img, img.gran)]
               /\ num_mds' = num_mds + 1
               /\ last' = CreateReply(num_mds)
          [] outcome = "short" ->
               \E nread \in 0 .. img.gran - 1 :
                  /\ mdisks' = [mdisks EXCEPT ![num_mds] = Registered(img, nread)]
                  /\ num_mds' = num_mds + 1
                  /\ last' = CreateReply(num_mds)
    /\ UNCHANGED oob

(***************************************************************************)
(* md_chs (memdisk.c:116-158), pure.  A buffer of at most 2880*512 bytes   *)
(* is a floppy (18 sectors, 2 heads); a larger one has 63 sectors and 16   *)
(* or 32 heads, with the sector count first clamped to 65535*16*255.  The  *)
(* cylinder count is stored through a uint16_t *.                         *)
(***************************************************************************)
\* Fault variant: the cylinder count not divided by the head count.
MdChsOfNoHeads(bufsize, tail, sectsize) ==
    LET sects0 == bufsize \div sectsize
        floppy == bufsize < 2880 \/ (bufsize = 2880 /\ tail = 0)
        sects  == IF sects0 > 65535 * 16 * 255 THEN 65535 * 16 * 255 ELSE sects0
        heads  == IF floppy THEN 2 ELSE IF sects >= 65536 * 16 * 63 THEN 32 ELSE 16
        hcyl   == IF floppy THEN sects0 \div 18 ELSE sects \div 63
    IN  [c |-> hcyl % 2 ^ 16, h |-> heads, s |-> IF floppy THEN 18 ELSE 63]

MdChsOf(bufsize, tail, sectsize) ==
    LET sects0 == bufsize \div sectsize
        floppy == bufsize < 2880 \/ (bufsize = 2880 /\ tail = 0)
        sects  == IF sects0 > 65535 * 16 * 255 THEN 65535 * 16 * 255 ELSE sects0
        big    == sects >= 65536 * 16 * 63
        secpt  == IF floppy THEN 18 ELSE 63
        heads  == IF floppy THEN 2 ELSE IF big THEN 32 ELSE 16
        hcyl   == IF floppy THEN sects0 \div 18 ELSE sects \div 63
    IN  [c |-> (hcyl \div heads) % 2 ^ 16, h |-> heads, s |-> secpt]

md_chs(u) == MdChsOf(mdisks[u].bufsize, mdisks[u].tail, mdisks[u].sectsize)

\* md_sectors (memdisk.c:167-173).
md_sectors(u) == mdisks[u].bufsize \div mdisks[u].sectsize

\* The assert()s of md_rw (memdisk.c:188-194): a caller breaking one aborts the host.
MdRwAsserts(u, len) ==
    /\ u \in 0 .. num_mds - 1
    /\ len > 0
    /\ len % mdisks[u].sectsize = 0

(***************************************************************************)
(* md_rw (memdisk.c:183-206): refuse when (offset + len), computed in      *)
(* uint64, passes bufsize; else memcpy len granules at offset.  Granules   *)
(* the copy reaches outside the buffer read as Garbage and set oob.        *)
(***************************************************************************)
\* Fault variants of the bounds check: one granule too lenient, or
\* refusing a request that ends exactly at the end of the buffer.
MdRwFitsOffByOne(md, off, len) == (off + len) % Wrap <= md.bufsize + 1

MdRwFitsStrict(md, off, len) == (off + len) % Wrap < md.bufsize

MdRwFits(md, off, len) == (off + len) % Wrap <= md.bufsize

MdRwSpan(off, len) == {off + i : i \in 0 .. len - 1}

md_rw(u, do_write, off, src, len) ==
    LET md == mdisks[u] IN
    IF ~MdRwFits(md, off, len)
      THEN /\ last' = [op |-> IF do_write THEN "write" ELSE "read", unit |-> u, off |-> off,
                        len |-> len, ret |-> -1, data |-> <<>>]
           /\ UNCHANGED <<mdisks, oob>>
      ELSE /\ oob' = (oob \/ ~(MdRwSpan(off, len) \subseteq DOMAIN md.buf))
           /\ IF do_write
                THEN /\ mdisks' = [mdisks EXCEPT ![u].buf =
                                     [g \in DOMAIN @ |->
                                        IF g \in MdRwSpan(off, len) THEN src[g - off] ELSE @[g]]]
                     /\ last' = [op |-> "write", unit |-> u, off |-> off, len |-> len, ret |-> 0,
                                 data |-> <<>>]
                ELSE /\ last' = [op |-> "read", unit |-> u, off |-> off, len |-> len, ret |-> 0,
                                 data |-> [i \in 0 .. len - 1 |->
                                            IF off + i \in DOMAIN md.buf
                                              THEN md.buf[off + i] ELSE Garbage]]
                     /\ UNCHANGED mdisks

\* The lengths a caller may pass for unit u without tripping an assert.
Lens(u) == {k * mdisks[u].sectsize : k \in 1 .. MaxSectors}

\* md_write (memdisk.c:208-212).
md_write ==
    \E u \in 0 .. num_mds - 1, off \in Offsets :
      \E len \in Lens(u) :
        \E src \in [0 .. len - 1 -> Vals] :
          /\ md_rw(u, TRUE, off, src, len)
          /\ UNCHANGED num_mds

\* md_read (memdisk.c:214-218).
md_read ==
    \E u \in 0 .. num_mds - 1, off \in Offsets :
      \E len \in Lens(u) :
        /\ md_rw(u, FALSE, off, <<>>, len)
        /\ UNCHANGED num_mds

(***************************************************************************)
(* Every copy md_rw accepts stays inside the disk's buffer: the uint64     *)
(* bounds check at memdisk.c:196 keeps a caller's offset from reaching     *)
(* host memory past the image.                                             *)
(***************************************************************************)
MdAccessInBounds == ~oob

Next == md_create \/ md_write \/ md_read

Spec == Init /\ [][Next]_vars

=============================================================================
