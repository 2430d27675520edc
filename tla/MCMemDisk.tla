----------------------------- MODULE MCMemDisk -----------------------------
(***************************************************************************)
(* Model-checking harness for MemDisk: image files of a few granules, one  *)
(* written value, and the geometry sizes at every boundary of md_chs.      *)
(***************************************************************************)
EXTENDS MemDisk

CONSTANTS a, OrigData, GarbageData

\* A 3-sector raw image, and an ISO of one 2048-byte sector plus one more
\* granule and a partial tail: md_rw accepts a 4-granule access at offset 1.
MCImages ==
    { [gran |-> 3, tail |-> 0, iso |-> FALSE],
      [gran |-> 5, tail |-> 1, iso |-> TRUE] }

MCVals == {a}

\* Sizes, in granules, at the boundaries of md_chs: the floppy limit
\* 2880*512 bytes (with and without a partial tail), one sector, the
\* 16/32-head switch at 65536*16*63 sectors, the point 65536*32*63 where the
\* cylinder count reaches 2^16, and the clamp at 65535*16*255.
GeomGrans ==
    {1, 17, 18, 36, 2879, 2880, 2881, 1008, 1009, 65535 * 16 * 63,
     65536 * 16 * 63 - 1, 65536 * 16 * 63, 65536 * 32 * 63 - 1,
     65536 * 32 * 63, 65536 * 32 * 63 + 2016, 65535 * 16 * 255,
     65535 * 16 * 255 + 1, 4 * 65535 * 16 * 255}

\* (bufsize, tail, sectsize) of every boundary size, raw and ISO.
GeomDisks ==
    {<<g, t, IF i THEN 4 ELSE 1>> : g \in GeomGrans, t \in {0, 1}, i \in BOOLEAN}

(***************************************************************************)
(* md_chs never describes more sectors than the disk has: a guest that     *)
(* addresses every (c, h, s) that INT 13h/08 and 48 report stays on the    *)
(* disk.  Checked for every disk created so far and for every boundary     *)
(* size above, raw and ISO.                                                *)
(***************************************************************************)
ChsWithinDisk ==
    \A d \in GeomDisks \cup {<<mdisks[u].bufsize, mdisks[u].tail, mdisks[u].sectsize>> :
                                u \in 0 .. num_mds - 1} :
        LET g == MdChsOf(d[1], d[2], d[3])
        IN  g.c * g.h * g.s <= d[1] \div d[3]

Abs == INSTANCE AbsDisk
         WITH Orig <- Orig, Images <- Images, Vals <- Vals, Offsets <- Offsets,
              MaxSectors <- MaxSectors,
              disks <- [u \in 0 .. num_mds - 1 |->
                          [length |-> mdisks[u].bufsize, ssz |-> mdisks[u].sectsize,
                           data |-> mdisks[u].buf]],
              reply <- [op |-> last.op, unit |-> last.unit, off |-> last.off, len |-> last.len,
                        ok |-> last.ret >= 0, data |-> last.data]

(***************************************************************************)
(* md_create, md_read and md_write implement the store's contract (spec    *)
(* 4.1): a unit is the whole image, a read returns what the last write put *)
(* there, and md_rw refuses exactly the requests that pass the disk's end. *)
(***************************************************************************)
AbsDiskRefined == Abs!ASpec

=============================================================================
