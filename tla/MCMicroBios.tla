---------------------------- MODULE MCMicroBios ----------------------------
(***************************************************************************)
(* Model-checking harness for MicroBios.  Disk sizes are in granules of    *)
(* 512 bytes; a raw disk and an ISO of one 2048-byte sector are launched.  *)
(***************************************************************************)
EXTENDS MicroBios

CONSTANTS GOrig, GGarbage, GData

\* Unit 0: a 2-sector raw disk; unit 1: an ISO of one sector.
MCDisks == << [gran |-> 2, tail |-> 0, iso |-> FALSE],
              [gran |-> 4, tail |-> 0, iso |-> TRUE] >>

\* A guest writes what its RAM holds.
MCVals == {GData}

\* The request bhyve_load_bootsect (microboot.c:113-131) sends: sector 0
\* of disk 80h to 7C00h, by LBA, read; and its write counterpart.
MCDiskIoArgs ==
    {[disk |-> 128, direction |-> d, lba |-> 0, cylinder |-> 0, head |-> 0,
      sector |-> 0, sectors |-> 1, addr |-> 0] : d \in {0, 1}}

\* One floppy-geometry disk of 72 granules: 2 cylinders of 2 heads x 18.
MCParamsDisks == << [gran |-> 72, tail |-> 0, iso |-> FALSE] >>

\* A DISK_IO read of sector 0 of an empty image: md_rw refuses it.
MCEmptyDisks == << [gran |-> 0, tail |-> 0, iso |-> FALSE] >>

MCReadArgs ==
    {[disk |-> 128, direction |-> 0, lba |-> 0, cylinder |-> 0, head |-> 0,
      sector |-> 0, sectors |-> 1, addr |-> 0]}

=============================================================================
