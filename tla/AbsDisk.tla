------------------------------ MODULE AbsDisk ------------------------------
(***************************************************************************)
(* What the memory-disk store promises (spec section 4.1): a table of      *)
(* disks, each an array of data with a length and a sector size.  A read   *)
(* or write of len units at offset o succeeds exactly when o + len does    *)
(* not pass the end of the disk; a read returns the data last written      *)
(* there (or the image's own data); a failed request changes nothing.      *)
(* create either appends the image, whole, as the next unit, or fails and  *)
(* changes nothing.  Lengths and offsets are in units of 512 bytes.        *)
(***************************************************************************)
EXTENDS Integers, FiniteSets

CONSTANTS
    Images,      \* image files: [gran: size in 512-byte units, tail, iso]
    Vals,        \* values a caller writes
    Orig,        \* the image file's own data
    Offsets,     \* offsets a caller passes, in 512-byte units
    MaxSectors   \* largest transfer, in sectors

VARIABLES
    disks,       \* unit -> [length, ssz, data]
    reply        \* the last request and its answer: [op, unit, off, len, ok, data]

avars == <<disks, reply>>

\* The sector size of an image: 2048 bytes for an ISO, else 512.
ImageSectSize(img) == IF img.iso THEN 4 ELSE 1

\* The disk an image file becomes when it is read whole.
DiskOf(img) ==
    [length |-> img.gran, ssz |-> ImageSectSize(img),
     data |-> [g \in 0 .. img.gran - 1 |-> Orig]]

Reply(op, u, o, n, ok, data) ==
    [op |-> op, unit |-> u, off |-> o, len |-> n, ok |-> ok, data |-> data]

AInit ==
    /\ disks = [u \in {} |-> Orig]
    /\ reply = Reply("none", 0, 0, 0, TRUE, <<>>)

\* The table with one more unit at its end.
Extend(d) == [u \in 0 .. Cardinality(DOMAIN disks) |->
                 IF u \in DOMAIN disks THEN disks[u] ELSE d]

ACreate ==
    \E img \in Images :
        \/ /\ disks' = Extend(DiskOf(img))
           /\ reply' = Reply("create", 0, 0, 0, TRUE, <<>>)
        \/ /\ reply' = Reply("create", 0, 0, 0, FALSE, <<>>)
           /\ UNCHANGED disks

\* The transfer lengths allowed on unit u: whole sectors, at least one.
Lens(u) == {k * disks[u].ssz : k \in 1 .. MaxSectors}

AFits(u, o, n) == o + n <= disks[u].length

ARead ==
    \E u \in DOMAIN disks, o \in Offsets :
      \E n \in Lens(u) :
        /\ reply' = IF AFits(u, o, n)
                      THEN Reply("read", u, o, n, TRUE, [i \in 0 .. n - 1 |-> disks[u].data[o + i]])
                      ELSE Reply("read", u, o, n, FALSE, <<>>)
        /\ UNCHANGED disks

AWrite ==
    \E u \in DOMAIN disks, o \in Offsets :
      \E n \in Lens(u) :
        \E src \in [0 .. n - 1 -> Vals] :
          IF AFits(u, o, n)
            THEN /\ disks' = [disks EXCEPT ![u].data =
                                [g \in DOMAIN @ |->
                                    IF o <= g /\ g < o + n THEN src[g - o] ELSE @[g]]]
                 /\ reply' = Reply("write", u, o, n, TRUE, <<>>)
            ELSE /\ reply' = Reply("write", u, o, n, FALSE, <<>>)
                 /\ UNCHANGED disks

ANext == ACreate \/ ARead \/ AWrite

ASpec == AInit /\ [][ANext]_avars

=============================================================================
