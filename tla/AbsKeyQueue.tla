---------------------------- MODULE AbsKeyQueue ----------------------------
(***************************************************************************)
(* What the BIOS keyboard buffer promises a DOS program: the keys typed    *)
(* are queued in order, a key typed while the queue is full is dropped,    *)
(* and INT 16h/00 and /10 hand the guest the oldest queued key and remove  *)
(* it.  Only the keys the guest takes are observable here (taken).         *)
(***************************************************************************)
EXTENDS Integers, Sequences

CONSTANTS
    Keys,   \* key words (scan code << 8 | ASCII)
    Cap     \* how many keys the buffer holds

VARIABLES
    queue,  \* keys typed and not yet taken, oldest first
    taken   \* keys INT 16h has handed to the guest, in order

qvars == <<queue, taken>>

QInit ==
    /\ queue = <<>>
    /\ taken = <<>>

\* A key reaches the buffer; when the buffer is full it is dropped.
QPress(k) ==
    /\ queue' = IF Len(queue) < Cap THEN Append(queue, k) ELSE queue
    /\ UNCHANGED taken

QTake ==
    /\ queue # <<>>
    /\ taken' = Append(taken, Head(queue))
    /\ queue' = Tail(queue)

QNext == (\E k \in Keys : QPress(k)) \/ QTake

QSpec == QInit /\ [][QNext]_qvars

=============================================================================
