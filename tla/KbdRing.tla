------------------------------ MODULE KbdRing ------------------------------
(***************************************************************************)
(* The ROM's keyboard buffer (src/bios/microboot/microboot.c): the key     *)
(* ring in the BDA, filled by the keyboard interrupt (handle_int09 ->      *)
(* process_scancode) and emptied by INT 16h (handle_int16).                *)
(*                                                                         *)
(* head, tail, start and end are byte offsets into the BDA; a slot is one  *)
(* 16-bit word.  The producer wraps tail when tail + 2 = end, so the ring  *)
(* is the words start .. end-2; the word at end (floppy_data) is not part  *)
(* of it.  INT 16h runs with interrupts disabled (the INT instruction      *)
(* clears IF) except where it executes sti: /00 waits with IF = 1 and then *)
(* reads and advances with IF = 0; /10 waits, reads, adds 2 to head and    *)
(* wraps it with IF = 1, so the keyboard interrupt can run between any two *)
(* of those steps.  A keyboard interrupt runs whole: the CPU enters it     *)
(* with IF = 0.                                                            *)
(***************************************************************************)
EXTENDS Integers, Sequences, FiniteSets, FiniteSetsExt, Functions, TLC

CONSTANTS
    START, END,    \* bda->key_buffer_start, key_buffer_end (set by ROM init)
    Scancodes,     \* bytes the keyboard controller may deliver on port 0x60
    MaxScans,      \* bound on the scancodes typed
    T1Rows,        \* rows of key_1byte_entries: scancode -> <<normal, shift, control, alt>>
    T2Rows,        \* rows of key_2byte_entries
    OobKeys,       \* words a read past the end of a table may produce
    Empty,         \* the ring's words before any key was stored
    FloppyWord,    \* bda->floppy_data, the word at key_buffer_end
    NoScan,        \* no scancode pending in the controller
    STS2           \* bda->keyboard_status2 (nothing in the ROM writes it)

T1Len == 89        \* key_1byte_entries[] has entries 0 .. 0x58
T2Len == 84        \* key_2byte_entries[] has entries 0 .. 0x53
NOKEY == 65535     \* 0xffff: no key for this scancode and shift state

ASSUME /\ START < END /\ (END - START) % 2 = 0
       /\ \A sc \in Scancodes \ {224, 225} :
            sc % 128 < T1Len => sc % 128 \in DOMAIN T1Rows
       /\ \A sc \in Scancodes \ {224, 225} :
            sc % 128 < T2Len => sc % 128 \in DOMAIN T2Rows

VARIABLES
    head, tail,    \* bda->key_buffer_head, key_buffer_tail
    mem,           \* the BDA words start .. end: offset -> word
    status1,       \* bda->keyboard_status1, as its set of bits
    e0, e1,        \* keyboard_status3: last scancode was E0 / E1
    irq,           \* the scancode latched in the controller, or NoScan
    scans,         \* scancodes typed so far
    cpc,           \* where the guest's INT 16h is: idle, wait, add, wrap
    sub,           \* the INT 16h function in progress (0 or 16)
    ax, zf,        \* regs->_eax.ax and regs->flags.ZF as INT 16h returns them
    taken,         \* history: keys INT 16h/00 and /10 have handed the guest
    held, pe0      \* history: modifier make codes not yet released, and
                   \* whether the previous scancode was E0

vars == <<head, tail, mem, status1, e0, e1, irq, scans, cpc, sub, ax, zf, taken, held, pe0>>

Words == {START + 2 * i : i \in 0 .. (END - START) \div 2}
RingSlots == Words \ {END}

\* new_tail = tail + 2; if (new_tail == key_buffer_end) new_tail = start (612-614).
PNext(t) == IF t + 2 = END THEN START ELSE t + 2

\* if (head > key_buffer_end) head = key_buffer_start (1213-1214, 1231-1232).
CWrapLate(h) == IF h > END + 2 THEN START ELSE h

CWrap(h) == IF h > END THEN START ELSE h

\* The bit of keyboard_status1 a scancode's low 7 bits stand for (547-573).
ScanBit(c) ==
    CASE c = 82 -> 128 [] c = 58 -> 64 [] c = 69 -> 32 [] c = 70 -> 16
      [] c = 56 -> 8   [] c = 29 -> 4  [] c = 42 -> 2  [] c = 54 -> 1
      [] OTHER  -> 0

\* The column of a key_entry that the shift state selects (591-599).
Column(s1) ==
    IF 8 \in s1 THEN 4
    ELSE IF 4 \in s1 THEN 3
    ELSE IF s1 \cap {1, 2} # {} THEN 2
    ELSE 1

\* key_entries[scancode] for the table status3's E0 bit selects; an index
\* past the table's end reads whatever follows it in the ROM.
KeysFor(pre, sc, col) ==
    LET len  == IF pre THEN T2Len ELSE T1Len
        rows == IF pre THEN T2Rows ELSE T1Rows
    IN  IF sc < len THEN {rows[sc][col]} ELSE OobKeys

\* *status3 &= ~(E0 | E1) at done (623).
DoneKeepE0 == e0' = e0 /\ e1' = FALSE

Done == e0' = FALSE /\ e1' = FALSE

(***************************************************************************)
(* process_scancode (microboot.c:528-624): prefixes set a status3 bit;     *)
(* a modifier sets or clears its status1 bit; a release ends there; a make *)
(* is translated and stored at tail unless it has no key or the ring is    *)
(* full (new_tail == head).                                                *)
(***************************************************************************)
process_scancode(sc) ==
    LET bit == ScanBit(sc % 128) IN
    CASE sc = 224 -> e0' = TRUE /\ UNCHANGED <<e1, status1, mem, tail>>
      [] sc = 225 -> e1' = TRUE /\ UNCHANGED <<e0, status1, mem, tail>>
      [] sc >= 128 ->
           /\ status1' = IF bit # 0 THEN status1 \ {bit} ELSE status1
           /\ Done
           /\ UNCHANGED <<mem, tail>>
      [] OTHER ->
           /\ status1' = IF bit # 0 THEN status1 \cup {bit} ELSE status1
           /\ \E key \in KeysFor(e0, sc, Column(status1')) :
                IF key = NOKEY \/ PNext(tail) = head
                  THEN UNCHANGED <<mem, tail>>
                  ELSE /\ mem' = [mem EXCEPT ![tail] = key]
                       /\ tail' = PNext(tail)
           /\ Done

\* The modifiers a make code holds down until its release (history).
ModScans == {82, 58, 69, 70, 56, 29, 42, 54}

HeldAfter(h, sc) ==
    IF sc \in ModScans THEN h \cup {sc}
    ELSE IF sc >= 128 /\ sc - 128 \in ModScans THEN h \ {sc - 128}
    ELSE h

\* The keyboard controller latches a scancode and raises IRQ 1.
KeyType ==
    /\ irq = NoScan
    /\ scans < MaxScans
    /\ \E sc \in Scancodes : irq' = sc
    /\ scans' = scans + 1
    /\ UNCHANGED <<head, tail, mem, status1, e0, e1, cpc, sub, ax, zf, taken, held, pe0>>

\* IF as the guest runs: INT 16h/00 executes sti only around its wait loop.
IntEnabledNoSti == cpc = "idle" \/ (sub = 16 /\ cpc \in {"wait", "add", "wrap"})

IntEnabled == cpc \in {"idle", "wait"} \/ (sub = 16 /\ cpc \in {"add", "wrap"})

\* handle_int09 (636-654): read port 0x60, process it, EOI.
handle_int09 ==
    /\ IntEnabled
    /\ irq # NoScan
    /\ process_scancode(irq)
    /\ irq' = NoScan
    /\ held' = HeldAfter(held, irq)
    /\ pe0' = (irq = 224)
    /\ UNCHANGED <<head, scans, cpc, sub, ax, zf, taken>>

(***************************************************************************)
(* handle_int16 (1197-1261), entered by the guest's INT 16h with AH = ah.  *)
(* /01 and /11 peek at head; /02 and /12 return the status bytes; /05     *)
(* reports the buffer full; /03, /04 and other functions do nothing.       *)
(***************************************************************************)
Int16Call ==
    /\ cpc = "idle"
    /\ \E ah \in {0, 1, 2, 3, 4, 5, 16, 17, 18, 6} :
        CASE ah \in {0, 16} ->
               cpc' = "wait" /\ sub' = ah /\ UNCHANGED <<ax, zf>>
          [] ah \in {1, 17} ->
               /\ IF head = tail THEN zf' = 1 /\ UNCHANGED ax
                                 ELSE zf' = 0 /\ ax' = mem[head]
               /\ UNCHANGED <<cpc, sub>>
          [] ah \in {2, 18} ->
               ax' = STS2 * 256 + SumSet(status1) /\ UNCHANGED <<zf, cpc, sub>>
          [] ah = 5 ->
               ax' = 5 * 256 + 1 /\ UNCHANGED <<zf, cpc, sub>>
          [] OTHER -> UNCHANGED <<ax, zf, cpc, sub>>
    /\ UNCHANGED <<head, tail, mem, status1, e0, e1, irq, scans, taken, held, pe0>>

\* /00 once its wait loop sees a key: cli, read, advance, wrap (1206-1215).
Int16Take00 ==
    /\ cpc = "wait" /\ sub = 0
    /\ head # tail
    /\ ax' = mem[head]
    /\ head' = CWrap(head + 2)
    /\ taken' = Append(taken, mem[head])
    /\ cpc' = "idle"
    /\ UNCHANGED <<tail, mem, status1, e0, e1, irq, scans, sub, zf, held, pe0>>

\* /10 once its wait loop sees a key: read the word at head (1226-1229).
Int16Read10 ==
    /\ cpc = "wait" /\ sub = 16
    /\ head # tail
    /\ ax' = mem[head]
    /\ cpc' = "add"
    /\ UNCHANGED <<head, tail, mem, status1, e0, e1, irq, scans, sub, zf, taken, held, pe0>>

\* bda->key_buffer_head += 2 (1230), interrupts still enabled.
Int16Add10 ==
    /\ cpc = "add"
    /\ head' = head + 2
    /\ taken' = Append(taken, ax)
    /\ cpc' = "wrap"
    /\ UNCHANGED <<tail, mem, status1, e0, e1, irq, scans, sub, ax, zf, held, pe0>>

\* The wrap check, then cli and return (1231-1234).
Int16Wrap10 ==
    /\ cpc = "wrap"
    /\ head' = CWrap(head)
    /\ cpc' = "idle"
    /\ UNCHANGED <<tail, mem, status1, e0, e1, irq, scans, sub, ax, zf, taken, held, pe0>>

\* The steps of a handler already running, which the CPU carries on with.
Int16Continue == Int16Take00 \/ Int16Read10 \/ Int16Add10 \/ Int16Wrap10

Init ==
    /\ head = START /\ tail = START
    /\ mem = [w \in Words |-> IF w = END THEN FloppyWord ELSE Empty]
    /\ status1 = {} /\ e0 = FALSE /\ e1 = FALSE
    /\ irq = NoScan /\ scans = 0
    /\ cpc = "idle" /\ sub = 0 /\ ax = 0 /\ zf = 0
    /\ taken = <<>> /\ held = {} /\ pe0 = FALSE

Next == KeyType \/ handle_int09 \/ Int16Call \/ Int16Continue

\* The CPU delivers a pending IRQ 1 while IF = 1 and runs a handler it has
\* entered to its end; the user typing and the guest calling INT 16h are
\* not assumed to happen.
Spec == Init /\ [][Next]_vars /\ WF_vars(handle_int09) /\ WF_vars(Int16Continue)

-----------------------------------------------------------------------------

TypeOK ==
    /\ head \in Words \/ (cpc = "wrap" /\ head = END + 2)
    /\ tail \in RingSlots
    /\ DOMAIN mem = Words
    /\ status1 \subseteq {1, 2, 4, 8, 16, 32, 64, 128}
    /\ irq \in Scancodes \cup {NoScan}
    /\ cpc \in {"idle", "wait", "add", "wrap"}
    /\ zf \in {0, 1}

(***************************************************************************)
(* process_scancode stores, for every make code, the key that the table    *)
(* gives for that scancode under the E0 prefix sent just before it and the *)
(* modifiers held at that moment, and stores nothing for a release, a      *)
(* prefix, a code without a key, or a full ring.  The reference is         *)
(* computed from the scancode history, not from status1 and status3.      *)
(***************************************************************************)
ExpectedKey(sc) ==
    LET h == HeldAfter(held, sc)
        col == IF 56 \in h THEN 4 ELSE IF 29 \in h THEN 3
               ELSE IF h \cap {42, 54} # {} THEN 2 ELSE 1
    IN  IF pe0 THEN T2Rows[sc][col] ELSE T1Rows[sc][col]

KeyStoredStep ==
    (irq # NoScan /\ irq' = NoScan) =>
        IF irq < 128 /\ ExpectedKey(irq) # NOKEY /\ PNext(tail) # head
          THEN tail' = PNext(tail) /\ mem' = [mem EXCEPT ![tail] = ExpectedKey(irq)]
          ELSE UNCHANGED <<tail, mem>>

KeyStored == [][KeyStoredStep]_vars

(***************************************************************************)
(* A guest blocked in INT 16h/00 or /10 returns once the user types 'A'   *)
(* (scancode 0x1E, which has a key in every shift state) with no E0        *)
(* prefix pending: the wait loop runs with interrupts enabled, so the      *)
(* keyboard interrupt can store the key the loop waits for.                *)
(***************************************************************************)
TypedKeyWakesReader ==
    (cpc = "wait" /\ irq = 30 /\ ~e0) ~> (cpc = "idle")

(***************************************************************************)
(* The ring implements the abstract key queue: the keys INT 16h hands the  *)
(* guest are the keys typed, in order, none lost while the buffer has      *)
(* room.  The queue is the words INT 16h will read, from head to tail.     *)
(***************************************************************************)
RECURSIVE RingFrom(_, _)
RingFrom(h, n) ==
    IF n = 0 \/ h = tail THEN <<>> ELSE <<mem[h]>> \o RingFrom(CWrap(h + 2), n - 1)

QueueView ==
    RingFrom(IF cpc = "wrap" THEN CWrap(head) ELSE head, Cardinality(Words))

Q == INSTANCE AbsKeyQueue
       WITH Keys <- UNION {{r[c] : c \in 1 .. 4} : r \in Range(T1Rows) \cup Range(T2Rows)}
                    \cup OobKeys,
            Cap <- Cardinality(RingSlots) - 1,
            queue <- QueueView, taken <- taken

KeyQueueRefined == Q!QSpec

=============================================================================
