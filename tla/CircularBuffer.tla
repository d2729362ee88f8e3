--------------------------- MODULE CircularBuffer ---------------------------
(***************************************************************************)
(* The circular buffer of aesd-char-driver/aesd-circular-buffer.{c,h}: the *)
(* last N write commands, stored in an array of entries between out_offs   *)
(* (the oldest entry) and in_offs (the next slot to fill).                 *)
(*                                                                         *)
(* The module has no variables: the driver (AesdChar) owns the struct and  *)
(* takes its locking duty, as the comments of the C functions demand.  The *)
(* search loop of aesd_circular_buffer_find_entry_offset_for_fpos is one   *)
(* step of the driver per iteration; its loop body is defined here.        *)
(***************************************************************************)
EXTENDS Integers, Sequences

CONSTANTS
  N,      \* AESDCHAR_MAX_WRITE_OPERATIONS_SUPPORTED
  Null    \* the null pointer

(* in_offs and out_offs are uint8_t, so the ring has at most 256 slots.    *)
ASSUME NAssumption == N \in 1..256

Slots == 0..(N - 1)

(* A zeroed struct aesd_buffer_entry, as memset leaves it.                 *)
ZeroEntry == [buffptr |-> Null, size |-> 0]

(* A zeroed struct aesd_circular_buffer.                                   *)
EmptyBuffer ==
  [entry    |-> [i \in Slots |-> ZeroEntry],
   in_offs  |-> 0,
   out_offs |-> 0,
   full     |-> FALSE]

(* Mutant: no wrap-around.                                                 *)
AdvanceForever(offs) == (offs + 1) % 256

(* "offs++; offs = offs % N" on a uint8_t.                                 *)
Advance(offs) == ((offs + 1) % 256) % N

(* Mutant: a full buffer does not move out_offs.                           *)
AddEntryKeepsOut(buf, add_entry) ==
  [entry    |-> [buf.entry EXCEPT ![buf.in_offs] = add_entry],
   in_offs  |-> Advance(buf.in_offs),
   out_offs |-> buf.out_offs,
   full     |-> buf.full \/ Advance(buf.in_offs) = buf.out_offs]

(***************************************************************************)
(* aesd_circular_buffer_add_entry: the buffer it leaves, and the pointer   *)
(* it hands back for the caller to free (Null unless an entry was          *)
(* overwritten).                                                           *)
(***************************************************************************)
AddEntry(buf, add_entry) ==
  LET in_offs == Advance(buf.in_offs)
  IN  [entry    |-> [buf.entry EXCEPT ![buf.in_offs] = add_entry],
       in_offs  |-> in_offs,
       out_offs |-> IF buf.full THEN Advance(buf.out_offs) ELSE buf.out_offs,
       full     |-> buf.full \/ in_offs = buf.out_offs]

(* Mutant: the overwritten pointer is not handed back.                     *)
OverwrittenNever(buf) == Null

Overwritten(buf) ==
  IF buf.full THEN buf.entry[buf.in_offs].buffptr ELSE Null

(***************************************************************************)
(* The do-while loop of aesd_circular_buffer_find_entry_offset_for_fpos at *)
(* slot idx, when the sizes of the slots before it add up to offset.  The  *)
(* search starts at out_offs with offset 0.                                *)
(*   FindHere : the entry at idx holds byte char_offset;                   *)
(*   FindByte : the byte of that entry, the C function's output parameter; *)
(*   FindNext : the slot of the next iteration, in_offs when there is none.*)
(***************************************************************************)
FindHere(buf, idx, offset, char_offset) ==
  offset + buf.entry[idx].size > char_offset

(* Mutant: the byte offset inside the entry is forgotten.                  *)
FindByteZero(buf, idx, offset, char_offset) == 0

FindByte(buf, idx, offset, char_offset) ==
  buf.entry[idx].size - ((offset + buf.entry[idx].size) - char_offset)

FindNext(idx) == (idx + 1) % N

-----------------------------------------------------------------------------
(***************************************************************************)
(* What the buffer means: the entries in use, oldest first.                *)
(***************************************************************************)

(* The slots that hold an entry.                                           *)
InUse(buf) ==
  IF buf.full THEN Slots
  ELSE {i \in Slots : (i + N - buf.out_offs) % N
                        < (buf.in_offs + N - buf.out_offs) % N}

EntryCount(buf) ==
  IF buf.full THEN N ELSE (buf.in_offs + N - buf.out_offs) % N

(* The slot of the k-th oldest entry, counting from 0.                     *)
SlotOf(buf, k) == (buf.out_offs + k) % N

(***************************************************************************)
(* The shape of the ring: out_offs stays 0 until the ring is full, and     *)
(* from then on the two offsets move together; a slot not in use is zero.  *)
(***************************************************************************)
RingShape(buf) ==
  IF buf.full THEN buf.in_offs = buf.out_offs ELSE buf.out_offs = 0

UnusedZero(buf) == \A i \in Slots \ InUse(buf) : buf.entry[i] = ZeroEntry

Contents(buf) == [k \in 1..EntryCount(buf) |-> buf.entry[SlotOf(buf, k - 1)]]

=============================================================================
