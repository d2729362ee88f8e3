-------------------------- MODULE AesdCharLogProofs --------------------------
(***************************************************************************)
(* What the aesdchar device stores, for every size of the ring and every   *)
(* number of processes, files and blocks: its commands are lines of bytes  *)
(* that were written and, as long as krealloc does not fail, the driver    *)
(* implements the log of AesdLog, on which every write is one step.        *)
(*                                                                         *)
(* The proofs are about two views of the driver's state, Commands and      *)
(* Pending, and use the invariant of AesdCharProofs for what they rest on. *)
(***************************************************************************)
EXTENDS AesdCharProofs

------------------------------------------------------------------------------
(***************************************************************************)
(* Newlines.                                                               *)
(***************************************************************************)

(* NewlineAt finds the first newline, if there is one.                     *)
LEMMA NewlineAtFirst ==
  ASSUME NEW s \in Seq(Byte)
  PROVE  /\ NewlineAt(s) \in 0..Len(s)
         /\ NewlineAt(s) = 0 => \A j \in 1..Len(s) : s[j] # Newline
         /\ NewlineAt(s) # 0 => /\ s[NewlineAt(s)] = Newline
                                /\ \A j \in 1..(NewlineAt(s) - 1) : s[j] # Newline
<1>. DEFINE I == {i \in 1..Len(s) : s[i] = Newline}
<1>1. Len(s) \in Nat /\ NewlineAt(s) \in 0..Len(s)
  BY LenProperties, BytesToWriteRange
<1>2. CASE I = {}
  <2>1. NewlineAt(s) = 0
    BY <1>2 DEF NewlineAt, SelectInSeq
  <2>. QED
    BY <1>1, <1>2, <2>1
<1>3. CASE I # {}
  <2>1. NewlineAt(s) = Min(I)
    BY <1>3 DEF NewlineAt, SelectInSeq
  <2>2. I \subseteq Nat
    BY <1>1
  <2>3. PICK x \in I : \A y \in I : ~(<<y, x>> \in OpToRel(<, Nat))
    BY <1>3, <2>2, WFMin, NatLessThanWellFounded
  <2>4. ASSUME NEW y \in I
        PROVE  x <= y
    <3>1. <<y, x>> \in OpToRel(<, Nat) <=> y < x
      BY <2>2, Zenon DEF OpToRel
    <3>2. ~(y < x)
      BY <2>3, <3>1, Zenon
    <3>. QED
      BY <2>2, <3>2
  <2>5. Min(I) \in I /\ \A y \in I : Min(I) <= y
    BY <2>4 DEF Min
  <2>6. /\ NewlineAt(s) \in 1..Len(s) /\ s[NewlineAt(s)] = Newline
        /\ \A y \in I : NewlineAt(s) <= y
    BY <2>1, <2>5
  <2>7. \A j \in 1..(NewlineAt(s) - 1) : s[j] # Newline
    BY <1>1, <2>6
  <2>. QED
    BY <1>1, <2>6, <2>7
<1>. QED
  BY <1>2, <1>3

(* A sequence whose only newline comes last.                               *)
LineSeq(s) ==
  /\ Len(s) > 0
  /\ s[Len(s)] = Newline
  /\ \A j \in 1..(Len(s) - 1) : s[j] # Newline

LEMMA LineSeqNewline ==
  ASSUME NEW s \in Seq(Byte)
  PROVE  /\ LineSeq(s) <=> NewlineAt(s) = Len(s) /\ s # <<>>
         /\ NewlineAt(s) = 0 <=> \A j \in 1..Len(s) : s[j] # Newline
<1>1. Len(s) \in Nat /\ (s = <<>> <=> Len(s) = 0)
  BY LenProperties, EmptySeq
<1>2. NewlineAt(s) \in 0..Len(s)
  BY NewlineAtFirst
<1>3. NewlineAt(s) = 0 => \A j \in 1..Len(s) : s[j] # Newline
  BY NewlineAtFirst
<1>4. NewlineAt(s) # 0 => s[NewlineAt(s)] = Newline /\ \A j \in 1..(NewlineAt(s) - 1) : s[j] # Newline
  BY NewlineAtFirst
<1>. QED
  BY <1>1, <1>2, <1>3, <1>4 DEF LineSeq

(* A buffer with a newline is a line as far as the driver uses it.         *)
LEMMA IsLineNewline ==
  ASSUME NEW s \in Seq(Byte)
  PROVE  Log!IsLine(s) <=> NewlineAt(s) # 0
<1>1. NewlineAt(s) \in 0..Len(s) /\ Len(s) \in Nat
  BY NewlineAtFirst, LenProperties
<1>. QED
  BY <1>1, NewlineAtFirst DEF Log!IsLine

(* What AesdLog uses of a buffer is what the driver copies.                *)
LEMMA FirstLineBytes ==
  ASSUME NEW s \in Seq(Byte)
  PROVE  Log!FirstLine(s) = SubSeq(s, 1, BytesToWrite(s))
<1>. DEFINE n == BytesToWrite(s)
            P(l) == /\ Log!IsLine(l) <=> Log!IsLine(s)
                    /\ IF Log!IsLine(s) THEN ~Log!IsLine(SubSeq(l, 1, Len(l) - 1)) ELSE l = s
            L == {SubSeq(s, 1, i) : i \in 0..Len(s)}
<1>1. Log!FirstLine(s) = CHOOSE l \in L : P(l)
  BY DEF Log!FirstLine
<1>2. Len(s) \in Nat /\ n \in 0..Len(s)
  BY LenProperties, BytesToWriteRange
<1>3. ASSUME NEW i \in 0..Len(s)
      PROVE  /\ SubSeq(s, 1, i) \in Seq(Byte) /\ Len(SubSeq(s, 1, i)) = i
             /\ \A j \in 1..i : SubSeq(s, 1, i)[j] = s[j]
             /\ Log!IsLine(SubSeq(s, 1, i)) <=> \E j \in 1..i : s[j] = Newline
  <2>1. SubSeq(s, 1, i) \in Seq(Byte) /\ Len(SubSeq(s, 1, i)) = i
    BY <1>2, SubSeqProperties
  <2>2. \A j \in 1..i : SubSeq(s, 1, i)[j] = s[j]
    BY <1>2, SubSeqProperties
  <2>. QED
    BY <2>1, <2>2 DEF Log!IsLine
<1>4. ASSUME NEW i \in 0..Len(s)
      PROVE  SubSeq(SubSeq(s, 1, i), 1, i - 1) = SubSeq(s, 1, IF i = 0 THEN 0 ELSE i - 1)
  <2>. DEFINE k == IF i = 0 THEN 0 ELSE i - 1
              t == SubSeq(s, 1, i)
  <2>1. k \in 0..Len(s) /\ k <= i /\ (i # 0 => k = i - 1)
    BY <1>2
  <2>2. t \in Seq(Byte) /\ Len(t) = i /\ \A j \in 1..i : t[j] = s[j]
    BY <1>3
  <2>3. CASE i = 0
    BY <2>2, <2>3, EmptySeq
  <2>4. CASE i # 0
    <3>. HIDE DEF t
    <3>1. SubSeq(t, 1, i - 1) \in Seq(Byte) /\ Len(SubSeq(t, 1, i - 1)) = i - 1
      BY <1>2, <2>2, <2>4, SubSeqProperties
    <3>. QED
      BY <1>2, <1>3, <2>1, <2>2, <2>4, <3>1 DEF t
  <2>. QED
    BY <2>3, <2>4
<1>5. CASE Log!IsLine(s)
  <2>1. /\ n = NewlineAt(s) /\ n \in 1..Len(s) /\ s[n] = Newline
        /\ \A j \in 1..(n - 1) : s[j] # Newline
    BY <1>2, <1>5, IsLineNewline, NewlineAtFirst DEF BytesToWrite
  <2>2. ASSUME NEW i \in 0..Len(s)
        PROVE  P(SubSeq(s, 1, i)) <=> i = n
    <3>. DEFINE k == IF i = 0 THEN 0 ELSE i - 1
    <3>1. k \in 0..Len(s)
      BY <1>2
    <3>2. Log!IsLine(SubSeq(s, 1, i)) <=> \E j \in 1..i : s[j] = Newline
      BY <1>3
    <3>3. Log!IsLine(SubSeq(s, 1, k)) <=> \E j \in 1..k : s[j] = Newline
      BY <1>3, <3>1
    <3>4. /\ Len(SubSeq(s, 1, i)) = i
          /\ SubSeq(SubSeq(s, 1, i), 1, i - 1) = SubSeq(s, 1, k)
      BY <1>3, <1>4
    <3>5. P(SubSeq(s, 1, i)) <=> /\ \E j \in 1..i : s[j] = Newline
                                 /\ ~\E j \in 1..k : s[j] = Newline
      BY <1>5, <3>2, <3>3, <3>4
    <3>. HIDE DEF P, n
    <3>. QED
      BY <1>2, <2>1, <3>5
  <2>3. \A l \in L : P(l) <=> l = SubSeq(s, 1, n)
    <3>. HIDE DEF P
    <3>1. ASSUME NEW l \in L
          PROVE  P(l) <=> l = SubSeq(s, 1, n)
      <4>1. PICK i \in 0..Len(s) : l = SubSeq(s, 1, i)
        OBVIOUS
      <4>2. P(l) <=> i = n
        BY <2>2, <4>1
      <4>3. Len(SubSeq(s, 1, i)) = i /\ Len(SubSeq(s, 1, n)) = n
        BY <1>2, <1>3
      <4>. HIDE DEF n
      <4>. QED
        BY <4>1, <4>2, <4>3
    <3>. QED
      BY <3>1
  <2>4. SubSeq(s, 1, n) \in L
    BY <1>2
  <2>. HIDE DEF P, L, n
  <2>. QED
    BY <1>1, <2>3, <2>4 DEF n
<1>6. CASE ~Log!IsLine(s)
  <2>1. n = Len(s)
    BY <1>6, IsLineNewline DEF BytesToWrite
  <2>2. SubSeq(s, 1, n) = s
    BY <2>1, SubSeqFull
  <2>3. SubSeq(s, 1, n) \in L
    BY <1>2
  <2>4. P(s) /\ \A l \in L : P(l) => l = s
    BY <1>6
  <2>5. s \in L
    BY <2>2, <2>3
  <2>. HIDE DEF P, L, n
  <2>6. (CHOOSE l \in L : P(l)) = s
    BY <2>4, <2>5
  <2>. QED
    BY <1>1, <2>2, <2>6 DEF n
<1>. QED
  BY <1>5, <1>6

------------------------------------------------------------------------------
(***************************************************************************)
(* The two views of the device: the commands in the ring, and the bytes of *)
(* the one that is not complete.                                           *)
(***************************************************************************)

(* Entries are counted from out_offs on, and wrap at N.                    *)
LEMMA SlotOfShape ==
  ASSUME NEW buf \in Buffers, RingShape(buf)
  PROVE  /\ EntryCount(buf) = IF buf.full THEN N ELSE buf.in_offs
         /\ EntryCount(buf) \in 0..N
         /\ \A k \in 1..EntryCount(buf) :
              /\ SlotOf(buf, k - 1) = IF ~buf.full THEN k - 1
                                      ELSE IF buf.out_offs + k - 1 < N THEN buf.out_offs + k - 1
                                      ELSE buf.out_offs + k - 1 - N
              /\ SlotOf(buf, k - 1) \in InUse(buf)
         /\ \A i \in InUse(buf) : \E k \in 1..EntryCount(buf) : SlotOf(buf, k - 1) = i
<1>1. /\ buf.in_offs \in Slots /\ buf.out_offs \in Slots /\ N \in 1..256 /\ Slots = 0..(N - 1)
      /\ InUse(buf) = IF buf.full THEN Slots ELSE 0..(buf.in_offs - 1)
  BY NAssumption, InUseShape DEF Buffers, Slots
<1>2. CASE buf.full
  <2>1. EntryCount(buf) = N
    BY <1>2 DEF EntryCount
  <2>2. ASSUME NEW k \in 1..N
        PROVE  /\ SlotOf(buf, k - 1) = IF buf.out_offs + k - 1 < N THEN buf.out_offs + k - 1
                                       ELSE buf.out_offs + k - 1 - N
               /\ SlotOf(buf, k - 1) \in Slots
    <3>. DEFINE x == buf.out_offs + (k - 1)
    <3>1. x \in Nat /\ x < 2 * N /\ x = buf.out_offs + k - 1
      BY <1>1
    <3>2. SlotOf(buf, k - 1) = x % N
      BY DEF SlotOf
    <3>. HIDE DEF x
    <3>3. x % N = IF x < N THEN x ELSE x - N
      BY <3>1, ModN
    <3>. QED
      BY <1>1, <3>1, <3>2, <3>3
  <2>3. ASSUME NEW i \in Slots
        PROVE  \E k \in 1..N : SlotOf(buf, k - 1) = i
    <3>1. CASE i >= buf.out_offs
      <4>. DEFINE k == i - buf.out_offs + 1
      <4>1. k \in 1..N /\ buf.out_offs + k - 1 = i /\ i < N
        BY <1>1, <3>1
      <4>. HIDE DEF k
      <4>2. SlotOf(buf, k - 1) = i
        BY <2>2, <4>1
      <4>. QED
        BY <4>1, <4>2
    <3>2. CASE i < buf.out_offs
      <4>. DEFINE k == i - buf.out_offs + N + 1
      <4>1. k \in 1..N /\ buf.out_offs + k - 1 - N = i /\ ~(buf.out_offs + k - 1 < N)
        <5>1. buf.out_offs \in 0..(N - 1) /\ i \in 0..(N - 1) /\ N \in Nat
          BY <1>1
        <5>2. k \in 1..N
          BY <3>2, <5>1
        <5>3. buf.out_offs + k - 1 = i + N
          BY <5>1
        <5>. QED
          BY <5>1, <5>2, <5>3
      <4>. HIDE DEF k
      <4>2. SlotOf(buf, k - 1) = i
        BY <2>2, <4>1
      <4>. QED
        BY <4>1, <4>2
    <3>. QED
      BY <1>1, <3>1, <3>2
  <2>4. EntryCount(buf) \in 0..N
    BY <1>1, <2>1
  <2>5. InUse(buf) = Slots
    BY <1>1, <1>2
  <2>. QED
    BY <1>2, <2>1, <2>2, <2>3, <2>4, <2>5
<1>3. CASE ~buf.full
  <2>1. buf.out_offs = 0
    BY <1>3 DEF RingShape
  <2>2. EntryCount(buf) = buf.in_offs
    <3>1. EntryCount(buf) = (buf.in_offs + N - 0) % N
      BY <1>3, <2>1 DEF EntryCount
    <3>2. (buf.in_offs + N - 0) % N = buf.in_offs
      BY <1>1, ModN
    <3>. QED
      BY <3>1, <3>2
  <2>3. ASSUME NEW k \in 1..buf.in_offs
        PROVE  SlotOf(buf, k - 1) = k - 1
    <3>1. SlotOf(buf, k - 1) = (0 + (k - 1)) % N
      BY <2>1 DEF SlotOf
    <3>2. 0 + (k - 1) = k - 1 /\ k - 1 \in Nat /\ k - 1 < N
      BY <1>1
    <3>. QED
      BY <1>1, <3>1, <3>2, ModN
  <2>4. ASSUME NEW i \in InUse(buf)
        PROVE  \E k \in 1..buf.in_offs : SlotOf(buf, k - 1) = i
    <3>1. i + 1 \in 1..buf.in_offs /\ (i + 1) - 1 = i
      BY <1>1, <1>3
    <3>. QED
      BY <2>3, <3>1
  <2>5. \A k \in 1..buf.in_offs : k - 1 \in InUse(buf)
    BY <1>1, <1>3
  <2>. QED
    BY <1>1, <1>3, <2>2, <2>3, <2>4, <2>5
<1>. QED
  BY <1>2, <1>3

(* The blocks of the device while the module is loaded.                    *)
LEMMA DeviceBlocks ==
  ASSUME IInv, mod # "unloaded"
  PROVE  /\ buffer \in Buffers /\ RingShape(buffer) /\ working \in Entries
         /\ live \subseteq Blocks /\ mem \in [Blocks -> Seq(Byte)]
         /\ \A i \in InUse(buffer) :
              /\ i \in Slots
              /\ buffer.entry[i].buffptr \in EntryPtrs
              /\ buffer.entry[i].buffptr \in Blocks
         /\ working.buffptr # Null => working.buffptr \in Blocks
<1>1. /\ buffer \in Buffers /\ RingShape(buffer) /\ working \in Entries
      /\ live \subseteq Blocks /\ mem \in [Blocks -> Seq(Byte)]
  BY DEF IInv, TypeOK
<1>2. EntriesOwned
  BY DEF IInv, HeapSound
<1>3. ASSUME NEW i \in InUse(buffer)
      PROVE  /\ i \in Slots
             /\ buffer.entry[i].buffptr \in EntryPtrs
             /\ buffer.entry[i].buffptr \in Blocks
  BY <1>1, <1>2, <1>3 DEF EntriesOwned, EntryPtrs, InUse
<1>4. working.buffptr # Null => working.buffptr \in Blocks
  BY <1>1 DEF Entries
<1>. QED
  BY <1>1, <1>3, <1>4

LEMMA CommandsView ==
  ASSUME IInv, mod # "unloaded"
  PROVE  /\ Commands \in Seq(Seq(Byte)) /\ Len(Commands) = EntryCount(buffer)
         /\ EntryCount(buffer) \in 0..N
         /\ \A k \in 1..EntryCount(buffer) :
              Commands[k] = mem[buffer.entry[SlotOf(buffer, k - 1)].buffptr]
<1>1. /\ EntryCount(buffer) \in 0..N
      /\ \A k \in 1..EntryCount(buffer) : SlotOf(buffer, k - 1) \in InUse(buffer)
  BY DeviceBlocks, SlotOfShape
<1>2. ASSUME NEW k \in 1..EntryCount(buffer)
      PROVE  /\ Commands[k] = mem[buffer.entry[SlotOf(buffer, k - 1)].buffptr]
             /\ Commands[k] \in Seq(Byte)
  <2>1. Contents(buffer)[k] = buffer.entry[SlotOf(buffer, k - 1)]
    BY DEF Contents
  <2>2. Commands[k] = mem[buffer.entry[SlotOf(buffer, k - 1)].buffptr]
    BY <2>1 DEF Commands
  <2>. QED
    BY <1>1, <2>2, DeviceBlocks
<1>3. Commands \in [1..EntryCount(buffer) -> Seq(Byte)]
  BY <1>2 DEF Commands
<1>4. EntryCount(buffer) \in Nat
  BY <1>1, NAssumption
<1>. QED
  BY <1>1, <1>2, <1>3, <1>4, FunctionIsSeq

(* Every entry in use is a command, and every command an entry in use.     *)
LEMMA EntryIsCommand ==
  ASSUME IInv, mod # "unloaded"
  PROVE  /\ \A i \in InUse(buffer) : \E k \in 1..Len(Commands) :
              Commands[k] = mem[buffer.entry[i].buffptr]
         /\ \A k \in 1..Len(Commands) : \E i \in InUse(buffer) :
              Commands[k] = mem[buffer.entry[i].buffptr]
<1>1. buffer \in Buffers /\ RingShape(buffer)
  BY DeviceBlocks
<1>2. /\ \A i \in InUse(buffer) : \E k \in 1..EntryCount(buffer) : SlotOf(buffer, k - 1) = i
      /\ \A k \in 1..EntryCount(buffer) : SlotOf(buffer, k - 1) \in InUse(buffer)
  BY <1>1, SlotOfShape
<1>3. /\ Len(Commands) = EntryCount(buffer)
      /\ \A k \in 1..EntryCount(buffer) :
           Commands[k] = mem[buffer.entry[SlotOf(buffer, k - 1)].buffptr]
  BY CommandsView
<1>4. ASSUME NEW i \in InUse(buffer)
      PROVE  \E k \in 1..Len(Commands) : Commands[k] = mem[buffer.entry[i].buffptr]
  <2>1. PICK k \in 1..EntryCount(buffer) : SlotOf(buffer, k - 1) = i
    BY <1>2
  <2>. QED
    BY <1>3, <2>1
<1>. QED
  BY <1>2, <1>3, <1>4

LEMMA PendingView ==
  ASSUME IInv, mod # "unloaded"
  PROVE  /\ Pending \in Seq(Byte)
         /\ Len(Pending) = IF working.buffptr = Null THEN 0 ELSE working.size
         /\ \A j \in 1..Len(Pending) : Pending[j] = mem[working.buffptr][j]
         /\ working.buffptr # Null => working.size <= Len(mem[working.buffptr])
<1>1. CASE working.buffptr = Null
  <2>1. Pending = <<>>
    BY <1>1 DEF Pending
  <2>. QED
    BY <1>1, <2>1, EmptySeq
<1>2. CASE working.buffptr # Null
  <2>. DEFINE s == mem[working.buffptr]
  <2>1. s \in Seq(Byte) /\ working.size \in Nat
    BY <1>2, DeviceBlocks DEF Entries
  <2>2. Pending = SubSeq(s, 1, working.size)
    BY <1>2 DEF Pending
  <2>3. working.size <= Len(s)
    <3>1. WorkingOwned
      BY DEF IInv, HeapSound
    <3>2. CASE Len(s) = working.size
      BY <2>1, <3>2
    <3>3. ASSUME NEW p \in Procs, pc[p] = "write_copy"
          PROVE  working.size <= Len(s)
      <4>1. Len(s) = working.size + BytesToWrite(call[p].data)
        BY <3>1, <3>3 DEF WorkingOwned
      <4>2. call[p].data \in Seq(Byte)
        BY OneFrame DEF Frames
      <4>3. BytesToWrite(call[p].data) \in 0..Len(call[p].data) /\ Len(call[p].data) \in Nat
        BY <4>2, BytesToWriteRange, LenProperties
      <4>. QED
        BY <2>1, <4>1, <4>3
    <3>. QED
      BY <1>2, <3>1, <3>2, <3>3 DEF WorkingOwned
  <2>. HIDE DEF s
  <2>4. \A j \in 1..working.size : s[j] \in Byte
    BY <2>1, <2>3, ElementOfSeq, LenProperties
  <2>5. /\ Pending \in Seq(Byte) /\ Len(Pending) = working.size
        /\ \A j \in 1..working.size : Pending[j] = s[j]
    BY <2>1, <2>2, <2>4, SubSeqProperties
  <2>. QED
    BY <1>2, <2>3, <2>5 DEF s
<1>. QED
  BY <1>1, <1>2

(* A step that touches neither the ring nor the bytes of its blocks.       *)
LEMMA ViewsKept ==
  ASSUME IInv, mod # "unloaded", UNCHANGED device,
         \A b \in EntryPtrs \union WorkingPtrs : mem'[b] = mem[b]
  PROVE  Commands' = Commands /\ Pending' = Pending
<1>1. UNCHANGED <<buffer, working>>
  BY DEF device
<1>2. ASSUME NEW k \in 1..EntryCount(buffer)
      PROVE  mem'[Contents(buffer)[k].buffptr] = mem[Contents(buffer)[k].buffptr]
  <2>1. Contents(buffer)[k] = buffer.entry[SlotOf(buffer, k - 1)]
    BY DEF Contents
  <2>2. SlotOf(buffer, k - 1) \in InUse(buffer)
    BY DeviceBlocks, SlotOfShape
  <2>. QED
    BY <2>1, <2>2, DeviceBlocks
<1>3. Commands' = Commands
  BY <1>1, <1>2 DEF Commands
<1>4. Pending' = Pending
  BY <1>1 DEF Pending, WorkingPtrs
<1>. QED
  BY <1>3, <1>4

------------------------------------------------------------------------------
(***************************************************************************)
(* What a write does to the two views.                                     *)
(***************************************************************************)

(* memcpy to the end of a block appends.                                   *)
LEMMA MemcpyAppends ==
  ASSUME NEW dst \in Seq(Byte), NEW src \in Seq(Byte), NEW at \in Nat, NEW n \in 0..Len(src),
         Len(dst) = at + n
  PROVE  Memcpy(dst, at, src, n) = SubSeq(dst, 1, at) \o SubSeq(src, 1, n)
<1>. DEFINE s == Memcpy(dst, at, src, n)
            t == SubSeq(dst, 1, at) \o SubSeq(src, 1, n)
<1>1. /\ Len(src) \in Nat /\ n \in Nat /\ n <= Len(src)
      /\ \A i \in 1..Len(dst) : dst[i] \in Byte
      /\ \A i \in 1..Len(src) : src[i] \in Byte
  BY LenProperties, ElementOfSeq
<1>2. s \in Seq(Byte) /\ Len(s) = at + n
  BY MemcpyType
<1>3. ASSUME NEW i \in 1..(at + n)
      PROVE  s[i] = IF i <= at THEN dst[i] ELSE src[i - at]
  BY <1>1 DEF Memcpy
<1>4. /\ SubSeq(dst, 1, at) \in Seq(Byte) /\ Len(SubSeq(dst, 1, at)) = at
      /\ \A i \in 1..at : SubSeq(dst, 1, at)[i] = dst[i]
  BY <1>1, SubSeqProperties
<1>5. /\ SubSeq(src, 1, n) \in Seq(Byte) /\ Len(SubSeq(src, 1, n)) = n
      /\ \A i \in 1..n : SubSeq(src, 1, n)[i] = src[i]
  BY <1>1, SubSeqProperties
<1>6. /\ t \in Seq(Byte) /\ Len(t) = at + n
      /\ \A i \in 1..(at + n) :
           t[i] = IF i <= at THEN SubSeq(dst, 1, at)[i] ELSE SubSeq(src, 1, n)[i - at]
  BY <1>4, <1>5, ConcatProperties
<1>. HIDE DEF s, t
<1>7. ASSUME NEW i \in 1..(at + n)
      PROVE  s[i] = t[i]
  <2>1. CASE i <= at
    <3>1. i \in 1..at
      BY <2>1
    <3>. QED
      BY <1>3, <1>4, <1>6, <2>1, <3>1
  <2>2. CASE ~(i <= at)
    <3>1. i - at \in 1..n
      BY <1>1, <2>2
    <3>. QED
      BY <1>3, <1>5, <1>6, <2>2, <3>1
  <2>. QED
    BY <2>1, <2>2
<1>8. s = t
  BY <1>2, <1>6, <1>7, SeqEqual
<1>. QED
  BY <1>8 DEF s, t

(* The newest N of one more command.                                       *)
LEMMA LastNAppend ==
  ASSUME NEW T, NEW s \in Seq(T), NEW x \in T, Len(s) <= N
  PROVE  LET a == Log!LastN(Append(s, x))
         IN  /\ a \in Seq(T)
             /\ Len(a) = IF Len(s) = N THEN N ELSE Len(s) + 1
             /\ \A k \in 1..Len(a) :
                  a[k] = IF k = Len(a) THEN x ELSE IF Len(s) = N THEN s[k + 1] ELSE s[k]
<1>. DEFINE b == Append(s, x)
            a == Log!LastN(b)
<1>1. N \in Nat /\ N > 0 /\ Len(s) \in Nat
  BY NAssumption, LenProperties
<1>2. /\ b \in Seq(T) /\ Len(b) = Len(s) + 1
      /\ \A k \in 1..Len(b) : b[k] = IF k = Len(s) + 1 THEN x ELSE s[k]
  BY <1>1
<1>. HIDE DEF b
<1>3. CASE Len(s) = N
  <2>1. a = SubSeq(b, 2, N + 1)
    <3>1. ~(Len(b) <= N) /\ Len(b) - N + 1 = 2 /\ Len(b) = N + 1
      BY <1>1, <1>2, <1>3
    <3>. QED
      BY <3>1 DEF Log!LastN
  <2>2. \A i \in 2..(N + 1) : b[i] \in T
    BY <1>1, <1>2, <1>3, ElementOfSeq
  <2>3. /\ a \in Seq(T) /\ Len(a) = N
        /\ \A k \in 1..N : a[k] = b[2 + k - 1]
    <3>1. /\ SubSeq(b, 2, N + 1) \in Seq(T)
          /\ Len(SubSeq(b, 2, N + 1)) = IF 2 <= N + 1 THEN N + 1 - 2 + 1 ELSE 0
          /\ \A k \in 1..(N + 1 - 2 + 1) : SubSeq(b, 2, N + 1)[k] = b[2 + k - 1]
      BY <1>1, <2>2, SubSeqProperties
    <3>. QED
      BY <1>1, <2>1, <3>1
  <2>. HIDE DEF a
  <2>4. ASSUME NEW k \in 1..N
        PROVE  a[k] = IF k = N THEN x ELSE s[k + 1]
    <3>1. 2 + k - 1 = k + 1 /\ k + 1 \in 1..(N + 1)
      BY <1>1
    <3>2. a[k] = b[k + 1]
      BY <2>3, <3>1
    <3>. QED
      BY <1>1, <1>2, <1>3, <3>1, <3>2
  <2>. QED
    BY <1>3, <2>3, <2>4 DEF a, b
<1>4. CASE Len(s) # N
  <2>1. a = b
    BY <1>1, <1>2, <1>4 DEF Log!LastN
  <2>. QED
    BY <1>1, <1>2, <1>4, <2>1 DEF b
<1>. QED
  BY <1>3, <1>4

(* The order of the ring's entries after aesd_circular_buffer_add_entry.   *)
LEMMA AddEntryOrder ==
  ASSUME NEW buf \in Buffers, RingShape(buf), NEW e \in Entries
  PROVE  LET new == AddEntry(buf, e)
         IN  /\ EntryCount(new) = IF buf.full THEN N ELSE EntryCount(buf) + 1
             /\ EntryCount(buf) = N <=> buf.full
             /\ \A k \in 1..EntryCount(new) :
                  IF k = EntryCount(new) THEN SlotOf(new, k - 1) = buf.in_offs
                  ELSE /\ SlotOf(new, k - 1) # buf.in_offs
                       /\ SlotOf(new, k - 1) = SlotOf(buf, (IF buf.full THEN k + 1 ELSE k) - 1)
<1>. DEFINE new == AddEntry(buf, e)
<1>1. /\ buf.in_offs \in 0..(N - 1) /\ buf.out_offs \in 0..(N - 1)
      /\ N \in Nat /\ N > 0 /\ buf.full \in BOOLEAN
      /\ new.in_offs \in 0..(N - 1) /\ new.out_offs \in 0..(N - 1)
  <2>1. new \in Buffers
    BY AddEntryShape
  <2>. HIDE DEF new
  <2>. QED
    BY <2>1, NAssumption DEF Buffers, Slots
<1>2. /\ EntryCount(buf) = IF buf.full THEN N ELSE buf.in_offs
      /\ \A k \in 1..EntryCount(buf) :
           SlotOf(buf, k - 1) = IF ~buf.full THEN k - 1
                                ELSE IF buf.out_offs + k - 1 < N THEN buf.out_offs + k - 1
                                ELSE buf.out_offs + k - 1 - N
  BY SlotOfShape
<1>3. /\ EntryCount(new) = IF new.full THEN N ELSE new.in_offs
      /\ \A k \in 1..EntryCount(new) :
           SlotOf(new, k - 1) = IF ~new.full THEN k - 1
                                ELSE IF new.out_offs + k - 1 < N THEN new.out_offs + k - 1
                                ELSE new.out_offs + k - 1 - N
  BY AddEntryShape, SlotOfShape
<1>4. /\ new.in_offs = IF buf.in_offs = N - 1 THEN 0 ELSE buf.in_offs + 1
      /\ new.out_offs = IF ~buf.full THEN buf.out_offs
                        ELSE IF buf.out_offs = N - 1 THEN 0 ELSE buf.out_offs + 1
      /\ new.full <=> (buf.full \/ new.in_offs = buf.out_offs)
  <2>1. /\ new.in_offs = Advance(buf.in_offs)
        /\ new.out_offs = IF buf.full THEN Advance(buf.out_offs) ELSE buf.out_offs
        /\ new.full = (buf.full \/ Advance(buf.in_offs) = buf.out_offs)
    BY DEF AddEntry
  <2>2. buf.in_offs \in Slots /\ buf.out_offs \in Slots
    BY DEF Buffers
  <2>. HIDE DEF new
  <2>. QED
    BY <2>1, <2>2, AdvanceWraps
<1>. HIDE DEF new
<1>5. CASE buf.full
  <2>1. /\ new.full /\ buf.in_offs = buf.out_offs
        /\ EntryCount(new) = N /\ EntryCount(buf) = N
    BY <1>2, <1>3, <1>4, <1>5 DEF RingShape
  <2>2. ASSUME NEW k \in 1..N
        PROVE  IF k = N THEN SlotOf(new, k - 1) = buf.in_offs
               ELSE /\ SlotOf(new, k - 1) # buf.in_offs
                    /\ SlotOf(new, k - 1) = SlotOf(buf, (k + 1) - 1)
    <3>1. SlotOf(new, k - 1) = IF new.out_offs + k - 1 < N THEN new.out_offs + k - 1
                               ELSE new.out_offs + k - 1 - N
      BY <1>3, <2>1
    <3>2. CASE k = N
      BY <1>1, <1>4, <1>5, <2>1, <3>1, <3>2
    <3>3. CASE k # N
      <4>. DEFINE j == k + 1
      <4>1. j \in 1..N /\ j = k + 1
        BY <1>1, <3>3
      <4>. HIDE DEF j
      <4>2. SlotOf(buf, j - 1) = IF buf.out_offs + j - 1 < N THEN buf.out_offs + j - 1
                                 ELSE buf.out_offs + j - 1 - N
        BY <1>2, <1>5, <2>1, <4>1
      <4>. QED
        BY <1>1, <1>4, <1>5, <2>1, <3>1, <3>3, <4>1, <4>2
    <3>. QED
      BY <3>2, <3>3
  <2>. QED
    BY <1>5, <2>1, <2>2 DEF new
<1>6. CASE ~buf.full
  <2>1. /\ buf.out_offs = 0 /\ new.out_offs = 0 /\ EntryCount(buf) = buf.in_offs
        /\ new.full <=> buf.in_offs = N - 1
    BY <1>1, <1>2, <1>4, <1>6 DEF RingShape
  <2>2. EntryCount(new) = buf.in_offs + 1 /\ EntryCount(buf) # N
    BY <1>1, <1>3, <1>4, <2>1
  <2>3. ASSUME NEW k \in 1..(buf.in_offs + 1)
        PROVE  SlotOf(new, k - 1) = k - 1
    BY <1>1, <1>3, <2>1, <2>2
  <2>4. ASSUME NEW k \in 1..(buf.in_offs + 1)
        PROVE  IF k = buf.in_offs + 1 THEN SlotOf(new, k - 1) = buf.in_offs
               ELSE /\ SlotOf(new, k - 1) # buf.in_offs
                    /\ SlotOf(new, k - 1) = SlotOf(buf, k - 1)
    <3>1. k # buf.in_offs + 1 => k \in 1..EntryCount(buf)
      BY <1>1, <2>1
    <3>. QED
      BY <1>1, <1>2, <1>6, <2>3, <3>1
  <2>. QED
    BY <1>6, <2>1, <2>2, <2>4 DEF new
<1>. QED
  BY <1>1, <1>5, <1>6

(* A process in aesd_write, its write_buf and the device.                  *)
LEMMA WriterFacts ==
  ASSUME IInv, NEW p \in Procs, pc[p] \in Writing
  PROVE  /\ mod = "live" /\ call[p].file \in opened
         /\ call[p].data \in Seq(Byte) /\ mem[call[p].wbuf] = call[p].data
         /\ call[p].wbuf \in live
         /\ call[p].wbuf \notin EntryPtrs \union WorkingPtrs
<1>1. call[p] \in Frames /\ call[p].file \in opened /\ call[p].wbuf # Null
  BY OneFrame DEF FrameOK, Writing
<1>2. mod = "live" /\ EntriesOwned /\ WorkingOwned /\ WriteBufsOwned
  BY <1>1, HeapParts
<1>3. call[p].wbuf \in WriteBufs
  BY <1>1 DEF WriteBufs
<1>4. call[p].wbuf \notin EntryPtrs \union WorkingPtrs
  BY <1>2, <1>3 DEF EntryPtrs, EntriesOwned, WorkingPtrs, WorkingOwned
<1>5. call[p].data \in Seq(Byte)
  BY <1>1 DEF Frames
<1>6. mem[call[p].wbuf] = call[p].data /\ call[p].wbuf \in live
  BY <1>1, <1>2 DEF WriteBufsOwned
<1>. QED
  BY <1>1, <1>2, <1>4, <1>5, <1>6

(* kfree(write_buf) is no concern of the device.                           *)
LEMMA FreeWriteBufViews ==
  ASSUME IInv, NEW p \in Procs, pc[p] \in Writing, FreeWriteBuf(p)
  PROVE  \A b \in EntryPtrs \union WorkingPtrs : mem'[b] = mem[b]
<1>1. mod = "live" /\ call[p].wbuf \notin EntryPtrs \union WorkingPtrs
  BY WriterFacts
<1>2. \A b \in EntryPtrs : b \in Blocks
  BY <1>1, DeviceBlocks DEF EntryPtrs
<1>3. \A b \in WorkingPtrs : b \in Blocks
  BY <1>1, DeviceBlocks DEF WorkingPtrs
<1>. QED
  BY <1>1, <1>2, <1>3 DEF FreeWriteBuf, Scrub

(* A step that leaves buffer and the blocks of its entries alone.          *)
LEMMA CommandsKept ==
  ASSUME IInv, mod # "unloaded", buffer' = buffer,
         \A b \in EntryPtrs : mem'[b] = mem[b]
  PROVE  Commands' = Commands
<1>1. ASSUME NEW k \in 1..EntryCount(buffer)
      PROVE  mem'[Contents(buffer)[k].buffptr] = mem[Contents(buffer)[k].buffptr]
  <2>1. Contents(buffer)[k] = buffer.entry[SlotOf(buffer, k - 1)]
    BY DEF Contents
  <2>2. SlotOf(buffer, k - 1) \in InUse(buffer)
    BY DeviceBlocks, SlotOfShape
  <2>. QED
    BY <2>1, <2>2, DeviceBlocks
<1>. QED
  BY <1>1 DEF Commands

(***************************************************************************)
(* krealloc moves the incomplete command as it is, unless its block was    *)
(* lost before: then nothing but garbage takes its place.                  *)
(***************************************************************************)
LEMMA ReallocViews ==
  ASSUME IInv, NEW p \in Procs, WriteRealloc(p)
  PROVE  /\ Commands' = Commands
         /\ working'.buffptr # Null
         /\ Pending' \in Seq(Byte)
         /\ working.buffptr # Null \/ working.size = 0 => Pending' = Pending
         /\ working.buffptr = Null => \A j \in 1..Len(Pending') : Pending'[j] = Garbage
<1>. DEFINE old   == working.buffptr
            bytes == IF old = Null THEN <<>> ELSE mem[old]
            k     == BytesToWrite(call[p].data)
            n     == working.size + k
<1>1. PICK q \in FreeBlocks \union ({old} \ {Null}) :
        /\ working' = [working EXCEPT !.buffptr = q]
        /\ mem' = [Scrub(mem, {old}) EXCEPT ![q] = Resize(bytes, n)]
  BY DEF WriteRealloc
<1>2. pc[p] = "write_realloc" /\ pc[p] \in Writing /\ buffer' = buffer
  BY DEF WriteRealloc, Writing
<1>3. mod = "live" /\ call[p].data \in Seq(Byte) /\ call[p].file \in opened
  BY <1>2, WriterFacts
<1>4. k \in Nat
  BY <1>3, BytesToWriteRange, LenProperties
<1>5. /\ mem \in [Blocks -> Seq(Byte)] /\ working \in Entries /\ working.size \in Nat
      /\ live \subseteq Blocks
  BY <1>3, DeviceBlocks DEF Entries
<1>6. EntriesOwned /\ WorkingOwned
  BY <1>3, HeapParts
<1>7. old # Null => old \in Blocks /\ Len(mem[old]) = working.size
  <2>1. \A r \in Procs : pc[r] # "write_copy"
    BY <1>2, OnlyHolder DEF Critical
  <2>. QED
    BY <1>5, <1>6, <2>1 DEF WorkingOwned
<1>8. /\ q \in Blocks /\ q # Null /\ q \notin EntryPtrs /\ old \notin EntryPtrs
  <2>1. EntryPtrs \subseteq live /\ EntryPtrs \intersect WorkingPtrs = {} /\ Null \notin EntryPtrs
    BY <1>5, <1>6, HeapAssumption DEF EntriesOwned, EntryPtrs
  <2>. QED
    BY <1>7, <2>1, HeapAssumption DEF FreeBlocks, WorkingPtrs
<1>. HIDE DEF k, n, bytes
<1>9. /\ working'.buffptr = q /\ working'.size = working.size
      /\ mem'[q] = Resize(bytes, n)
      /\ \A b \in Blocks : b # q /\ b # old => mem'[b] = mem[b]
  BY <1>1, <1>5, <1>8 DEF Scrub, Entries
<1>10. Commands' = Commands
  <2>1. \A b \in EntryPtrs : b \in Blocks
    BY <1>3, DeviceBlocks DEF EntryPtrs
  <2>2. \A b \in EntryPtrs : mem'[b] = mem[b]
    BY <1>8, <1>9, <2>1
  <2>. QED
    BY <1>2, <1>3, <2>2, CommandsKept
<1>11. n \in Nat /\ working.size <= n
  BY <1>4, <1>5 DEF n
<1>12. bytes \in Seq(Byte)
  BY <1>5, <1>7, EmptySeq DEF bytes
<1>13. /\ Resize(bytes, n) \in Seq(Byte) /\ Len(Resize(bytes, n)) = n
       /\ \A i \in 1..n : Resize(bytes, n)[i] = IF i <= Len(bytes) THEN bytes[i] ELSE Garbage
  <2>1. \A i \in 1..n : Resize(bytes, n)[i] = IF i <= Len(bytes) THEN bytes[i] ELSE Garbage
    BY DEF Resize
  <2>. QED
    BY <1>11, <1>12, <2>1, ResizeType
<1>. DEFINE new == Resize(bytes, n)
<1>14. Pending' = SubSeq(new, 1, working.size)
  BY <1>8, <1>9 DEF Pending
<1>. HIDE DEF new
<1>15. /\ Pending' \in Seq(Byte) /\ Len(Pending') = working.size
       /\ \A i \in 1..working.size : Pending'[i] = new[i]
  <2>1. \A i \in 1..working.size : new[i] \in Byte
    BY <1>5, <1>11, <1>13, ElementOfSeq DEF new
  <2>. QED
    BY <1>5, <1>14, <2>1, SubSeqProperties
<1>16. ASSUME NEW i \in 1..working.size
       PROVE  Pending'[i] = IF i <= Len(bytes) THEN bytes[i] ELSE Garbage
  BY <1>5, <1>11, <1>13, <1>15 DEF new
<1>17. /\ Pending \in Seq(Byte)
       /\ Len(Pending) = IF old = Null THEN 0 ELSE working.size
       /\ \A j \in 1..Len(Pending) : Pending[j] = mem[old][j]
  BY <1>3, PendingView
<1>18. ASSUME old # Null \/ working.size = 0
       PROVE  Pending' = Pending
  <2>1. Len(Pending) = working.size
    BY <1>17, <1>18
  <2>2. ASSUME NEW i \in 1..working.size
        PROVE  Pending'[i] = Pending[i]
    <3>1. old # Null
      BY <1>5, <1>18
    <3>2. bytes = mem[old] /\ Len(bytes) = working.size
      BY <1>7, <3>1 DEF bytes
    <3>3. i <= Len(bytes)
      BY <1>5, <3>2
    <3>. QED
      BY <1>16, <1>17, <2>1, <3>2, <3>3
  <2>. QED
    BY <1>15, <1>17, <2>1, <2>2, SeqEqual
<1>19. ASSUME old = Null, NEW j \in 1..Len(Pending')
       PROVE  Pending'[j] = Garbage
  <2>1. Len(bytes) = 0
    BY <1>19, EmptySeq DEF bytes
  <2>2. j \in 1..working.size /\ ~(j <= Len(bytes))
    BY <1>5, <1>15, <2>1
  <2>. QED
    BY <1>16, <2>2
<1>. QED
  BY <1>8, <1>9, <1>10, <1>15, <1>18, <1>19

(* A krealloc that fails takes the incomplete command with it.             *)
LEMMA ReallocFailsViews ==
  ASSUME IInv, NEW p \in Procs, WriteReallocFails(p)
  PROVE  /\ Commands' = Commands /\ Pending' = <<>>
         /\ working.buffptr # Null => leaked' # {} /\ May("krealloc")
         /\ leaked \subseteq leaked'
         /\ working'.size = working.size /\ working'.buffptr = Null
<1>1. /\ pc[p] = "write_realloc" /\ pc[p] \in Writing /\ buffer' = buffer
      /\ FreeWriteBuf(p) /\ working' = [working EXCEPT !.buffptr = Null]
      /\ leaked' = leaked \union ({working.buffptr} \ {Null})
      /\ May("krealloc") \/ FreeBlocks \union ({working.buffptr} \ {Null}) = {}
  BY DEF WriteReallocFails, Writing
<1>2. mod = "live" /\ working \in Entries
  BY <1>1, WriterFacts DEF IInv, TypeOK
<1>3. working'.buffptr = Null /\ working'.size = working.size
  BY <1>1, <1>2 DEF Entries
<1>4. Pending' = <<>>
  BY <1>3 DEF Pending
<1>5. Commands' = Commands
  BY <1>1, <1>2, FreeWriteBufViews, CommandsKept
<1>. QED
  BY <1>1, <1>3, <1>4, <1>5

(* The bytes of working_entry's block after the copy.                      *)
LEMMA CopiedBytes ==
  ASSUME IInv, NEW p \in Procs, WriteCopy(p)
  PROVE  LET b == working.buffptr
             n == BytesToWrite(call[p].data)
         IN  /\ mem'[b] = Pending \o SubSeq(call[p].data, 1, n)
             /\ mem'[b] \in Seq(Byte) /\ Len(mem'[b]) = working.size + n
<1>. DEFINE b == working.buffptr
            w == call[p].wbuf
            d == call[p].data
            n == BytesToWrite(d)
            entry == [working EXCEPT !.size = @ + n]
            line  == NewlineAt(d) # 0
            freed == {w} \union (IF line THEN {Overwritten(buffer)} \ {Null} ELSE {})
<1>1. pc[p] = "write_copy" /\ pc[p] \in Writing
  BY DEF WriteCopy, Writing
<1>2. mod = "live" /\ d \in Seq(Byte) /\ mem[w] = d /\ call[p].file \in opened
  BY <1>1, WriterFacts
<1>3. EntriesOwned /\ WorkingOwned
  BY <1>2, HeapParts
<1>4. b # Null /\ b \in live /\ Len(mem[b]) = working.size + n
  BY <1>1, <1>3 DEF WorkingOwned
<1>5. /\ mem \in [Blocks -> Seq(Byte)] /\ working \in Entries /\ working.size \in Nat
      /\ b \in Blocks /\ mem[b] \in Seq(Byte)
  BY <1>2, <1>4, DeviceBlocks DEF Entries
<1>6. n \in 0..Len(d) /\ Len(d) \in Nat
  BY <1>2, BytesToWriteRange, LenProperties
<1>7. b \notin freed
  <2>1. w # b
    BY <1>1, <1>4, WriterFacts DEF WorkingPtrs
  <2>2. buffer.full => buffer.in_offs \in InUse(buffer)
    <3>1. buffer \in Buffers
      BY <1>2, DeviceBlocks
    <3>. QED
      BY <3>1 DEF Buffers, InUse
  <2>3. Overwritten(buffer) # b
    BY <1>3, <1>4, <2>2 DEF Overwritten, EntriesOwned, WorkingPtrs
  <2>. QED
    BY <2>1, <2>3
<1>8. mem' = Scrub([mem EXCEPT ![entry.buffptr] = Memcpy(mem[entry.buffptr], working.size, mem[w], n)],
                   freed)
  BY DEF WriteCopy
<1>. HIDE DEF n, freed
<1>9. entry.buffptr = b
  BY <1>5 DEF Entries
<1>10. mem'[b] = Memcpy(mem[b], working.size, d, n)
  <2>. DEFINE x == Memcpy(mem[b], working.size, d, n)
  <2>1. mem' = Scrub([mem EXCEPT ![b] = x], freed)
    BY <1>2, <1>8, <1>9
  <2>. HIDE DEF x
  <2>2. mem'[b] = x
    BY <1>5, <1>7, <2>1 DEF Scrub
  <2>. QED
    BY <2>2 DEF x
<1>11. Memcpy(mem[b], working.size, d, n) = SubSeq(mem[b], 1, working.size) \o SubSeq(d, 1, n)
  BY <1>2, <1>4, <1>5, <1>6, MemcpyAppends
<1>12. Pending = SubSeq(mem[b], 1, working.size)
  BY <1>4 DEF Pending
<1>13. /\ Memcpy(mem[b], working.size, d, n) \in Seq(Byte)
       /\ Len(Memcpy(mem[b], working.size, d, n)) = Len(mem[b])
  BY <1>2, <1>5, <1>6, MemcpyType
<1>. QED
  BY <1>4, <1>10, <1>11, <1>12, <1>13 DEF n

(* The end of a write without a newline appends to the incomplete command. *)
LEMMA CopyPartialViews ==
  ASSUME IInv, NEW p \in Procs, WriteCopy(p), NewlineAt(call[p].data) = 0
  PROVE  Commands' = Commands /\ Pending' = Pending \o call[p].data
<1>. DEFINE w     == call[p].wbuf
            b     == working.buffptr
            d     == call[p].data
            n     == BytesToWrite(d)
            entry == [working EXCEPT !.size = @ + n]
<1>1. /\ b # Null
      /\ buffer' = buffer /\ working' = entry
      /\ \A x \in live \ {w} : x # b => mem'[x] = mem[x]
  BY WriteCopyCommon
<1>2. pc[p] \in Writing
  BY DEF WriteCopy, Writing
<1>3. /\ mod = "live" /\ d \in Seq(Byte) /\ call[p].file \in opened
      /\ w \notin EntryPtrs \union WorkingPtrs
  BY <1>2, WriterFacts
<1>4. n = Len(d) /\ Len(d) \in Nat
  BY <1>3, LenProperties DEF BytesToWrite
<1>5. EntryPtrs \subseteq live /\ b \notin EntryPtrs
  <2>1. EntriesOwned
    BY <1>3, HeapParts
  <2>. QED
    BY <1>1, <2>1 DEF EntriesOwned, EntryPtrs, WorkingPtrs
<1>6. Commands' = Commands
  <2>1. \A x \in EntryPtrs : mem'[x] = mem[x]
    BY <1>1, <1>3, <1>5
  <2>. QED
    BY <1>1, <1>3, <2>1, CommandsKept
<1>7. working'.buffptr = b /\ working'.size = working.size + n
  <2>1. working \in Entries
    BY DEF IInv, TypeOK
  <2>. QED
    BY <1>1, <2>1 DEF Entries
<1>8. /\ mem'[b] = Pending \o SubSeq(d, 1, n)
      /\ mem'[b] \in Seq(Byte) /\ Len(mem'[b]) = working.size + n
  BY CopiedBytes
<1>9. Pending' = SubSeq(mem'[b], 1, Len(mem'[b]))
  BY <1>1, <1>7, <1>8 DEF Pending
<1>10. SubSeq(d, 1, n) = d
  BY <1>3, <1>4, SubSeqFull
<1>. QED
  BY <1>6, <1>8, <1>9, <1>10, SubSeqFull

(***************************************************************************)
(* The end of a write with a newline completes the command, which becomes  *)
(* the newest; if the ring was full, the oldest is gone.                   *)
(***************************************************************************)
LEMMA CopyLineViews ==
  ASSUME IInv, NEW p \in Procs, WriteCopy(p), NewlineAt(call[p].data) # 0
  PROVE  LET x == Pending \o SubSeq(call[p].data, 1, BytesToWrite(call[p].data))
         IN  /\ Commands' = Log!LastN(Append(Commands, x))
             /\ x \in Seq(Byte)
             /\ Pending' = <<>> /\ working' = ZeroEntry
<1>. DEFINE w     == call[p].wbuf
            b     == working.buffptr
            d     == call[p].data
            n     == BytesToWrite(d)
            x     == Pending \o SubSeq(d, 1, n)
            entry == [working EXCEPT !.size = @ + n]
            freed == {w} \union ({Overwritten(buffer)} \ {Null})
            j     == buffer.in_offs
            a     == Log!LastN(Append(Commands, x))
<1>1. /\ b # Null /\ entry \in Entries /\ entry.buffptr = b
      /\ buffer' = AddEntry(buffer, entry) /\ working' = ZeroEntry
      /\ \A y \in live \ freed : y # b => mem'[y] = mem[y]
  BY WriteCopyCommon
<1>2. pc[p] \in Writing
  BY DEF WriteCopy, Writing
<1>3. /\ mod = "live" /\ call[p].file \in opened
      /\ w \notin EntryPtrs \union WorkingPtrs
  BY <1>2, WriterFacts
<1>4. mem'[b] = x /\ x \in Seq(Byte)
  BY CopiedBytes
<1>. HIDE DEF x, entry, n
<1>5. buffer \in Buffers /\ RingShape(buffer) /\ j \in Slots /\ buffer.full \in BOOLEAN
  BY <1>3, DeviceBlocks DEF Buffers
<1>6. EntriesOwned /\ Null \notin live
  BY <1>3, HeapParts
<1>7. /\ EntryCount(buffer') = IF buffer.full THEN N ELSE EntryCount(buffer) + 1
      /\ EntryCount(buffer) = N <=> buffer.full
      /\ \A k \in 1..EntryCount(buffer') :
           IF k = EntryCount(buffer') THEN SlotOf(buffer', k - 1) = j
           ELSE /\ SlotOf(buffer', k - 1) # j
                /\ SlotOf(buffer', k - 1) = SlotOf(buffer, (IF buffer.full THEN k + 1 ELSE k) - 1)
  BY <1>1, <1>5, AddEntryOrder
<1>8. buffer'.entry = [buffer.entry EXCEPT ![j] = entry]
  BY <1>1, <1>5, AddEntryShape
<1>9. /\ buffer'.entry[j] = entry
      /\ \A i \in Slots : i # j => buffer'.entry[i] = buffer.entry[i]
  BY <1>5, <1>8 DEF Buffers
<1>10. ASSUME NEW i \in InUse(buffer), i # j
       PROVE  mem'[buffer'.entry[i].buffptr] = mem[buffer.entry[i].buffptr]
  <2>1. i \in Slots /\ buffer.entry[i].buffptr \in EntryPtrs
    BY <1>3, DeviceBlocks
  <2>2. buffer.entry[i].buffptr \in live /\ buffer.entry[i].buffptr # b
    BY <1>1, <1>6 DEF EntriesOwned, WorkingPtrs
  <2>3. buffer.entry[i].buffptr \notin freed
    <3>1. buffer.full => Overwritten(buffer) = buffer.entry[j].buffptr /\ j \in InUse(buffer)
      BY <1>5 DEF Overwritten, InUse
    <3>2. ~buffer.full => Overwritten(buffer) = Null
      BY DEF Overwritten
    <3>3. buffer.entry[i].buffptr # Overwritten(buffer)
      BY <1>5, <1>6, <1>10, <2>2, <3>1, <3>2 DEF EntriesOwned
    <3>. QED
      BY <1>3, <2>1, <3>3
  <2>. QED
    BY <1>1, <1>9, <1>10, <2>1, <2>2, <2>3
<1>11. /\ Commands \in Seq(Seq(Byte)) /\ Len(Commands) = EntryCount(buffer)
       /\ EntryCount(buffer) \in 0..N /\ N \in Nat
       /\ \A k \in 1..EntryCount(buffer) :
            Commands[k] = mem[buffer.entry[SlotOf(buffer, k - 1)].buffptr]
  <2>1. N \in Nat
    BY NAssumption
  <2>. QED
    BY <1>3, <2>1, CommandsView
<1>12. \A k \in 1..EntryCount(buffer) : SlotOf(buffer, k - 1) \in InUse(buffer)
  BY <1>5, SlotOfShape
<1>13. /\ a \in Seq(Seq(Byte))
       /\ Len(a) = IF Len(Commands) = N THEN N ELSE Len(Commands) + 1
       /\ \A k \in 1..Len(a) :
            a[k] = IF k = Len(a) THEN x
                   ELSE IF Len(Commands) = N THEN Commands[k + 1] ELSE Commands[k]
  <2>1. Len(Commands) <= N
    BY <1>11
  <2>2. Commands \in Seq(Seq(Byte)) /\ x \in Seq(Byte)
    BY <1>4, <1>11
  <2>. DEFINE T == Seq(Byte)
  <2>3. Commands \in Seq(T) /\ x \in T
    BY <2>2
  <2>. HIDE DEF T
  <2>4. /\ a \in Seq(T)
        /\ Len(a) = IF Len(Commands) = N THEN N ELSE Len(Commands) + 1
        /\ \A k \in 1..Len(a) :
             a[k] = IF k = Len(a) THEN x
                    ELSE IF Len(Commands) = N THEN Commands[k + 1] ELSE Commands[k]
    BY <2>1, <2>3, LastNAppend
  <2>. QED
    BY <2>4 DEF T
<1>14. Len(a) = EntryCount(buffer') /\ EntryCount(buffer') \in Nat
  BY <1>7, <1>11, <1>13
<1>. HIDE DEF a, freed
<1>15. ASSUME NEW k \in 1..EntryCount(buffer')
       PROVE  mem'[buffer'.entry[SlotOf(buffer', k - 1)].buffptr] = a[k]
  <2>1. CASE k = EntryCount(buffer')
    BY <1>1, <1>4, <1>7, <1>9, <1>13, <1>14, <2>1
  <2>2. CASE k # EntryCount(buffer')
    <3>. DEFINE m == IF buffer.full THEN k + 1 ELSE k
    <3>. DEFINE count == EntryCount(buffer)
                next  == EntryCount(buffer')
    <3>1. m \in 1..count
      <4>1. /\ count \in 0..N /\ N \in Nat /\ (count = N <=> buffer.full)
            /\ next = IF buffer.full THEN N ELSE count + 1
            /\ k \in 1..next /\ k # next
        BY <1>7, <1>11, <2>2
      <4>. HIDE DEF count, next
      <4>2. CASE buffer.full
        BY <4>1, <4>2
      <4>3. CASE ~buffer.full
        BY <4>1, <4>3
      <4>. QED
        BY <4>2, <4>3
    <3>2. a[k] = Commands[m]
      BY <1>7, <1>11, <1>13, <1>14, <2>2
    <3>3. SlotOf(buffer', k - 1) # j /\ SlotOf(buffer', k - 1) = SlotOf(buffer, m - 1)
      BY <1>7, <2>2
    <3>. HIDE DEF m
    <3>4. SlotOf(buffer, m - 1) \in InUse(buffer)
      BY <1>12, <3>1
    <3>. QED
      BY <1>10, <1>11, <3>1, <3>2, <3>3, <3>4
  <2>. QED
    BY <2>1, <2>2
<1>16. Commands' = a
  <2>1. Commands' = [k \in 1..EntryCount(buffer') |-> mem'[Contents(buffer')[k].buffptr]]
    BY DEF Commands
  <2>2. \A k \in 1..EntryCount(buffer') :
          Contents(buffer')[k] = buffer'.entry[SlotOf(buffer', k - 1)]
    BY DEF Contents
  <2>3. Commands' = [k \in 1..EntryCount(buffer') |-> a[k]]
    BY <1>15, <2>1, <2>2
  <2>4. a = [k \in 1..Len(a) |-> a[k]]
    BY <1>13, LenProperties
  <2>. QED
    BY <1>14, <2>3, <2>4
<1>17. Pending' = <<>>
  BY <1>1 DEF Pending, ZeroEntry
<1>. QED
  BY <1>1, <1>4, <1>16, <1>17 DEF a, x, n

(* A write takes effect as AesdLog says.                                   *)
LEMMA CopyViews ==
  ASSUME IInv, NEW p \in Procs, WriteCopy(p)
  PROVE  /\ Commands' = Log!LogAfter(Commands, Pending, call[p].data)
         /\ Pending' = Log!PendingAfter(Pending, call[p].data)
<1>. DEFINE d == call[p].data
<1>1. d \in Seq(Byte)
  BY WriterFacts DEF WriteCopy, Writing
<1>2. Log!IsLine(d) <=> NewlineAt(d) # 0
  BY <1>1, IsLineNewline
<1>3. Log!FirstLine(d) = SubSeq(d, 1, BytesToWrite(d))
  BY <1>1, FirstLineBytes
<1>4. CASE NewlineAt(d) = 0
  BY <1>2, <1>4, CopyPartialViews DEF Log!LogAfter, Log!PendingAfter
<1>5. CASE NewlineAt(d) # 0
  BY <1>2, <1>3, <1>5, CopyLineViews DEF Log!LogAfter, Log!PendingAfter
<1>. QED
  BY <1>4, <1>5

------------------------------------------------------------------------------
(***************************************************************************)
(* The calls: which of them are writes, and what they were given.          *)
(***************************************************************************)

(* The frame a handler returns with.                                       *)
LEMMA ReturnFrame ==
  ASSUME NEW p, NEW frame, NEW r, Return(p, frame, r)
  PROVE  \E new : Goto(p, "ret", new) /\ new.op = frame.op /\ new.ret = r
<1>. DEFINE new == [Frame(frame.op, frame.file) EXCEPT !.pos = frame.pos, !.ret = r]
<1>1. new.op = frame.op /\ new.ret = r
  BY DEF Frame, NoCall
<1>2. Goto(p, "ret", new)
  BY DEF Return
<1>. HIDE DEF new
<1>. QED
  BY <1>1, <1>2

(* A step of p in a call that is no write, or to or from such a call.      *)
OtherStep(p) ==
  /\ \E label, frame : Goto(p, label, frame) /\ label \notin Writing /\ frame.op # "write"
  /\ call[p].op # "write"
  /\ UNCHANGED <<mod, device, heap>>

LEMMA OtherCall ==
  ASSUME IInv, WriteCalls, NEW p \in Procs, NEW f \in Files,
         \/ \E count \in ReadCounts : ReadCall(p, f, count)
         \/ \E off \in SeekOffsets, whence \in Whences : LlseekCall(p, f, off, whence)
         \/ \E a \in SeekArgs : IoctlCall(p, f, a[1], a[2])
  PROVE  OtherStep(p)
<1>1. pc[p] = "idle" /\ UNCHANGED <<mod, device, heap>>
  BY DEF ReadCall, LlseekCall, IoctlCall, MayCall, vfs
<1>2. call[p].op # "write"
  BY <1>1 DEF WriteCalls, Writing
<1>3. ASSUME NEW count, ReadCall(p, f, count)
      PROVE  \E label, frame : Goto(p, label, frame) /\ label \notin Writing /\ frame.op # "write"
  <2>. DEFINE frame == [Frame("read", f) EXCEPT !.count = count, !.pos = fpos[f]]
  <2>1. frame.op = "read"
    BY DEF Frame, NoCall
  <2>2. Goto(p, "read_lock", frame) \/ Return(p, frame, EINVAL)
    BY <1>3 DEF ReadCall
  <2>. HIDE DEF frame
  <2>. QED
    BY <2>1, <2>2, ReturnFrame DEF Writing
<1>4. ASSUME NEW off, NEW whence, LlseekCall(p, f, off, whence)
      PROVE  \E label, frame : Goto(p, label, frame) /\ label \notin Writing /\ frame.op # "write"
  <2>. DEFINE frame == [Frame("llseek", f) EXCEPT !.arg = off, !.whence = whence]
  <2>1. frame.op = "llseek"
    BY DEF Frame, NoCall
  <2>2. Goto(p, "seek_lock", frame)
    BY <1>4 DEF LlseekCall
  <2>. HIDE DEF frame
  <2>. QED
    BY <2>1, <2>2 DEF Writing
<1>5. ASSUME NEW a, NEW b, IoctlCall(p, f, a, b)
      PROVE  \E label, frame : Goto(p, label, frame) /\ label \notin Writing /\ frame.op # "write"
  <2>. DEFINE frame == [Frame("ioctl", f) EXCEPT !.count = a, !.arg = b]
  <2>1. frame.op = "ioctl"
    BY DEF Frame, NoCall
  <2>2. Goto(p, "ioctl_lock", frame) \/ Return(p, frame, ENOTTY) \/ Return(p, frame, EFAULT)
    BY <1>5 DEF IoctlCall
  <2>. HIDE DEF frame
  <2>. QED
    BY <2>1, <2>2, ReturnFrame DEF Writing
<1>. QED
  BY <1>1, <1>2, <1>3, <1>4, <1>5 DEF OtherStep

LEMMA OtherLock ==
  ASSUME IInv, WriteCalls, NEW p \in Procs, ReadLock(p) \/ LlseekLock(p) \/ IoctlLock(p)
  PROVE  OtherStep(p)
<1>1. pc[p] \in {"read_lock", "seek_lock", "ioctl_lock"} /\ UNCHANGED <<mod, device, heap>>
  BY DEF ReadLock, LlseekLock, IoctlLock, vfs
<1>2. call[p].op # "write" /\ call[p] \in Frames
  BY <1>1, OneFrame DEF WriteCalls, Writing
<1>3. CASE ReadLock(p)
  <2>. DEFINE frame == [call[p] EXCEPT !.idx = buffer.out_offs, !.acc = 0]
  <2>1. frame.op = call[p].op
    BY <1>2 DEF Frames
  <2>2. Goto(p, "read_find", frame) \/ Return(p, call[p], ERESTARTSYS)
    BY <1>3 DEF ReadLock, Finish
  <2>. HIDE DEF frame
  <2>. QED
    BY <1>1, <1>2, <2>1, <2>2, ReturnFrame DEF OtherStep, Writing
<1>4. CASE LlseekLock(p)
  <2>. DEFINE frame == [call[p] EXCEPT !.idx = 0, !.acc = 0]
  <2>1. frame.op = call[p].op
    BY <1>2 DEF Frames
  <2>2. Goto(p, "seek_sum", frame) \/ Return(p, call[p], ERESTARTSYS)
    BY <1>4 DEF LlseekLock, Finish
  <2>. HIDE DEF frame
  <2>. QED
    BY <1>1, <1>2, <2>1, <2>2, ReturnFrame DEF OtherStep, Writing
<1>5. CASE IoctlLock(p)
  <2>1. Goto(p, "ioctl_check", call[p]) \/ Return(p, call[p], ERESTARTSYS)
    BY <1>5 DEF IoctlLock, Finish
  <2>. QED
    BY <1>1, <1>2, <2>1, ReturnFrame DEF OtherStep, Writing
<1>. QED
  BY <1>3, <1>4, <1>5

LEMMA OtherRun ==
  ASSUME IInv, WriteCalls, NEW p \in Procs,
         \/ ReadFindNext(p) \/ ReadFindNone(p) \/ ReadFindEntry(p) \/ ReadCopy(p)
         \/ LlseekSum(p) \/ LlseekTarget(p) \/ LlseekSet(p)
         \/ IoctlCheck(p) \/ IoctlSum(p) \/ IoctlUnlock(p) \/ IoctlSet(p)
  PROVE  OtherStep(p)
<1>. DEFINE c == call[p]
<1>1. /\ pc[p] \in {"read_find", "read_copy", "seek_sum", "seek_set", "ioctl_check", "ioctl_sum",
                   "ioctl_set"}
      /\ UNCHANGED <<mod, device, heap>>
  BY DEF ReadFindNext, ReadFindNone, ReadFindEntry, ReadCopy, LlseekSum, LlseekTarget,
         LlseekSet, IoctlCheck, IoctlSum, IoctlUnlock, IoctlSet, vfs
<1>2. c.op # "write" /\ c \in Frames
  BY <1>1, OneFrame DEF WriteCalls, Writing
<1>3. \A r : Finish(p, r) => OtherStep(p)
  BY <1>1, <1>2, ReturnFrame DEF Finish, OtherStep, Writing
<1>4. ASSUME NEW label, NEW frame, Goto(p, label, frame), label \notin Writing, frame.op = c.op
      PROVE  OtherStep(p)
  BY <1>1, <1>2, <1>4 DEF OtherStep
<1>5. \A i, a : [c EXCEPT !.idx = i, !.acc = a].op = c.op /\ [c EXCEPT !.acc = a].op = c.op
  BY <1>2 DEF Frames
<1>6. CASE ReadFindNext(p)
  <2>. DEFINE frame == [c EXCEPT !.idx = FindNext(c.idx), !.acc = c.acc + buffer.entry[c.idx].size]
  <2>1. Goto(p, "read_find", frame) /\ frame.op = c.op
    BY <1>5, <1>6 DEF ReadFindNext
  <2>. HIDE DEF frame
  <2>. QED
    BY <1>4, <2>1 DEF Writing
<1>7. CASE ReadFindEntry(p)
  <2>. DEFINE frame == [c EXCEPT !.acc = FindByte(buffer, c.idx, c.acc, c.pos)]
  <2>1. Goto(p, "read_copy", frame) /\ frame.op = c.op
    BY <1>5, <1>7 DEF ReadFindEntry
  <2>. HIDE DEF frame
  <2>. QED
    BY <1>4, <2>1 DEF Writing
<1>8. CASE ReadCopy(p)
  <2>. DEFINE entry == buffer.entry[c.idx]
              left  == entry.size - c.acc
              n     == IF left > c.count THEN c.count ELSE left
              frame == [Frame("read", c.file) EXCEPT
                          !.data = SubSeq(mem[entry.buffptr], c.acc + 1, c.acc + n),
                          !.pos = c.pos + n, !.ret = n]
  <2>1. Goto(p, "ret", frame) \/ Finish(p, EFAULT)
    BY <1>8 DEF ReadCopy
  <2>. HIDE DEF n
  <2>2. frame.op = "read"
    BY DEF Frame, NoCall
  <2>. HIDE DEF frame
  <2>. QED
    BY <1>1, <1>2, <1>3, <2>1, <2>2 DEF OtherStep, Writing
<1>9. CASE LlseekSum(p) \/ IoctlSum(p)
  <2>. DEFINE frame == [c EXCEPT !.idx = c.idx + 1, !.acc = c.acc + buffer.entry[c.idx].size]
  <2>1. (Goto(p, "seek_sum", frame) \/ Goto(p, "ioctl_sum", frame)) /\ frame.op = c.op
    BY <1>5, <1>9 DEF LlseekSum, IoctlSum
  <2>. HIDE DEF frame
  <2>. QED
    BY <1>4, <2>1 DEF Writing
<1>10. CASE IoctlCheck(p)
  <2>. DEFINE frame == [c EXCEPT !.idx = 0, !.acc = 0]
  <2>1. Goto(p, "ioctl_sum", frame) \/ Finish(p, EINVAL)
    BY <1>10 DEF IoctlCheck
  <2>2. frame.op = c.op
    BY <1>5
  <2>. HIDE DEF frame
  <2>. QED
    BY <1>3, <1>4, <2>1, <2>2 DEF Writing
<1>11. CASE IoctlUnlock(p)
  BY <1>4, <1>11 DEF IoctlUnlock, Writing
<1>12. CASE ReadFindNone(p) \/ LlseekSet(p) \/ IoctlSet(p)
  BY <1>3, <1>12 DEF ReadFindNone, LlseekSet, IoctlSet
<1>13. CASE LlseekTarget(p)
  <2>. DEFINE frame == [c EXCEPT !.ret = FixedSizeLlseek(fpos[c.file], c.arg, c.whence, c.acc)]
  <2>1. Goto(p, "seek_set", frame)
    BY <1>13 DEF LlseekTarget
  <2>2. frame.op = c.op
    BY <1>2 DEF Frames
  <2>. HIDE DEF frame
  <2>. QED
    BY <1>4, <2>1, <2>2 DEF Writing
<1>. QED
  BY <1>6, <1>7, <1>8, <1>9, <1>10, <1>11, <1>12, <1>13

(* The step of one process, seen from the others.                          *)
LEMMA GotoOthers ==
  ASSUME IInv, NEW p \in Procs, NEW label, NEW frame, Goto(p, label, frame)
  PROVE  /\ pc'[p] = label /\ call'[p] = frame
         /\ \A q \in Procs : q # p => pc'[q] = pc[q] /\ call'[q] = call[q]
BY DEF Goto, IInv, TypeOK

LEMMA GotoWriteCalls ==
  ASSUME IInv, WriteCalls, NEW p \in Procs, NEW label, NEW frame, Goto(p, label, frame),
         label \in Writing => frame.op = "write" /\ frame.data \in UserBufs,
         label \notin Writing \union {"ret"} => frame.op # "write"
  PROVE  WriteCalls'
BY GotoOthers DEF WriteCalls

(* A write returns with frame: an error, or the count it was given.        *)
Fails(p) ==
  \E new : Goto(p, "ret", new) /\ new.op = "write" /\ new.ret \in Int /\ new.ret < 0
Succeeds(p, n) == \E new : Goto(p, "ret", new) /\ new.op = "write" /\ new.ret = n

(* The bytes of the device's blocks stay as they are.                      *)
BlocksKept == \A b \in EntryPtrs \union WorkingPtrs : mem'[b] = mem[b]

(* aesd_write begins: the device is untouched, and the call is a write.    *)
LEMMA WriteCallCases ==
  ASSUME IInv, WriteCalls, NEW p \in Procs, NEW f \in Files, NEW data \in UserBufs,
         WriteCall(p, f, data)
  PROVE  /\ pc[p] = "idle" /\ mod = "live" /\ call[p].op # "write"
         /\ UNCHANGED <<mod, device, leaked>> /\ BlocksKept
         /\ \/ \E new : Goto(p, "write_lock", new) /\ new.op = "write" /\ new.data = data
            \/ Fails(p)
<1>. DEFINE frame == [Frame("write", f) EXCEPT !.data = data, !.pos = fpos[f]]
<1>1. pc[p] = "idle" /\ f \in opened /\ UNCHANGED <<mod, device, leaked>>
  BY DEF WriteCall, MayCall, vfs
<1>2. mod = "live" /\ call[p].op # "write"
  BY <1>1 DEF IInv, Loaded, WriteCalls, Writing
<1>3. frame.op = "write"
  BY DEF Frame, NoCall
<1>4. ASSUME NEW b \in FreeBlocks, mem' = [mem EXCEPT ![b] = data],
             Goto(p, "write_lock", [frame EXCEPT !.wbuf = b])
      PROVE  /\ BlocksKept
             /\ \E new : Goto(p, "write_lock", new) /\ new.op = "write" /\ new.data = data
  <2>1. [frame EXCEPT !.wbuf = b].op = "write" /\ [frame EXCEPT !.wbuf = b].data = data
    BY DEF Frame, NoCall
  <2>2. b \notin EntryPtrs \union WorkingPtrs
    <3>1. EntriesOwned /\ WorkingOwned
      BY <1>1, HeapParts
    <3>. QED
      BY <3>1 DEF FreeBlocks, EntriesOwned, EntryPtrs, WorkingOwned, WorkingPtrs
  <2>3. BlocksKept
    <3>1. mem \in [Blocks -> Seq(Byte)]
      BY DEF IInv, TypeOK
    <3>2. \A x \in EntryPtrs \union WorkingPtrs : x \in Blocks
      BY <1>2, DeviceBlocks DEF EntryPtrs, WorkingPtrs
    <3>. QED
      BY <1>4, <2>2, <3>1, <3>2 DEF BlocksKept
  <2>. QED
    BY <1>4, <2>1, <2>3
<1>5. CASE /\ Return(p, frame, EINVAL) \/ Return(p, frame, ENOMEM) \/ Return(p, frame, EFAULT)
           /\ UNCHANGED <<live, mem>>
  <2>. HIDE DEF frame
  <2>1. /\ EINVAL \in Int /\ ENOMEM \in Int /\ EFAULT \in Int
        /\ EINVAL < 0 /\ ENOMEM < 0 /\ EFAULT < 0
    BY DEF EINVAL, ENOMEM, EFAULT
  <2>2. Fails(p)
    BY <1>3, <1>5, <2>1, ReturnFrame DEF Fails
  <2>. QED
    BY <1>1, <1>2, <1>5, <2>2 DEF BlocksKept
<1>6. \/ \E b \in FreeBlocks : /\ mem' = [mem EXCEPT ![b] = data]
                               /\ Goto(p, "write_lock", [frame EXCEPT !.wbuf = b])
      \/ /\ Return(p, frame, EINVAL) \/ Return(p, frame, ENOMEM) \/ Return(p, frame, EFAULT)
         /\ UNCHANGED <<live, mem>>
  BY DEF WriteCall
<1>. HIDE DEF frame
<1>. QED
  BY <1>1, <1>2, <1>4, <1>5, <1>6

LEMMA WriteLockCases ==
  ASSUME IInv, WriteCalls, NEW p \in Procs, WriteLock(p)
  PROVE  /\ pc[p] = "write_lock" /\ pc[p] \in Writing
         /\ UNCHANGED <<mod, device, leaked>> /\ BlocksKept
         /\ Goto(p, "write_realloc", call[p]) \/ Fails(p)
<1>1. pc[p] = "write_lock" /\ pc[p] \in Writing /\ UNCHANGED <<mod, device, leaked>>
  BY DEF WriteLock, Writing, vfs
<1>2. CASE Goto(p, "write_realloc", call[p]) /\ UNCHANGED <<live, mem>>
  BY <1>1, <1>2 DEF BlocksKept
<1>3. CASE Finish(p, ERESTARTSYS) /\ FreeWriteBuf(p)
  <2>1. call[p].op = "write"
    BY <1>1 DEF WriteCalls
  <2>2. ERESTARTSYS \in Int /\ ERESTARTSYS < 0
    BY DEF ERESTARTSYS
  <2>3. Fails(p)
    BY <1>3, <2>1, <2>2, ReturnFrame DEF Finish, Fails
  <2>. QED
    BY <1>1, <1>3, <2>3, FreeWriteBufViews DEF BlocksKept
<1>. QED
  BY <1>2, <1>3 DEF WriteLock

LEMMA WriteReallocCases ==
  ASSUME IInv, WriteCalls, NEW p \in Procs, WriteRealloc(p)
  PROVE  /\ pc[p] \in Writing /\ UNCHANGED <<mod, leaked>>
         /\ Goto(p, "write_copy", call[p])
BY DEF WriteRealloc, Writing, vfs

LEMMA WriteReallocFailsCases ==
  ASSUME IInv, WriteCalls, NEW p \in Procs, WriteReallocFails(p)
  PROVE  pc[p] \in Writing /\ UNCHANGED mod /\ Fails(p)
<1>1. pc[p] \in Writing /\ UNCHANGED mod /\ Finish(p, ENOMEM)
  BY DEF WriteReallocFails, Writing, vfs
<1>2. call[p].op = "write" /\ ENOMEM \in Int /\ ENOMEM < 0
  BY <1>1 DEF WriteCalls, ENOMEM
<1>. QED
  BY <1>1, <1>2, ReturnFrame DEF Finish, Fails

LEMMA WriteCopyCases ==
  ASSUME IInv, WriteCalls, NEW p \in Procs, WriteCopy(p)
  PROVE  pc[p] \in Writing /\ UNCHANGED <<mod, leaked>> /\ Succeeds(p, Len(call[p].data))
<1>. DEFINE c == call[p]
            frame == [c EXCEPT !.pos = @ + Len(c.data)]
<1>1. pc[p] \in Writing /\ UNCHANGED <<mod, leaked>> /\ Return(p, frame, Len(c.data))
  BY DEF WriteCopy, Writing, vfs
<1>2. c.op = "write" /\ c \in Frames
  BY <1>1, OneFrame DEF WriteCalls
<1>3. frame.op = "write"
  BY <1>2 DEF Frames
<1>. HIDE DEF frame
<1>. QED
  BY <1>1, <1>3, ReturnFrame DEF Succeeds

(* Every step keeps WriteCalls.                                            *)
LEMMA WriteCallsStep ==
  ASSUME IInv, WriteCalls, [Next]_vars
  PROVE  WriteCalls'
<1>1. CASE UNCHANGED <<pc, call>>
  BY <1>1 DEF WriteCalls
<1>2. ASSUME NEW p \in Procs, OtherStep(p)
      PROVE  WriteCalls'
  BY <1>2, GotoWriteCalls DEF OtherStep
<1>3. ASSUME NEW p \in Procs, Fails(p) \/ \E n : Succeeds(p, n)
      PROVE  WriteCalls'
  <2>1. PICK new : Goto(p, "ret", new)
    BY <1>3 DEF Fails, Succeeds
  <2>. QED
    BY <2>1, GotoWriteCalls DEF Writing
<1>4. ASSUME NEW p \in Procs, VfsReturn(p)
      PROVE  WriteCalls'
  <2>1. Goto(p, "idle", NoCall) /\ NoCall.op = "none"
    BY <1>4 DEF VfsReturn, NoCall
  <2>. QED
    BY <2>1, GotoWriteCalls DEF Writing
<1>5. ASSUME NEW p \in Procs, pc[p] \in Writing, NEW label \in Writing, Goto(p, label, call[p])
      PROVE  WriteCalls'
  <2>1. call[p].op = "write" /\ call[p].data \in UserBufs
    BY <1>5 DEF WriteCalls
  <2>. QED
    BY <1>5, <2>1, GotoWriteCalls
<1>6. ASSUME NEW p \in Procs, NEW f \in Files, NEW data \in UserBufs, WriteCall(p, f, data)
      PROVE  WriteCalls'
  <2>1. CASE Fails(p)
    BY <1>3, <2>1
  <2>2. ASSUME NEW new, Goto(p, "write_lock", new), new.op = "write", new.data = data
        PROVE  WriteCalls'
    BY <2>2, GotoWriteCalls DEF Writing
  <2>. QED
    BY <1>6, <2>1, <2>2, WriteCallCases
<1>7. CASE Module
  BY <1>1, <1>7 DEF Module, InitModule, SetupCdev, CleanupModule, Open, Release
<1>8. ASSUME NEW p \in Procs, Call(p)
      PROVE  WriteCalls'
  BY <1>2, <1>6, <1>8, OtherCall DEF Call
<1>9. ASSUME NEW p \in Procs, Lock(p)
      PROVE  WriteCalls'
  <2>1. CASE WriteLock(p)
    BY <1>3, <1>5, <2>1, WriteLockCases DEF Writing
  <2>. QED
    BY <1>2, <1>9, <2>1, OtherLock DEF Lock
<1>10. ASSUME NEW p \in Procs, Run(p)
       PROVE  WriteCalls'
  <2>1. CASE WriteRealloc(p)
    BY <1>5, <2>1, WriteReallocCases DEF Writing
  <2>2. CASE WriteReallocFails(p)
    BY <1>3, <2>2, WriteReallocFailsCases
  <2>3. CASE WriteCopy(p)
    BY <1>3, <2>3, WriteCopyCases
  <2>. QED
    BY <1>2, <1>4, <1>10, <2>1, <2>2, <2>3, OtherRun DEF Run
<1>. QED
  BY <1>1, <1>7, <1>8, <1>9, <1>10 DEF Next, vars

------------------------------------------------------------------------------
(***************************************************************************)
(* Commands are lines of written bytes.                                    *)
(***************************************************************************)

(* What LineInv says of the views.                                         *)
AllLines(cs, s) ==
  /\ \A k \in 1..Len(cs) : LineSeq(cs[k])
  /\ \A j \in 1..Len(s) : s[j] # Newline

Unmarked(s)     == \A j \in 1..Len(s) : s[j] # Garbage
AllUnmarked(cs) == \A k \in 1..Len(cs) : Unmarked(cs[k])

LEMMA RangeUnmarked ==
  ASSUME NEW s \in Seq(Byte)
  PROVE  Garbage \notin Range(s) <=> Unmarked(s)
<1>1. DOMAIN s = 1..Len(s)
  BY LenProperties
<1>. QED
  BY <1>1 DEF Range, Unmarked

ViewInv ==
  mod # "unloaded" =>
    /\ AllLines(Commands, Pending)
    /\ leaked = {} => AllUnmarked(Commands)
    /\ leaked = {} \/ ~May("krealloc") =>
         /\ Unmarked(Pending)
         /\ working.buffptr = Null => working.size = 0

(* The views tell all that the three parts of LineInv say of the device.   *)
LineFacts == CommandsAreLines /\ EntriesHoldWrittenBytes /\ PendingWritten

LEMMA LineViews == IInv => (LineFacts <=> ViewInv)
<1>. SUFFICES ASSUME IInv PROVE LineFacts <=> ViewInv
  OBVIOUS
<1>. USE DEF LineFacts, ViewInv
<1>1. CASE mod = "unloaded"
  BY <1>1 DEF CommandsAreLines, EntriesHoldWrittenBytes, PendingWritten, Intact
<1>2. CASE mod # "unloaded"
  <2>1. /\ Commands \in Seq(Seq(Byte)) /\ Len(Commands) = EntryCount(buffer)
        /\ Pending \in Seq(Byte)
    BY <1>2, CommandsView, PendingView
  <2>2. \A k \in 1..Len(Commands) : Commands[k] \in Seq(Byte)
    BY <2>1, ElementOfSeq
  <2>3. CommandsAreLines <=> AllLines(Commands, Pending)
    <3>1. \A k \in 1..Len(Commands) :
            LineSeq(Commands[k]) <=> NewlineAt(Commands[k]) = Len(Commands[k]) /\ Commands[k] # <<>>
      BY <2>2, LineSeqNewline
    <3>2. NewlineAt(Pending) = 0 <=> \A j \in 1..Len(Pending) : Pending[j] # Newline
      BY <2>1, LineSeqNewline
    <3>. QED
      BY <1>2, <2>1, <3>1, <3>2 DEF CommandsAreLines, AllLines
  <2>4. EntriesHoldWrittenBytes <=> (leaked = {} => AllUnmarked(Commands))
    <3>1. AllUnmarked(Commands) <=> \A k \in 1..Len(Commands) : Garbage \notin Range(Commands[k])
      BY <2>2, RangeUnmarked DEF AllUnmarked
    <3>2. (\A k \in 1..Len(Commands) : Garbage \notin Range(Commands[k])) <=>
          (\A i \in InUse(buffer) : Garbage \notin Range(mem[buffer.entry[i].buffptr]))
      BY <1>2, EntryIsCommand
    <3>. QED
      BY <1>2, <3>1, <3>2 DEF EntriesHoldWrittenBytes
  <2>5. PendingWritten <=> (leaked = {} \/ ~May("krealloc") =>
                              /\ Unmarked(Pending)
                              /\ working.buffptr = Null => working.size = 0)
    BY <1>2, <2>1, RangeUnmarked DEF PendingWritten, Intact
  <2>. QED
    BY <1>2, <2>3, <2>4, <2>5
<1>. QED
  BY <1>1, <1>2

LEMMA LineViewsNext == (IInv => (LineFacts <=> ViewInv))'
BY LineViews, PTL

(* A step that touches neither the device nor the bytes of its blocks.     *)
Quiet == UNCHANGED <<mod, device, leaked>> /\ BlocksKept

LEMMA QuietViews ==
  ASSUME IInv, mod # "unloaded", Quiet
  PROVE  Commands' = Commands /\ Pending' = Pending
BY ViewsKept DEF Quiet, BlocksKept

LEMMA QuietKeeps ==
  ASSUME IInv, ViewInv, Quiet
  PROVE  ViewInv'
<1>1. CASE mod = "unloaded"
  BY <1>1 DEF ViewInv, Quiet
<1>2. CASE mod # "unloaded"
  <2>1. Commands' = Commands /\ Pending' = Pending
    BY <1>2, QuietViews
  <2>2. UNCHANGED <<mod, working, leaked>>
    BY DEF Quiet, device
  <2>. QED
    BY <1>2, <2>1, <2>2 DEF ViewInv, May
<1>. QED
  BY <1>1, <1>2

(* A device that was just set up holds nothing.                            *)
LEMMA EmptyCount == EntryCount(EmptyBuffer) = 0
<1>1. EmptyBuffer.in_offs = 0 /\ EmptyBuffer.out_offs = 0 /\ EmptyBuffer.full = FALSE
  BY DEF EmptyBuffer
<1>2. N \in Nat \ {0} /\ (0 + N - 0) % N = 0
  BY NAssumption
<1>. QED
  BY <1>1, <1>2 DEF EntryCount

LEMMA EmptyViews ==
  ASSUME buffer' = EmptyBuffer, working' = ZeroEntry
  PROVE  Commands' = <<>> /\ Pending' = <<>>
<1>1. EntryCount(buffer)' = 0
  BY EmptyCount DEF EntryCount
<1>. QED
  BY <1>1 DEF Commands, Pending, ZeroEntry

LEMMA InitModuleViews ==
  ASSUME InitModule
  PROVE  ViewInv'
<1>1. working' = ZeroEntry /\ Commands' = <<>> /\ Pending' = <<>>
  BY EmptyViews DEF InitModule
<1>2. ZeroEntry.size = 0
  BY DEF ZeroEntry
<1>. QED
  BY <1>1, <1>2 DEF ViewInv, AllLines, AllUnmarked, Unmarked

LEMMA SetupCdevViews ==
  ASSUME IInv, ViewInv, SetupCdev
  PROVE  /\ Commands' = Commands /\ Pending' = Pending
         /\ ViewInv'
<1>1. mod # "unloaded" /\ UNCHANGED <<working, leaked>>
  BY DEF SetupCdev, device, heap
<1>2. Commands' = Commands /\ Pending' = Pending
  BY <1>1, ViewsKept DEF SetupCdev, heap
<1>. QED
  BY <1>1, <1>2 DEF ViewInv, May

LEMMA ReallocKeeps ==
  ASSUME IInv, ViewInv, NEW p \in Procs, WriteRealloc(p)
  PROVE  ViewInv'
<1>1. pc[p] \in Writing /\ mod = "live" /\ UNCHANGED <<mod, leaked>>
  BY WriterFacts DEF WriteRealloc, Writing, vfs
<1>2. /\ Commands' = Commands /\ working'.buffptr # Null
      /\ Pending' \in Seq(Byte)
      /\ working.buffptr # Null \/ working.size = 0 => Pending' = Pending
      /\ working.buffptr = Null => \A j \in 1..Len(Pending') : Pending'[j] = Garbage
  BY ReallocViews
<1>3. AllLines(Commands', Pending')
  BY <1>1, <1>2, MarkAssumption DEF ViewInv, AllLines
<1>4. leaked = {} \/ ~May("krealloc") => Unmarked(Pending')
  BY <1>1, <1>2 DEF ViewInv
<1>. QED
  BY <1>1, <1>2, <1>3, <1>4 DEF ViewInv, May

LEMMA ReallocFailsKeeps ==
  ASSUME IInv, ViewInv, NEW p \in Procs, WriteReallocFails(p)
  PROVE  ViewInv'
<1>1. pc[p] \in Writing /\ mod = "live" /\ UNCHANGED mod
  BY WriterFacts DEF WriteReallocFails, Writing, vfs
<1>2. /\ Commands' = Commands /\ Pending' = <<>>
      /\ working.buffptr # Null => leaked' # {} /\ May("krealloc")
      /\ leaked \subseteq leaked'
      /\ working'.size = working.size /\ working'.buffptr = Null
  BY ReallocFailsViews
<1>3. AllLines(Commands', Pending') /\ Unmarked(Pending')
  BY <1>1, <1>2 DEF ViewInv, AllLines, Unmarked
<1>4. leaked' = {} => AllUnmarked(Commands')
  BY <1>1, <1>2 DEF ViewInv
<1>5. leaked' = {} \/ ~May("krealloc") => working'.size = 0
  BY <1>1, <1>2 DEF ViewInv
<1>. QED
  BY <1>1, <1>2, <1>3, <1>4, <1>5 DEF ViewInv, May

LEMMA ConcatUnmarked ==
  ASSUME NEW s \in Seq(Byte), NEW t \in Seq(Byte)
  PROVE  /\ Unmarked(s) /\ Unmarked(t) => Unmarked(s \o t)
         /\ (\A j \in 1..Len(s) : s[j] # Newline) /\ (\A j \in 1..Len(t) : t[j] # Newline) =>
              \A j \in 1..Len(s \o t) : (s \o t)[j] # Newline
         /\ (\A j \in 1..Len(s) : s[j] # Newline) /\ LineSeq(t) => LineSeq(s \o t)
<1>1. /\ Len(s \o t) = Len(s) + Len(t) /\ Len(s) \in Nat /\ Len(t) \in Nat
      /\ \A i \in 1..(Len(s) + Len(t)) :
           (s \o t)[i] = IF i <= Len(s) THEN s[i] ELSE t[i - Len(s)]
  BY ConcatProperties, LenProperties
<1>. QED
  BY <1>1 DEF Unmarked, LineSeq

(* A line more, and the oldest one dropped when there are N.               *)
LEMMA AppendLine ==
  ASSUME NEW cs \in Seq(Seq(Byte)), Len(cs) <= N, NEW x \in Seq(Byte)
  PROVE  LET a == Log!LastN(Append(cs, x))
         IN  /\ LineSeq(x) /\ AllLines(cs, <<>>) => AllLines(a, <<>>)
             /\ Unmarked(x) /\ AllUnmarked(cs) => AllUnmarked(a)
<1>. DEFINE T == Seq(Byte)
            a == Log!LastN(Append(cs, x))
<1>1. cs \in Seq(T) /\ x \in T
  OBVIOUS
<1>. HIDE DEF T
<1>2. /\ Len(a) = IF Len(cs) = N THEN N ELSE Len(cs) + 1
      /\ \A k \in 1..Len(a) :
           a[k] = IF k = Len(a) THEN x ELSE IF Len(cs) = N THEN cs[k + 1] ELSE cs[k]
  BY <1>1, LastNAppend
<1>3. Len(cs) \in Nat /\ N \in Nat
  BY <1>1, LenProperties, NAssumption
<1>. HIDE DEF a
<1>4. ASSUME NEW k \in 1..Len(a)
      PROVE  a[k] = x \/ \E m \in 1..Len(cs) : a[k] = cs[m]
  <2>1. CASE k = Len(a)
    BY <1>2, <2>1
  <2>2. CASE k # Len(a) /\ Len(cs) = N
    <3>1. k + 1 \in 1..Len(cs)
      BY <1>2, <1>3, <2>2
    <3>. QED
      BY <1>2, <2>2, <3>1
  <2>3. CASE k # Len(a) /\ Len(cs) # N
    <3>1. k \in 1..Len(cs)
      BY <1>2, <1>3, <2>3
    <3>. QED
      BY <1>2, <2>3, <3>1
  <2>. QED
    BY <2>1, <2>2, <2>3
<1>5. LineSeq(x) /\ AllLines(cs, <<>>) => AllLines(a, <<>>)
  BY <1>4 DEF AllLines
<1>6. Unmarked(x) /\ AllUnmarked(cs) => AllUnmarked(a)
  BY <1>4 DEF AllUnmarked
<1>. QED
  BY <1>5, <1>6 DEF a

(* What user space passes to write holds no mark, nor does a part of it.   *)
LEMMA DataBytes ==
  ASSUME NEW data \in UserBufs
  PROVE  /\ data \in Seq(Byte) /\ Unmarked(data)
         /\ NewlineAt(data) = 0 => \A j \in 1..Len(data) : data[j] # Newline
         /\ LET t == SubSeq(data, 1, BytesToWrite(data))
            IN  /\ t \in Seq(Byte) /\ Unmarked(t)
                /\ NewlineAt(data) # 0 => LineSeq(t)
<1>. DEFINE n == BytesToWrite(data)
            t == SubSeq(data, 1, n)
<1>1. data \in Seq(Byte) /\ Len(data) \in Nat
  BY ByteAssumption, LenProperties
<1>2. Unmarked(data)
  BY <1>1, RangeUnmarked, MarkAssumption
<1>3. NewlineAt(data) = 0 <=> \A j \in 1..Len(data) : data[j] # Newline
  BY <1>1, LineSeqNewline
<1>4. /\ NewlineAt(data) # 0 => /\ NewlineAt(data) \in 1..Len(data) /\ data[NewlineAt(data)] = Newline
                                /\ \A j \in 1..(NewlineAt(data) - 1) : data[j] # Newline
  BY <1>1, NewlineAtFirst
<1>5. n \in 0..Len(data) /\ (NewlineAt(data) # 0 => n = NewlineAt(data))
  BY <1>1, <1>4 DEF BytesToWrite
<1>6. t \in Seq(Byte) /\ Len(t) = n /\ \A j \in 1..n : t[j] = data[j]
  <2>1. \A j \in 1..n : data[j] \in Byte
    BY <1>1, <1>5, ElementOfSeq
  <2>. HIDE DEF n
  <2>. QED
    BY <1>1, <1>5, <2>1
<1>. HIDE DEF n, t
<1>7. Unmarked(t)
  BY <1>2, <1>5, <1>6 DEF Unmarked
<1>8. NewlineAt(data) # 0 => LineSeq(t)
  BY <1>4, <1>5, <1>6 DEF LineSeq
<1>. QED
  BY <1>1, <1>2, <1>3, <1>6, <1>7, <1>8 DEF t, n

LEMMA CopyKeeps ==
  ASSUME IInv, WriteCalls, ViewInv, NEW p \in Procs, WriteCopy(p)
  PROVE  ViewInv'
<1>. DEFINE data == call[p].data
            t    == SubSeq(data, 1, BytesToWrite(data))
<1>1. /\ pc[p] \in Writing /\ mod = "live" /\ UNCHANGED <<mod, leaked>>
      /\ opened # {}
  BY WriterFacts DEF WriteCopy, Writing, vfs
<1>2. data \in UserBufs
  BY <1>1 DEF WriteCalls
<1>3. /\ data \in Seq(Byte) /\ Unmarked(data)
      /\ NewlineAt(data) = 0 => \A j \in 1..Len(data) : data[j] # Newline
      /\ t \in Seq(Byte) /\ Unmarked(t)
      /\ NewlineAt(data) # 0 => LineSeq(t)
  BY <1>2, DataBytes
<1>4. /\ Commands \in Seq(Seq(Byte)) /\ Pending \in Seq(Byte)
      /\ Len(Commands) = EntryCount(buffer) /\ EntryCount(buffer) \in 0..N
  BY <1>1, CommandsView, PendingView
<1>5. /\ AllLines(Commands, Pending)
      /\ leaked = {} => AllUnmarked(Commands)
      /\ leaked = {} \/ ~May("krealloc") => Unmarked(Pending)
  BY <1>1 DEF ViewInv
<1>6. CASE NewlineAt(data) = 0
  <2>1. Commands' = Commands /\ Pending' = Pending \o data
    BY <1>6, CopyPartialViews
  <2>2. working'.buffptr # Null
    <3>1. pc[p] = "write_copy" /\ working' = [working EXCEPT !.size = @ + BytesToWrite(data)]
      BY <1>6 DEF WriteCopy
    <3>2. WorkingOwned
      BY <1>1, HeapParts
    <3>3. working.buffptr # Null
      BY <3>1, <3>2 DEF WorkingOwned
    <3>4. working \in Entries
      BY DEF IInv, TypeOK
    <3>. QED
      BY <3>1, <3>3, <3>4 DEF Entries
  <2>3. AllLines(Commands', Pending')
    BY <1>3, <1>4, <1>5, <1>6, <2>1, ConcatUnmarked DEF AllLines
  <2>4. leaked = {} \/ ~May("krealloc") => Unmarked(Pending')
    BY <1>3, <1>4, <1>5, <2>1, ConcatUnmarked
  <2>. QED
    BY <1>1, <1>5, <2>1, <2>2, <2>3, <2>4 DEF ViewInv, May
<1>7. CASE NewlineAt(data) # 0
  <2>. DEFINE x == Pending \o t
  <2>1. /\ Commands' = Log!LastN(Append(Commands, x)) /\ x \in Seq(Byte)
        /\ Pending' = <<>> /\ working' = ZeroEntry
    BY <1>7, CopyLineViews
  <2>2. LineSeq(x) /\ (Unmarked(Pending) => Unmarked(x))
    BY <1>3, <1>4, <1>5, <1>7, ConcatUnmarked DEF AllLines
  <2>. HIDE DEF x
  <2>3. AllLines(Commands', <<>>) /\ (Unmarked(x) /\ AllUnmarked(Commands) => AllUnmarked(Commands'))
    <3>1. AllLines(Commands, <<>>)
      BY <1>5 DEF AllLines
    <3>. QED
      BY <1>4, <2>1, <2>2, <3>1, AppendLine
  <2>4. Unmarked(Pending') /\ working'.size = 0
    BY <2>1 DEF Unmarked, ZeroEntry
  <2>. QED
    BY <1>1, <1>5, <2>1, <2>2, <2>3, <2>4 DEF ViewInv, May
<1>. QED
  BY <1>6, <1>7

LEMMA ViewInvStep ==
  ASSUME IInv, WriteCalls, ViewInv, [Next]_vars
  PROVE  ViewInv'
<1>1. CASE UNCHANGED vars
  BY <1>1, QuietKeeps DEF vars, Quiet, BlocksKept, device
<1>2. CASE Module
  <2>1. CASE CleanupModule
    BY <2>1 DEF CleanupModule, ViewInv
  <2>2. ASSUME NEW f \in Files, Open(f) \/ Release(f)
        PROVE  ViewInv'
    BY <2>2, QuietKeeps DEF Open, Release, Quiet, BlocksKept, heap
  <2>. QED
    BY <1>2, <2>1, <2>2, InitModuleViews, SetupCdevViews DEF Module
<1>3. ASSUME NEW p \in Procs, OtherStep(p)
      PROVE  ViewInv'
  BY <1>3, QuietKeeps DEF OtherStep, Quiet, BlocksKept, heap
<1>4. ASSUME NEW p \in Procs, Call(p)
      PROVE  ViewInv'
  <2>1. ASSUME NEW f \in Files, NEW data \in UserBufs, WriteCall(p, f, data)
        PROVE  ViewInv'
    BY <2>1, QuietKeeps, WriteCallCases DEF Quiet
  <2>. QED
    BY <1>3, <1>4, <2>1, OtherCall DEF Call
<1>5. ASSUME NEW p \in Procs, Lock(p)
      PROVE  ViewInv'
  <2>1. CASE WriteLock(p)
    BY <2>1, QuietKeeps, WriteLockCases DEF Quiet
  <2>. QED
    BY <1>3, <1>5, <2>1, OtherLock DEF Lock
<1>6. ASSUME NEW p \in Procs, Run(p)
      PROVE  ViewInv'
  <2>1. CASE VfsReturn(p)
    BY <2>1, QuietKeeps DEF VfsReturn, Quiet, BlocksKept, heap
  <2>. QED
    BY <1>3, <1>6, <2>1, OtherRun, ReallocKeeps, ReallocFailsKeeps, CopyKeeps DEF Run
<1>. QED
  BY <1>1, <1>2, <1>4, <1>5, <1>6 DEF Next

LEMMA LineInvInit == Init => LineInv
<1>. SUFFICES ASSUME Init PROVE LineInv
  OBVIOUS
<1>1. mod = "unloaded"
  BY DEF Init
<1>2. \A p \in Procs : pc[p] \notin Writing /\ call[p].op # "write"
  BY DEF Init, Writing, NoCall
<1>. QED
  BY <1>1, <1>2 DEF LineInv, CommandsAreLines, EntriesHoldWrittenBytes, PendingWritten,
                    Intact, WriteCalls

LEMMA LineInvStep == IInv /\ LineInv /\ [Next]_vars => LineInv'
<1>. SUFFICES ASSUME IInv, LineInv, [Next]_vars PROVE LineInv'
  OBVIOUS
<1>1. LineFacts /\ WriteCalls
  BY DEF LineInv, LineFacts
<1>2. ViewInv' /\ WriteCalls'
  BY <1>1, LineViews, ViewInvStep, WriteCallsStep
<1>3. LineFacts'
  BY <1>2, LineViewsNext, NextStep
<1>. QED
  BY <1>2, <1>3 DEF LineInv, LineFacts

(***************************************************************************)
(* LineInv is inductive relative to IInv.                                  *)
(***************************************************************************)
THEOREM LineInvariance == Spec => []LineInv
<1>. QED
  BY Invariance, LineInvInit, LineInvStep, PTL DEF Spec

(***************************************************************************)
(* However concurrent writes of partial and whole lines interleave, and    *)
(* whatever the kernel lets fail, every entry of the ring is exactly one   *)
(* line and what waits in working_entry holds no newline.                  *)
(***************************************************************************)
THEOREM CommandsStayLines == Spec => []CommandsAreLines
<1>1. LineInv => CommandsAreLines
  BY DEF LineInv
<1>. QED
  BY <1>1, LineInvariance, PTL

(***************************************************************************)
(* "size: Number of bytes stored in buffptr": until a block is lost, all   *)
(* size bytes of each entry were written by somebody; krealloc's fresh     *)
(* bytes never get into the ring.                                          *)
(***************************************************************************)
THEOREM EntriesAreWritten == Spec => []EntriesHoldWrittenBytes
<1>1. LineInv => EntriesHoldWrittenBytes
  BY DEF LineInv
<1>. QED
  BY <1>1, LineInvariance, PTL

------------------------------------------------------------------------------
(***************************************************************************)
(* The driver implements AesdLog.                                          *)
(***************************************************************************)

(* What the refinement mapping gives the variables of AesdLog.             *)
LogView     == IF mod = "live" THEN Commands ELSE <<>>
PendingLog  == IF mod = "live" THEN Pending ELSE <<>>
RequestView == [p \in Procs |-> Request(p)]

(* The request of a process at label with frame c.                         *)
RequestAt(label, c) ==
  IF c.op # "write" THEN Log!NoRequest
  ELSE IF label # "ret" THEN Log!Called(c.data)
  ELSE IF c.ret >= 0 THEN Log!Succeeded ELSE Log!Failed

LEMMA RequestNow ==
  ASSUME NEW p \in Procs
  PROVE  /\ RequestView[p] = RequestAt(pc[p], call[p])
         /\ RequestView'[p] = RequestAt(pc'[p], call'[p])
<1>1. Request(p) = RequestAt(pc[p], call[p])
  <2>1. CASE call[p].op # "write"
    BY <2>1 DEF Request, RequestAt, Log!NoRequest
  <2>2. CASE call[p].op = "write" /\ pc[p] # "ret"
    BY <2>2 DEF Request, RequestAt, Log!Called
  <2>3. CASE call[p].op = "write" /\ pc[p] = "ret"
    BY <2>3 DEF Request, RequestAt, Log!Succeeded, Log!Failed
  <2>. QED
    BY <2>1, <2>2, <2>3
<1>2. Request(p)' = RequestAt(pc'[p], call'[p])
  <2>1. CASE call'[p].op # "write"
    BY <2>1 DEF Request, RequestAt, Log!NoRequest
  <2>2. CASE call'[p].op = "write" /\ pc'[p] # "ret"
    BY <2>2 DEF Request, RequestAt, Log!Called
  <2>3. CASE call'[p].op = "write" /\ pc'[p] = "ret"
    BY <2>3 DEF Request, RequestAt, Log!Succeeded, Log!Failed
  <2>. QED
    BY <2>1, <2>2, <2>3
<1>. QED
  BY <1>1, <1>2 DEF RequestView

(* A step of p changes at most the request of p.                           *)
LEMMA RequestGoto ==
  ASSUME IInv, NEW p \in Procs, NEW label, NEW frame, Goto(p, label, frame)
  PROVE  RequestView' = [RequestView EXCEPT ![p] = RequestAt(label, frame)]
<1>1. /\ pc'[p] = label /\ call'[p] = frame
      /\ \A q \in Procs : q # p => pc'[q] = pc[q] /\ call'[q] = call[q]
  BY GotoOthers
<1>2. \A q \in Procs :
        RequestView'[q] = IF q = p THEN RequestAt(label, frame) ELSE RequestView[q]
  BY <1>1, RequestNow
<1>. QED
  BY <1>2 DEF RequestView

LEMMA RequestSame ==
  ASSUME IInv, NEW p \in Procs, NEW label, NEW frame, Goto(p, label, frame),
         RequestAt(label, frame) = RequestAt(pc[p], call[p])
  PROVE  RequestView' = RequestView
<1>1. /\ RequestView' = [RequestView EXCEPT ![p] = RequestAt(label, frame)]
      /\ RequestView[p] = RequestAt(label, frame)
  BY RequestGoto, RequestNow
<1>. QED
  BY <1>1 DEF RequestView

LEMMA QuietLog ==
  ASSUME IInv, Quiet
  PROVE  LogView' = LogView /\ PendingLog' = PendingLog
<1>1. CASE mod = "live"
  BY <1>1, QuietViews DEF Quiet, LogView, PendingLog
<1>2. CASE mod # "live"
  BY <1>2 DEF Quiet, LogView, PendingLog
<1>. QED
  BY <1>1, <1>2

(* A step that maps to nothing, and those that map to a failure.           *)
LogStep == Log!LogNext \/ UNCHANGED Log!logVars

LEMMA Stutters ==
  ASSUME LogView' = LogView, PendingLog' = PendingLog, RequestView' = RequestView
  PROVE  LogStep
BY DEF LogStep, Log!logVars, LogView, PendingLog, RequestView

LEMMA FailMaps ==
  ASSUME IInv, NEW p \in Procs, Fails(p),
         call[p].op # "write" \/ pc[p] # "ret",
         LogView' = LogView, PendingLog' = PendingLog
  PROVE  LogStep
<1>1. PICK new : Goto(p, "ret", new) /\ new.op = "write" /\ new.ret \in Int /\ new.ret < 0
  BY DEF Fails
<1>2. RequestAt("ret", new) = Log!Failed
  <2>. QED
    BY <1>1 DEF RequestAt
<1>3. RequestView' = [RequestView EXCEPT ![p] = Log!Failed]
  BY <1>1, <1>2, RequestGoto
<1>4. RequestView[p].status \in {"none", "called"}
  <2>1. RequestView[p] = Log!NoRequest \/ RequestView[p] = Log!Called(call[p].data)
    BY RequestNow DEF RequestAt
  <2>. QED
    BY <2>1 DEF Log!NoRequest, Log!Called
<1>5. Log!Fail(p)
  BY <1>3, <1>4 DEF Log!Fail, LogView, PendingLog, RequestView
<1>. QED
  BY <1>5 DEF LogStep, Log!LogNext

(* The steps of a write.                                                   *)
LEMMA WriteCallMaps ==
  ASSUME IInv, WriteCalls, NEW p \in Procs, NEW f \in Files, NEW data \in UserBufs,
         WriteCall(p, f, data)
  PROVE  LogStep
<1>1. /\ pc[p] = "idle" /\ call[p].op # "write" /\ Quiet
      /\ \/ \E new : Goto(p, "write_lock", new) /\ new.op = "write" /\ new.data = data
         \/ Fails(p)
  BY WriteCallCases DEF Quiet
<1>2. LogView' = LogView /\ PendingLog' = PendingLog
  BY <1>1, QuietLog
<1>3. ASSUME NEW new, Goto(p, "write_lock", new), new.op = "write", new.data = data
      PROVE  LogStep
  <2>1. RequestView[p] = Log!NoRequest
    BY <1>1, RequestNow DEF RequestAt
  <2>2. RequestView' = [RequestView EXCEPT ![p] = Log!Called(data)]
    BY <1>3, RequestGoto DEF RequestAt
  <2>3. Log!Begin(p, data)
    BY <1>2, <2>1, <2>2 DEF Log!Begin, LogView, PendingLog, RequestView
  <2>. QED
    BY <2>3 DEF LogStep, Log!LogNext
<1>. QED
  BY <1>1, <1>2, <1>3, FailMaps

LEMMA WriteLockMaps ==
  ASSUME IInv, WriteCalls, NEW p \in Procs, WriteLock(p)
  PROVE  LogStep
<1>1. /\ pc[p] = "write_lock" /\ Quiet
      /\ Goto(p, "write_realloc", call[p]) \/ Fails(p)
  BY WriteLockCases DEF Quiet
<1>2. LogView' = LogView /\ PendingLog' = PendingLog
  BY <1>1, QuietLog
<1>3. CASE Goto(p, "write_realloc", call[p])
  <2>1. RequestAt("write_realloc", call[p]) = RequestAt(pc[p], call[p])
    BY <1>1 DEF RequestAt
  <2>. QED
    BY <1>2, <1>3, <2>1, RequestSame, Stutters
<1>. QED
  BY <1>1, <1>2, <1>3, FailMaps

(* Without a failed krealloc before, the bytes of the line are all there.  *)
LEMMA WriteReallocMaps ==
  ASSUME IInv, WriteCalls, ViewInv, ~May("krealloc"), NEW p \in Procs, WriteRealloc(p)
  PROVE  LogStep
<1>1. /\ pc[p] = "write_realloc" /\ mod = "live" /\ UNCHANGED mod
      /\ Goto(p, "write_copy", call[p])
  BY WriterFacts, WriteReallocCases DEF WriteRealloc, Writing
<1>2. working.buffptr = Null => working.size = 0
  BY <1>1 DEF ViewInv
<1>3. Commands' = Commands /\ Pending' = Pending
  BY <1>2, ReallocViews
<1>4. LogView' = LogView /\ PendingLog' = PendingLog
  BY <1>1, <1>3 DEF LogView, PendingLog
<1>5. RequestAt("write_copy", call[p]) = RequestAt(pc[p], call[p])
  BY <1>1 DEF RequestAt
<1>. QED
  BY <1>1, <1>4, <1>5, RequestSame, Stutters

LEMMA WriteReallocFailsMaps ==
  ASSUME IInv, WriteCalls, ~May("krealloc"), NEW p \in Procs, WriteReallocFails(p)
  PROVE  LogStep
<1>1. pc[p] = "write_realloc" /\ mod = "live" /\ UNCHANGED mod /\ Fails(p)
  BY WriterFacts, WriteReallocFailsCases DEF WriteReallocFails, Writing
<1>2. working.buffptr = Null /\ Commands' = Commands /\ Pending' = <<>>
  BY ReallocFailsViews
<1>3. Pending = <<>>
  BY <1>2 DEF Pending
<1>4. LogView' = LogView /\ PendingLog' = PendingLog
  BY <1>1, <1>2, <1>3 DEF LogView, PendingLog
<1>. QED
  BY <1>1, <1>4, FailMaps

LEMMA WriteCopyMaps ==
  ASSUME IInv, WriteCalls, NEW p \in Procs, WriteCopy(p)
  PROVE  LogStep
<1>. DEFINE data == call[p].data
<1>1. /\ pc[p] = "write_copy" /\ pc[p] \in Writing /\ mod = "live" /\ UNCHANGED mod
      /\ data \in Seq(Byte) /\ Succeeds(p, Len(data))
  BY WriterFacts, WriteCopyCases DEF WriteCopy, Writing
<1>2. call[p].op = "write"
  BY <1>1 DEF WriteCalls
<1>3. /\ LogView' = Log!LogAfter(LogView, PendingLog, data)
      /\ PendingLog' = Log!PendingAfter(PendingLog, data)
  <2>1. /\ Commands' = Log!LogAfter(Commands, Pending, data)
        /\ Pending' = Log!PendingAfter(Pending, data)
    BY CopyViews
  <2>. QED
    BY <1>1, <2>1 DEF LogView, PendingLog
<1>4. RequestView[p] = Log!Called(data)
  BY <1>1, <1>2, RequestNow DEF RequestAt
<1>5. RequestView[p].status = "called" /\ RequestView[p].data = data
  BY <1>4 DEF Log!Called
<1>6. RequestView' = [RequestView EXCEPT ![p] = Log!Succeeded]
  <2>1. PICK new : Goto(p, "ret", new) /\ new.op = "write" /\ new.ret = Len(data)
    BY <1>1 DEF Succeeds
  <2>2. RequestAt("ret", new) = Log!Succeeded
    BY <1>1, <2>1, LenProperties DEF RequestAt
  <2>. QED
    BY <2>1, <2>2, RequestGoto
<1>7. Log!Apply(p)
  BY <1>3, <1>5, <1>6 DEF Log!Apply, LogView, PendingLog, RequestView
<1>. QED
  BY <1>7 DEF LogStep, Log!LogNext

LEMMA VfsReturnMaps ==
  ASSUME IInv, NEW p \in Procs, VfsReturn(p)
  PROVE  LogStep
<1>1. pc[p] = "ret" /\ Goto(p, "idle", NoCall) /\ Quiet
  BY DEF VfsReturn, Quiet, BlocksKept, heap
<1>2. LogView' = LogView /\ PendingLog' = PendingLog
  BY <1>1, QuietLog
<1>3. RequestAt("idle", NoCall) = Log!NoRequest
  BY DEF RequestAt, NoCall
<1>4. CASE call[p].op = "write"
  <2>1. RequestView[p] = Log!Succeeded \/ RequestView[p] = Log!Failed
    BY <1>1, <1>4, RequestNow DEF RequestAt
  <2>2. RequestView[p].status \in {"succeeded", "failed"}
    BY <2>1 DEF Log!Succeeded, Log!Failed
  <2>3. RequestView' = [RequestView EXCEPT ![p] = Log!NoRequest]
    BY <1>1, <1>3, RequestGoto
  <2>4. Log!End(p)
    BY <1>2, <2>2, <2>3 DEF Log!End, LogView, PendingLog, RequestView
  <2>. QED
    BY <2>4 DEF LogStep, Log!LogNext
<1>5. CASE call[p].op # "write"
  <2>1. RequestAt("idle", NoCall) = RequestAt(pc[p], call[p])
    BY <1>3, <1>5 DEF RequestAt
  <2>. QED
    BY <1>1, <1>2, <2>1, RequestSame, Stutters
<1>. QED
  BY <1>4, <1>5

LEMMA OtherMaps ==
  ASSUME IInv, NEW p \in Procs, OtherStep(p)
  PROVE  LogStep
<1>1. call[p].op # "write" /\ Quiet
  BY DEF OtherStep, Quiet, BlocksKept, heap
<1>2. PICK label, frame : Goto(p, label, frame) /\ frame.op # "write"
  BY DEF OtherStep
<1>3. RequestAt(label, frame) = RequestAt(pc[p], call[p])
  BY <1>1, <1>2 DEF RequestAt
<1>. QED
  BY <1>1, <1>2, <1>3, QuietLog, RequestSame, Stutters

(* Loading, unloading, opening and closing.                                *)
LEMMA ModuleMaps ==
  ASSUME IInv, Module
  PROVE  LogStep
<1>1. RequestView' = RequestView
  <2>1. UNCHANGED <<pc, call>>
    BY DEF Module, InitModule, SetupCdev, CleanupModule, Open, Release
  <2>. QED
    BY <2>1, RequestNow DEF RequestView, Request
<1>2. CASE InitModule
  BY <1>1, <1>2, Stutters DEF InitModule, LogView, PendingLog
<1>3. CASE SetupCdev
  <2>1. mod = "init" /\ UNCHANGED device
    BY <1>3 DEF SetupCdev
  <2>2. buffer' = EmptyBuffer /\ working' = ZeroEntry
    BY <2>1 DEF IInv, Loaded, device
  <2>3. LogView' = LogView /\ PendingLog' = PendingLog
    BY <2>1, <2>2, EmptyViews DEF LogView, PendingLog
  <2>. QED
    BY <1>1, <2>3, Stutters
<1>4. CASE CleanupModule
  <2>1. LogView' = <<>> /\ PendingLog' = <<>>
    BY <1>4 DEF CleanupModule, LogView, PendingLog
  <2>2. Log!Forget
    BY <1>1, <2>1 DEF Log!Forget, LogView, PendingLog, RequestView
  <2>. QED
    BY <2>2 DEF LogStep, Log!LogNext
<1>5. ASSUME NEW f \in Files, Open(f) \/ Release(f)
      PROVE  LogStep
  <2>1. Quiet
    BY <1>5 DEF Open, Release, Quiet, BlocksKept, heap
  <2>. QED
    BY <1>1, <2>1, QuietLog, Stutters
<1>. QED
  BY <1>2, <1>3, <1>4, <1>5 DEF Module

LEMMA InitMaps == Init => Log!LogInit
<1>. SUFFICES ASSUME Init PROVE Log!LogInit
  OBVIOUS
<1>1. LogView = <<>> /\ PendingLog = <<>>
  BY DEF Init, LogView, PendingLog
<1>2. \A p \in Procs : RequestView[p] = Log!NoRequest
  BY RequestNow DEF Init, RequestAt, NoCall
<1>. QED
  BY <1>1, <1>2 DEF Log!LogInit, LogView, PendingLog, RequestView

LEMMA NextMaps ==
  IInv /\ LineInv /\ [Next]_vars /\ "krealloc" \notin Faults => [Log!LogNext]_(Log!logVars)
<1>. SUFFICES ASSUME IInv, LineInv, [Next]_vars, ~May("krealloc")  PROVE LogStep
  BY DEF May, LogStep
<1>. WriteCalls /\ ViewInv
  BY LineViews DEF LineInv, LineFacts
<1>1. CASE UNCHANGED vars
  <2>1. Quiet /\ UNCHANGED <<pc, call>>
    BY <1>1 DEF vars, Quiet, BlocksKept, device
  <2>2. RequestView' = RequestView
    BY <2>1 DEF RequestView, Request
  <2>. QED
    BY <2>1, <2>2, QuietLog, Stutters
<1>2. ASSUME NEW p \in Procs, Call(p)
      PROVE  LogStep
  BY <1>2, WriteCallMaps, OtherCall, OtherMaps DEF Call
<1>3. ASSUME NEW p \in Procs, Lock(p)
      PROVE  LogStep
  BY <1>3, WriteLockMaps, OtherLock, OtherMaps DEF Lock
<1>4. ASSUME NEW p \in Procs, Run(p)
      PROVE  LogStep
  BY <1>4, WriteReallocMaps, WriteReallocFailsMaps, WriteCopyMaps, VfsReturnMaps,
     OtherRun, OtherMaps DEF Run
<1>. QED
  BY <1>1, <1>2, <1>3, <1>4, ModuleMaps DEF Next

(***************************************************************************)
(* Refinement: unless krealloc fails, every write takes effect whole and   *)
(* at one moment between its call and its return, or not at all; the ring  *)
(* is the last N lines in the order of those moments.  Steps map to Begin  *)
(* (aesd_write called), Apply (aesd_write_copy), Fail, End (returned),     *)
(* Forget (unloaded) or to nothing.                                        *)
(***************************************************************************)
THEOREM ImplementsLog == "krealloc" \notin Faults => (Spec => WritesAreAtomic)
<1>. SUFFICES ASSUME "krealloc" \notin Faults PROVE Spec => WritesAreAtomic
  OBVIOUS
<1>1. IInv /\ LineInv /\ [Next]_vars => [Log!LogNext]_(Log!logVars)
  BY NextMaps
<1>. QED
  BY <1>1, InitMaps, Invariance, LineInvariance, PTL DEF Spec, WritesAreAtomic, Log!LogSpec

==============================================================================
