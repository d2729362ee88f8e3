--------------------------- MODULE AesdCharProofs ---------------------------
(***************************************************************************)
(* Proofs about AesdChar, for every size of the ring, every number of      *)
(* processes, files and blocks, and every combination of faults.           *)
(***************************************************************************)
EXTENDS AesdChar, SequenceTheorems, WellFoundedInduction, TLAPS

-----------------------------------------------------------------------------
(* A function on 1..n is a sequence of length n.                           *)
LEMMA FunctionIsSeq ==
  ASSUME NEW S, NEW n \in Nat, NEW f \in [1..n -> S]
  PROVE  f \in Seq(S) /\ Len(f) = n
<1>1. f \in Seq(S)
  BY SeqDef
<1>2. DOMAIN f = 1..Len(f) /\ Len(f) \in Nat
  BY <1>1, LenProperties
<1> QED  BY <1>1, <1>2

(* The first newline of a buffer lies in it.                               *)
LEMMA BytesToWriteRange ==
  ASSUME NEW data \in Seq(Byte)
  PROVE  /\ NewlineAt(data) \in 0..Len(data)
         /\ BytesToWrite(data) \in 0..Len(data)
<1> DEFINE I == {i \in 1..Len(data) : data[i] = Newline}
<1>1. Len(data) \in Nat
  BY LenProperties
<1>2. CASE I = {}
  <2>1. NewlineAt(data) = 0
    BY <1>2 DEF NewlineAt, SelectInSeq
  <2> QED  BY <2>1, <1>1 DEF BytesToWrite
<1>3. CASE I # {}
  <2>1. NewlineAt(data) = Min(I)
    BY <1>3 DEF NewlineAt, SelectInSeq
  <2>2. I \subseteq Nat
    BY <1>1
  <2>3. PICK x \in I : \A y \in I : ~(<<y, x>> \in OpToRel(<, Nat))
    BY <2>2, <1>3, WFMin, NatLessThanWellFounded
  <2>4. ASSUME NEW y \in I  PROVE x <= y
    <3>1. <<y, x>> \in OpToRel(<, Nat) <=> y < x
      BY <2>2, Zenon DEF OpToRel
    <3>2. ~(y < x)
      BY <2>3, <3>1, Zenon
    <3> QED  BY <2>2, <3>2
  <2>5. Min(I) \in I
    BY <2>4 DEF Min
  <2> QED  BY <2>1, <2>5, <1>1 DEF BytesToWrite
<1> QED  BY <1>2, <1>3

-----------------------------------------------------------------------------
LEMMA ModN ==
  ASSUME NEW x \in Nat, x < 2 * N
  PROVE  x % N = IF x < N THEN x ELSE x - N
BY NAssumption

(* Advancing an offset wraps at N; the uint8_t never overflows first.      *)
LEMMA AdvanceWraps ==
  ASSUME NEW i \in Slots
  PROVE  /\ Advance(i) = IF i = N - 1 THEN 0 ELSE i + 1
         /\ Advance(i) \in Slots
<1>1. i \in Nat /\ i < N /\ N \in 1..256
  BY NAssumption DEF Slots
<1>2. (i + 1) % 256 = IF i + 1 < 256 THEN i + 1 ELSE 0
  BY <1>1
<1>3. (i + 1) % N = IF i + 1 < N THEN i + 1 ELSE 0
  BY <1>1, ModN
<1>4. 0 % N = 0
  BY <1>1, ModN
<1> QED  BY <1>1, <1>2, <1>3, <1>4 DEF Advance, Slots

LEMMA FindNextInSlots ==
  ASSUME NEW i \in Slots
  PROVE  FindNext(i) \in Slots
<1>1. i \in Nat /\ i < N /\ N \in 1..256
  BY NAssumption DEF Slots
<1>2. (i + 1) % N = IF i + 1 < N THEN i + 1 ELSE 0
  BY <1>1, ModN
<1> QED  BY <1>1, <1>2 DEF FindNext, Slots

(* The slots in use are those below in_offs until the ring is full.        *)
LEMMA InUseShape ==
  ASSUME NEW buf \in Buffers, RingShape(buf)
  PROVE  InUse(buf) = IF buf.full THEN Slots ELSE 0..(buf.in_offs - 1)
<1>1. CASE buf.full
  BY <1>1 DEF InUse
<1>2. CASE ~buf.full
  <2>1. buf.out_offs = 0 /\ buf.in_offs \in Slots
    BY <1>2 DEF RingShape, Buffers
  <2>2. N \in 1..256 /\ Slots = 0..(N - 1)
    BY NAssumption DEF Slots
  <2>3. \A i \in Slots : (i + N - 0) % N = i
    BY <2>2, ModN
  <2>4. InUse(buf) = {i \in Slots : (i + N - 0) % N < (buf.in_offs + N - 0) % N}
    BY <1>2, <2>1 DEF InUse
  <2>5. InUse(buf) = {i \in Slots : i < buf.in_offs}
    BY <2>1, <2>3, <2>4
  <2>6. {i \in Slots : i < buf.in_offs} = 0..(buf.in_offs - 1)
    BY <2>1, <2>2
  <2> QED  BY <1>2, <2>5, <2>6
<1> QED  BY <1>1, <1>2

(***************************************************************************)
(* aesd_circular_buffer_add_entry keeps the shape, fills slot in_offs and  *)
(* leaves every other entry; the slot was in use exactly if the ring was   *)
(* full.                                                                   *)
(***************************************************************************)
LEMMA AddEntryShape ==
  ASSUME NEW buf \in Buffers, RingShape(buf), NEW e \in Entries
  PROVE  LET new == AddEntry(buf, e)
         IN  /\ new \in Buffers
             /\ RingShape(new)
             /\ InUse(new) = InUse(buf) \union {buf.in_offs}
             /\ buf.in_offs \in InUse(buf) <=> buf.full
             /\ new.entry = [buf.entry EXCEPT ![buf.in_offs] = e]
<1> DEFINE new == AddEntry(buf, e)
<1>1. buf.in_offs \in Slots /\ buf.out_offs \in Slots /\ buf.full \in BOOLEAN
  BY DEF Buffers
<1>2. N \in 1..256 /\ Slots = 0..(N - 1)
  BY NAssumption DEF Slots
<1>3. new.entry = [buf.entry EXCEPT ![buf.in_offs] = e]
  BY DEF AddEntry
<1>4. new \in Buffers
  BY <1>1, AdvanceWraps DEF AddEntry, Buffers
<1>5. /\ new.in_offs = Advance(buf.in_offs)
      /\ new.out_offs = IF buf.full THEN Advance(buf.out_offs) ELSE buf.out_offs
      /\ new.full = (buf.full \/ Advance(buf.in_offs) = buf.out_offs)
  BY DEF AddEntry
<1>6. RingShape(new)
  BY <1>1, <1>5 DEF RingShape
<1>7. InUse(new) = InUse(buf) \union {buf.in_offs}
  <2>1. InUse(buf) = IF buf.full THEN Slots ELSE 0..(buf.in_offs - 1)
    BY InUseShape
  <2>2. InUse(new) = IF new.full THEN Slots ELSE 0..(new.in_offs - 1)
    BY <1>4, <1>6, InUseShape
  <2>3. new.in_offs = IF buf.in_offs = N - 1 THEN 0 ELSE buf.in_offs + 1
    BY <1>1, <1>5, AdvanceWraps
  <2>4. CASE buf.full
    BY <2>4, <2>1, <2>2, <1>1, <1>5
  <2>5. CASE ~buf.full
    <3>1. buf.out_offs = 0 /\ InUse(buf) = 0..(buf.in_offs - 1)
      BY <2>5, <2>1 DEF RingShape
    <3>2. new.full <=> buf.in_offs = N - 1
      <4>1. new.full <=> Advance(buf.in_offs) = buf.out_offs
        BY <2>5, <1>5, Zenon
      <4>2. Advance(buf.in_offs) = IF buf.in_offs = N - 1 THEN 0 ELSE buf.in_offs + 1
        BY <1>1, AdvanceWraps
      <4> QED  BY <4>1, <4>2, <3>1, <1>1, <1>2
    <3>3. CASE buf.in_offs = N - 1
      <4>1. InUse(new) = 0..(N - 1)
        BY <3>2, <3>3, <2>2, <1>2
      <4> QED  BY <4>1, <3>1, <3>3, <1>2
    <3>4. CASE buf.in_offs # N - 1
      <4>1. InUse(new) = 0..buf.in_offs
        BY <3>2, <3>4, <2>2, <2>3, <1>1, <1>2
      <4> QED  BY <4>1, <3>1, <1>1, <1>2
    <3> QED  BY <3>3, <3>4
  <2> QED  BY <2>4, <2>5
<1>8. buf.in_offs \in InUse(buf) <=> buf.full
  BY <1>1, <1>2, InUseShape
<1> QED  BY <1>3, <1>4, <1>6, <1>7, <1>8

-----------------------------------------------------------------------------
(***************************************************************************)
(* HeapSound only depends on the device, the heap, the write buffers and   *)
(* who is about to copy.                                                   *)
(***************************************************************************)
LEMMA HeapUntouched ==
  ASSUME HeapSound,
         UNCHANGED <<mod, buffer, working, live, mem, leaked>>,
         \A q \in Procs : call'[q].wbuf = call[q].wbuf,
         \A q \in Procs : call[q].wbuf # Null => call'[q].data = call[q].data,
         \A q \in Procs : pc'[q] = "write_copy" <=> pc[q] = "write_copy",
         \A q \in Procs : pc[q] = "write_copy" => call'[q].data = call[q].data
  PROVE  HeapSound'
<1>1. WriteBufs' = WriteBufs
  BY DEF WriteBufs
<1>2. EntryPtrs' = EntryPtrs /\ WorkingPtrs' = WorkingPtrs
  BY DEF EntryPtrs, WorkingPtrs
<1>3. EntriesOwned => EntriesOwned'
  BY <1>1, <1>2 DEF EntriesOwned
<1>4. WorkingOwned => WorkingOwned'
  BY <1>1 DEF WorkingOwned
<1>5. WriteBufsOwned => WriteBufsOwned'
  BY DEF WriteBufsOwned
<1> QED  BY <1>1, <1>2, <1>3, <1>4, <1>5 DEF HeapSound

(***************************************************************************)
(* A step of p that leaves the device and the heap alone, is neither the   *)
(* end nor the start of "write_copy", takes or gives back the mutex as its *)
(* labels demand and leaves a frame that fits its label.                   *)
(***************************************************************************)
MutexStep(p, label) ==
  \/ (label \in Critical <=> pc[p] \in Critical) /\ mutex' = mutex
  \/ label \in Critical /\ pc[p] \notin Critical /\ MutexLock(p)
  \/ label \notin Critical /\ pc[p] \in Critical /\ MutexUnlock

LEMMA MutexStepHeld ==
  ASSUME TypeOK, MutexHeld, NEW p \in Procs, NEW label \in Labels,
         pc' = [pc EXCEPT ![p] = label], MutexStep(p, label)
  PROVE  MutexHeld' /\ mutex' \in Procs \union {NoProc}
<1>1. pc \in [Procs -> Labels] /\ mutex \in Procs \union {NoProc}
  BY DEF TypeOK
<1>2. NoProc \notin Procs
  BY ProcAssumption
<1>3. CASE (label \in Critical <=> pc[p] \in Critical) /\ mutex' = mutex
  BY <1>1, <1>3 DEF MutexHeld
<1>4. CASE label \in Critical /\ pc[p] \notin Critical /\ MutexLock(p)
  BY <1>1, <1>2, <1>4 DEF MutexHeld, MutexLock
<1>5. CASE label \notin Critical /\ pc[p] \in Critical /\ MutexUnlock
  BY <1>1, <1>2, <1>5 DEF MutexHeld, MutexUnlock
<1> QED  BY <1>3, <1>4, <1>5 DEF MutexStep

LEMMA QuietStep ==
  ASSUME IInv, NEW p \in Procs, NEW label \in Labels, NEW frame \in Frames,
         Goto(p, label, frame),
         UNCHANGED <<mod, opened, device, heap>>,
         fpos' \in [Files -> Nat],
         MutexStep(p, label),
         label # "write_copy", pc[p] # "write_copy",
         frame.wbuf = call[p].wbuf,
         frame.wbuf = Null \/ frame.data = call[p].data,
         FrameOK(label, frame, opened),
         label = "read_copy" => /\ frame.idx \in InUse(buffer)
                                /\ frame.acc < buffer.entry[frame.idx].size
  PROVE  IInv'
<1>1. /\ pc \in [Procs -> Labels] /\ call \in [Procs -> Frames]
      /\ pc' = [pc EXCEPT ![p] = label] /\ call' = [call EXCEPT ![p] = frame]
  BY DEF IInv, TypeOK, Goto
<1>2. UNCHANGED <<mod, opened, buffer, working, live, mem, leaked>>
  BY DEF device, heap
<1>3. MutexHeld' /\ mutex' \in Procs \union {NoProc}
  BY <1>1, MutexStepHeld DEF IInv
<1>4. TypeOK'
  BY <1>1, <1>2, <1>3 DEF IInv, TypeOK
<1>5. RingShape(buffer)' /\ UnusedZero(buffer)' /\ Loaded'
  BY <1>2 DEF IInv, Loaded
<1>6. FramesOK'
  <2> SUFFICES ASSUME NEW q \in Procs
               PROVE  FrameOK(pc'[q], call'[q], opened')
    BY DEF FramesOK
  <2>1. CASE q = p
    BY <1>1, <1>2, <2>1
  <2>2. CASE q # p
    BY <1>1, <1>2, <2>2 DEF IInv, FramesOK
  <2> QED  BY <2>1, <2>2
<1>7. HeapSound'
  <2>1. \A q \in Procs : call'[q].wbuf = call[q].wbuf
    BY <1>1
  <2>2. \A q \in Procs : call[q].wbuf # Null => call'[q].data = call[q].data
    BY <1>1
  <2>3. \A q \in Procs : pc'[q] = "write_copy" <=> pc[q] = "write_copy"
    BY <1>1
  <2>4. \A q \in Procs : pc[q] = "write_copy" => call'[q].data = call[q].data
    BY <1>1
  <2> QED  BY <1>2, <2>1, <2>2, <2>3, <2>4, HeapUntouched DEF IInv
<1>8. ReadTargetValid'
  BY <1>1, <1>2 DEF IInv, ReadTargetValid
<1> QED  BY <1>3, <1>4, <1>5, <1>6, <1>7, <1>8 DEF IInv

-----------------------------------------------------------------------------
(* The frames the handlers build.                                          *)
OpNames == {"none", "read", "write", "llseek", "ioctl"}

LEMMA FrameType ==
  ASSUME NEW o \in OpNames, NEW f \in Files \union {NoFile}
  PROVE  /\ Frame(o, f) \in Frames
         /\ Frame(o, f).op = o /\ Frame(o, f).file = f
         /\ Frame(o, f).wbuf = Null
<1>1. <<>> \in Seq(Byte)
  BY EmptySeq
<1>2. NoCall \in Frames
  BY <1>1 DEF NoCall, Frames, Whences, SEEK_SET
<1>3. Frame(o, f) = [NoCall EXCEPT !.op = o, !.file = f]
  BY DEF Frame
<1> QED  BY <1>2, <1>3 DEF Frames, NoCall, OpNames

LEMMA SlotsNat == Slots \subseteq Nat /\ 0 \in Slots
BY NAssumption DEF Slots

(* Every way to return from a handler that holds no write buffer.          *)
LEMMA ReturnStep ==
  ASSUME IInv, NEW p \in Procs, NEW frame, NEW r \in Int,
         frame.op \in OpNames, frame.file \in opened, frame.pos \in Nat,
         Return(p, frame, r),
         UNCHANGED <<mod, opened, device, heap>>,
         fpos' \in [Files -> Nat],
         MutexStep(p, "ret"),
         pc[p] \notin Writing
  PROVE  IInv'
<1> DEFINE new == [Frame(frame.op, frame.file) EXCEPT !.pos = frame.pos, !.ret = r]
<1>1. opened \subseteq Files
  BY DEF IInv, TypeOK
<1>2. /\ Frame(frame.op, frame.file) \in Frames
      /\ Frame(frame.op, frame.file).file = frame.file
      /\ Frame(frame.op, frame.file).wbuf = Null
  BY <1>1, FrameType
<1>3. new \in Frames /\ new.file = frame.file /\ new.wbuf = Null
  BY <1>2 DEF Frames
<1>4. Goto(p, "ret", new)
  BY DEF Return
<1>5. FrameOK("ret", new, opened)
  BY <1>3 DEF FrameOK, Writing
<1>6. call[p].wbuf = Null /\ pc[p] # "write_copy"
  BY DEF IInv, FramesOK, FrameOK, Writing
<1>7. "ret" \in Labels
  BY DEF Labels
<1> HIDE DEF new
<1> QED  BY <1>3, <1>4, <1>5, <1>6, <1>7, QuietStep

(* What the invariant says of one process.                                 *)
LEMMA OneFrame ==
  ASSUME IInv, NEW p \in Procs
  PROVE  /\ pc[p] \in Labels /\ call[p] \in Frames
         /\ FrameOK(pc[p], call[p], opened)
         /\ opened \subseteq Files /\ fpos \in [Files -> Nat]
         /\ buffer \in Buffers /\ N \in 1..256 /\ Slots = 0..(N - 1)
         /\ pc[p] # "idle" => call[p].file \in opened
BY NAssumption DEF IInv, TypeOK, FramesOK, FrameOK, Slots

-----------------------------------------------------------------------------
(* aesd_read keeps the invariant.                                          *)
LEMMA ReadCallStep ==
  ASSUME IInv, NEW p \in Procs, NEW f \in Files, NEW count \in ReadCounts,
         ReadCall(p, f, count)
  PROVE  IInv'
<1> DEFINE frame == [Frame("read", f) EXCEPT !.count = count, !.pos = fpos[f]]
<1>1. /\ pc[p] = "idle" /\ f \in opened
      /\ UNCHANGED <<mod, opened, device, heap, fpos, mutex>>
  BY DEF ReadCall, MayCall, vfs
<1>2. fpos \in [Files -> Nat] /\ call[p].wbuf = Null
  BY <1>1, OneFrame DEF FrameOK, Writing
<1>3. Frame("read", f) \in Frames /\ Frame("read", f).wbuf = Null
      /\ Frame("read", f).file = f /\ Frame("read", f).op = "read"
  BY FrameType DEF OpNames
<1>4. count \in Nat
  BY ArgAssumption
<1>5. /\ frame \in Frames /\ frame.wbuf = Null /\ frame.file = f
      /\ frame.op = "read" /\ frame.pos \in Nat
  BY <1>2, <1>3, <1>4 DEF Frames
<1> HIDE DEF frame
<1>6. CASE Goto(p, "read_lock", frame)
  <2>1. FrameOK("read_lock", frame, opened)
    BY <1>1, <1>5 DEF FrameOK, Writing
  <2>2. MutexStep(p, "read_lock") /\ "read_lock" \in Labels
    BY <1>1 DEF MutexStep, Critical, Labels
  <2> QED  BY <1>1, <1>2, <1>5, <1>6, <2>1, <2>2, QuietStep
<1>7. CASE Return(p, frame, EINVAL)
  <2>1. MutexStep(p, "ret") /\ pc[p] \notin Writing
    BY <1>1 DEF MutexStep, Critical, Writing
  <2> QED  BY <1>1, <1>2, <1>5, <1>7, <2>1, ReturnStep DEF EINVAL, OpNames
<1> QED  BY <1>6, <1>7 DEF ReadCall, frame

(* mutex_lock_interruptible: a process that gives up holds nothing.        *)
LEMMA InterruptedStep ==
  ASSUME IInv, NEW p \in Procs, pc[p] \in {"read_lock", "seek_lock", "ioctl_lock"},
         Interrupted, Finish(p, ERESTARTSYS),
         UNCHANGED <<vfs, device, heap>>
  PROVE  IInv'
<1>1. UNCHANGED <<mod, opened, device, heap, fpos, mutex>>
  BY DEF Interrupted, vfs
<1>2. /\ fpos \in [Files -> Nat] /\ call[p].file \in opened /\ call[p].pos \in Nat
      /\ call[p].op \in OpNames
  BY OneFrame DEF Frames, OpNames
<1>3. MutexStep(p, "ret") /\ pc[p] \notin Writing
  BY <1>1 DEF MutexStep, Critical, Writing
<1>4. Return(p, call[p], ERESTARTSYS)
  BY DEF Finish
<1> QED  BY <1>1, <1>2, <1>3, <1>4, ReturnStep DEF ERESTARTSYS

LEMMA ReadLockStep ==
  ASSUME IInv, NEW p \in Procs, ReadLock(p)
  PROVE  IInv'
<1> DEFINE c     == call[p]
           first == buffer.out_offs
           frame == [c EXCEPT !.idx = first, !.acc = 0]
<1>1. pc[p] = "read_lock" /\ UNCHANGED <<vfs, device, heap>>
  BY DEF ReadLock
<1>2. CASE MutexLock(p) /\ Goto(p, "read_find", frame)
  <2>1. /\ c \in Frames /\ fpos \in [Files -> Nat] /\ fpos' = fpos
        /\ FrameOK("read_lock", c, opened)
        /\ UNCHANGED <<mod, opened, device, heap>>
    BY <1>1, OneFrame DEF vfs
  <2>2. first \in Slots /\ first \in Nat
    BY OneFrame, SlotsNat DEF Buffers
  <2>3. /\ frame \in Frames /\ frame.wbuf = c.wbuf /\ frame.data = c.data
        /\ frame.file = c.file /\ frame.idx \in Slots /\ frame.acc <= frame.pos
    <3>1. frame = [c EXCEPT !.idx = first, !.acc = 0]
      OBVIOUS
    <3>2. c.pos \in Nat
      BY <2>1 DEF Frames
    <3> HIDE DEF c, first, frame
    <3>3. /\ frame \in Frames /\ frame.wbuf = c.wbuf /\ frame.data = c.data
          /\ frame.file = c.file /\ frame.idx = first /\ frame.acc = 0 /\ frame.pos = c.pos
      BY <2>1, <2>2, <3>1 DEF Frames
    <3> QED  BY <2>2, <3>2, <3>3
  <2> HIDE DEF frame
  <2>4. FrameOK("read_find", frame, opened)
    BY <2>1, <2>3 DEF FrameOK, Writing
  <2>5. MutexStep(p, "read_find") /\ "read_find" \in Labels
    BY <1>1, <1>2 DEF MutexStep, Critical, Labels
  <2> QED  BY <1>1, <1>2, <2>1, <2>3, <2>4, <2>5, QuietStep
<1>3. CASE Interrupted /\ Finish(p, ERESTARTSYS)
  BY <1>1, <1>3, InterruptedStep
<1> QED  BY <1>2, <1>3 DEF ReadLock

LEMMA ReadFindNextStep ==
  ASSUME IInv, NEW p \in Procs, ReadFindNext(p)
  PROVE  IInv'
<1> DEFINE c     == call[p]
           frame == [c EXCEPT !.idx = FindNext(c.idx),
                              !.acc = @ + buffer.entry[c.idx].size]
<1>1. /\ pc[p] = "read_find" /\ ~FindHere(buffer, c.idx, c.acc, c.pos)
      /\ Goto(p, "read_find", frame)
      /\ UNCHANGED <<mod, opened, device, heap, fpos, mutex>>
  BY DEF ReadFindNext, vfs
<1>2. /\ c \in Frames /\ fpos \in [Files -> Nat] /\ FrameOK("read_find", c, opened)
      /\ buffer \in Buffers
  BY <1>1, OneFrame
<1>3. c.idx \in Slots /\ c.acc \in Nat /\ c.pos \in Nat /\ c.acc <= c.pos
  BY <1>2 DEF FrameOK, Frames
<1>4. FindNext(c.idx) \in Slots /\ FindNext(c.idx) \in Nat
  BY <1>3, FindNextInSlots, SlotsNat
<1>5. buffer.entry[c.idx].size \in Nat
  BY <1>2, <1>3 DEF Buffers, Entries
<1>6. c.acc + buffer.entry[c.idx].size <= c.pos
  BY <1>1, <1>3, <1>5 DEF FindHere
<1>7. /\ frame \in Frames /\ frame.wbuf = c.wbuf /\ frame.data = c.data
      /\ frame.file = c.file /\ frame.idx \in Slots /\ frame.acc <= frame.pos
  <2>1. c.acc + buffer.entry[c.idx].size \in Nat
    BY <1>3, <1>5
  <2> DEFINE sum == c.acc + buffer.entry[c.idx].size
             nxt == FindNext(c.idx)
  <2>2. sum \in Nat /\ nxt \in Nat /\ nxt \in Slots /\ sum <= c.pos
    BY <1>4, <1>6, <2>1
  <2>3. frame = [c EXCEPT !.idx = nxt, !.acc = sum]
    OBVIOUS
  <2> HIDE DEF sum, nxt, c, frame
  <2> QED  BY <1>2, <2>2, <2>3 DEF Frames
<1> HIDE DEF frame
<1>8. FrameOK("read_find", frame, opened)
  BY <1>2, <1>7 DEF FrameOK, Writing
<1>9. MutexStep(p, "read_find") /\ "read_find" \in Labels
  BY <1>1 DEF MutexStep, Critical, Labels
<1> QED  BY <1>1, <1>2, <1>7, <1>8, <1>9, QuietStep

LEMMA ReadFindNoneStep ==
  ASSUME IInv, NEW p \in Procs, ReadFindNone(p)
  PROVE  IInv'
<1>1. /\ pc[p] = "read_find" /\ MutexUnlock /\ Return(p, call[p], 0)
      /\ UNCHANGED <<mod, opened, device, heap, fpos>>
  BY DEF ReadFindNone, Finish, vfs
<1>2. /\ fpos \in [Files -> Nat] /\ call[p].file \in opened /\ call[p].pos \in Nat
      /\ call[p].op \in OpNames
  BY <1>1, OneFrame DEF Frames, OpNames
<1>3. MutexStep(p, "ret") /\ pc[p] \notin Writing
  BY <1>1 DEF MutexStep, Critical, Writing
<1> QED  BY <1>1, <1>2, <1>3, ReturnStep

(***************************************************************************)
(* The search succeeds only at an entry in use, since the others are zero. *)
(***************************************************************************)
LEMMA ReadFindEntryStep ==
  ASSUME IInv, NEW p \in Procs, ReadFindEntry(p)
  PROVE  IInv'
<1> DEFINE c     == call[p]
           size  == buffer.entry[c.idx].size
           byte  == FindByte(buffer, c.idx, c.acc, c.pos)
           frame == [c EXCEPT !.acc = byte]
<1>1. /\ pc[p] = "read_find" /\ FindHere(buffer, c.idx, c.acc, c.pos)
      /\ Goto(p, "read_copy", frame)
      /\ UNCHANGED <<mod, opened, device, heap, fpos, mutex>>
  BY DEF ReadFindEntry, vfs
<1>2. /\ c \in Frames /\ fpos \in [Files -> Nat] /\ FrameOK("read_find", c, opened)
      /\ buffer \in Buffers
  BY <1>1, OneFrame
<1>3. c.idx \in Slots /\ c.acc \in Nat /\ c.pos \in Nat /\ c.acc <= c.pos
  BY <1>2 DEF FrameOK, Frames
<1>4. size \in Nat
  BY <1>2, <1>3 DEF Buffers, Entries
<1>5. c.acc + size > c.pos
  BY <1>1 DEF FindHere
<1>6. byte \in Nat /\ byte < size
  BY <1>3, <1>4, <1>5 DEF FindByte
<1>7. c.idx \in InUse(buffer)
  <2>1. size # 0
    BY <1>3, <1>4, <1>5
  <2> QED  BY <2>1, <1>3 DEF IInv, UnusedZero, ZeroEntry
<1>8. /\ frame \in Frames /\ frame.wbuf = c.wbuf /\ frame.data = c.data
      /\ frame.file = c.file /\ frame.idx = c.idx /\ frame.acc < size
  <2> HIDE DEF byte, size, c
  <2> QED  BY <1>2, <1>6 DEF Frames
<1> HIDE DEF frame
<1>9. FrameOK("read_copy", frame, opened)
  BY <1>2, <1>3, <1>8 DEF FrameOK, Writing
<1>10. MutexStep(p, "read_copy") /\ "read_copy" \in Labels
  BY <1>1 DEF MutexStep, Critical, Labels
<1> QED  BY <1>1, <1>2, <1>7, <1>8, <1>9, <1>10, QuietStep

LEMMA ReadCopyStep ==
  ASSUME IInv, NEW p \in Procs, ReadCopy(p)
  PROVE  IInv'
<1> DEFINE c     == call[p]
           entry == buffer.entry[c.idx]
           left  == entry.size - c.acc
           n     == IF left > c.count THEN c.count ELSE left
           bytes == SubSeq(mem[entry.buffptr], c.acc + 1, c.acc + n)
           empty == Frame("read", c.file)
           frame == [empty EXCEPT !.data = bytes, !.pos = c.pos + n, !.ret = n]
<1>1. /\ pc[p] = "read_copy" /\ MutexUnlock
      /\ UNCHANGED <<mod, opened, device, heap, fpos>>
  BY DEF ReadCopy, vfs
<1>2. /\ c \in Frames /\ fpos \in [Files -> Nat] /\ FrameOK("read_copy", c, opened)
      /\ opened \subseteq Files /\ c.file \in opened
  BY <1>1, OneFrame
<1>3. c.idx \in InUse(buffer) /\ c.acc < entry.size
  BY <1>1 DEF IInv, ReadTargetValid
<1>4. c.acc \in Nat /\ c.pos \in Nat /\ c.count \in Nat /\ entry.size \in Nat
  <2>1. c.idx \in Slots
    BY <1>2 DEF FrameOK
  <2> QED  BY <2>1, <1>2, OneFrame DEF Frames, Buffers, Entries
<1>5. n \in Nat /\ c.acc + n <= entry.size
  BY <1>3, <1>4
<1>6. Len(mem[entry.buffptr]) = entry.size /\ mem[entry.buffptr] \in Seq(Byte)
  <2>1. mod = "live"
    BY <1>2 DEF IInv, Loaded
  <2>2. EntriesOwned
    BY <2>1 DEF IInv, HeapSound
  <2>3. entry.buffptr \in live /\ Len(mem[entry.buffptr]) = entry.size
    BY <1>3, <2>2 DEF EntriesOwned
  <2> QED  BY <2>3 DEF IInv, TypeOK
<1>7. bytes \in Seq(Byte)
  <2> DEFINE b == mem[entry.buffptr]
  <2>1. b \in Seq(Byte) /\ Len(b) = entry.size
    BY <1>6
  <2> HIDE DEF c, entry, n, b
  <2>2. \A i \in (c.acc + 1)..(c.acc + n) : i \in 1..Len(b)
    BY <1>4, <1>5, <2>1
  <2>3. \A i \in (c.acc + 1)..(c.acc + n) : b[i] \in Byte
    BY <2>1, <2>2, ElementOfSeq
  <2>4. c.acc + 1 \in Int /\ c.acc + n \in Int
    BY <1>4, <1>5
  <2>5. SubSeq(b, c.acc + 1, c.acc + n) \in Seq(Byte)
    BY <2>3, <2>4, SubSeqProperties
  <2> QED  BY <2>5 DEF b
<1>8. MutexStep(p, "ret") /\ pc[p] \notin Writing /\ "ret" \in Labels
  BY <1>1 DEF MutexStep, Critical, Writing, Labels
<1>9. CASE Goto(p, "ret", frame)
  <2>1. empty \in Frames /\ empty.wbuf = Null /\ empty.file = c.file
    BY <1>2, FrameType DEF OpNames
  <2>2. c.pos + n \in Nat
    BY <1>4, <1>5
  <2>3. frame \in Frames /\ frame.wbuf = Null /\ frame.file = c.file
    <3> DEFINE pos == c.pos + n
    <3>1. frame = [empty EXCEPT !.data = bytes, !.pos = pos, !.ret = n]
      OBVIOUS
    <3> HIDE DEF c, n, bytes, empty, frame, pos
    <3>2. pos \in Nat /\ n \in Int
      BY <1>5, <2>2 DEF pos
    <3> QED  BY <1>7, <2>1, <3>1, <3>2 DEF Frames
  <2> HIDE DEF frame
  <2>4. FrameOK("ret", frame, opened)
    BY <1>2, <2>3 DEF FrameOK, Writing
  <2>5. call[p].wbuf = Null
    BY <1>2 DEF FrameOK, Writing
  <2> QED  BY <1>1, <1>2, <1>8, <1>9, <2>3, <2>4, <2>5, QuietStep
<1>10. CASE Finish(p, EFAULT)
  <2>1. c.op \in OpNames
    BY <1>2 DEF Frames, OpNames
  <2>2. Return(p, c, EFAULT)
    BY <1>10 DEF Finish
  <2> QED  BY <1>1, <1>2, <1>4, <1>8, <2>1, <2>2, ReturnStep DEF EFAULT
<1> QED  BY <1>9, <1>10 DEF ReadCopy

(* The virtual file system stores *f_pos back.                             *)
LEMMA VfsReturnStep ==
  ASSUME IInv, NEW p \in Procs, VfsReturn(p)
  PROVE  IInv'
<1> DEFINE c == call[p]
<1>1. /\ pc[p] = "ret" /\ Goto(p, "idle", NoCall)
      /\ UNCHANGED <<mod, opened, device, heap, mutex>>
      /\ fpos' = fpos \/ fpos' = [fpos EXCEPT ![c.file] = c.pos]
  BY DEF VfsReturn
<1>2. /\ c \in Frames /\ fpos \in [Files -> Nat] /\ FrameOK("ret", c, opened)
      /\ opened \subseteq Files /\ c.file \in opened
  BY <1>1, OneFrame
<1>3. fpos' \in [Files -> Nat] /\ c.wbuf = Null
  BY <1>1, <1>2 DEF Frames, FrameOK, Writing
<1>4. NoCall \in Frames /\ NoCall.wbuf = Null
  BY EmptySeq DEF NoCall, Frames, Whences, SEEK_SET
<1>5. FrameOK("idle", NoCall, opened)
  BY <1>4 DEF FrameOK, Writing
<1>6. MutexStep(p, "idle") /\ "idle" \in Labels
  BY <1>1 DEF MutexStep, Critical, Labels
<1> QED  BY <1>1, <1>3, <1>4, <1>5, <1>6, QuietStep

-----------------------------------------------------------------------------
(* aesd_llseek keeps the invariant.                                        *)
LEMMA LlseekCallStep ==
  ASSUME IInv, NEW p \in Procs, NEW f \in Files, NEW off \in SeekOffsets,
         NEW whence \in Whences, LlseekCall(p, f, off, whence)
  PROVE  IInv'
<1> DEFINE empty == Frame("llseek", f)
           frame == [empty EXCEPT !.arg = off, !.whence = whence]
<1>1. /\ pc[p] = "idle" /\ f \in opened /\ Goto(p, "seek_lock", frame)
      /\ UNCHANGED <<mod, opened, device, heap, fpos, mutex>>
  BY DEF LlseekCall, MayCall, vfs
<1>2. fpos \in [Files -> Nat] /\ call[p].wbuf = Null
  BY <1>1, OneFrame DEF FrameOK, Writing
<1>3. frame \in Frames /\ frame.wbuf = Null /\ frame.file = f
  <2>1. empty \in Frames /\ empty.wbuf = Null /\ empty.file = f
    BY FrameType DEF OpNames
  <2>2. off \in Int
    BY ArgAssumption
  <2> HIDE DEF empty
  <2> QED  BY <2>1, <2>2 DEF Frames
<1> HIDE DEF frame
<1>4. FrameOK("seek_lock", frame, opened)
  BY <1>1, <1>3 DEF FrameOK, Writing
<1>5. MutexStep(p, "seek_lock") /\ "seek_lock" \in Labels
  BY <1>1 DEF MutexStep, Critical, Labels
<1> QED  BY <1>1, <1>2, <1>3, <1>4, <1>5, QuietStep

LEMMA LlseekLockStep ==
  ASSUME IInv, NEW p \in Procs, LlseekLock(p)
  PROVE  IInv'
<1> DEFINE c     == call[p]
           frame == [c EXCEPT !.idx = 0, !.acc = 0]
<1>1. pc[p] = "seek_lock" /\ UNCHANGED <<vfs, device, heap>>
  BY DEF LlseekLock
<1>2. CASE MutexLock(p) /\ Goto(p, "seek_sum", frame)
  <2>1. /\ c \in Frames /\ fpos \in [Files -> Nat] /\ fpos' = fpos
        /\ FrameOK("seek_lock", c, opened)
        /\ UNCHANGED <<mod, opened, device, heap>>
    BY <1>1, OneFrame DEF vfs
  <2>2. /\ frame \in Frames /\ frame.wbuf = c.wbuf /\ frame.data = c.data
        /\ frame.file = c.file /\ frame.idx = 0
    <3> HIDE DEF c
    <3> QED  BY <2>1 DEF Frames
  <2> HIDE DEF frame
  <2>3. FrameOK("seek_sum", frame, opened)
    BY <2>1, <2>2, NAssumption DEF FrameOK, Writing
  <2>4. MutexStep(p, "seek_sum") /\ "seek_sum" \in Labels
    BY <1>1, <1>2 DEF MutexStep, Critical, Labels
  <2> QED  BY <1>1, <1>2, <2>1, <2>2, <2>3, <2>4, QuietStep
<1>3. CASE Interrupted /\ Finish(p, ERESTARTSYS)
  BY <1>1, <1>3, InterruptedStep
<1> QED  BY <1>2, <1>3 DEF LlseekLock

(* The size of a slot.                                                     *)
LEMMA SlotSize ==
  ASSUME IInv, NEW i \in Nat, i < N
  PROVE  buffer.entry[i].size \in Nat
<1>1. i \in Slots
  BY NAssumption DEF Slots
<1> QED  BY <1>1 DEF IInv, TypeOK, Buffers, Entries

LEMMA LlseekSumStep ==
  ASSUME IInv, NEW p \in Procs, LlseekSum(p)
  PROVE  IInv'
<1> DEFINE c     == call[p]
           sum   == c.acc + buffer.entry[c.idx].size
           frame == [c EXCEPT !.idx = @ + 1, !.acc = @ + buffer.entry[c.idx].size]
<1>1. /\ pc[p] = "seek_sum" /\ c.idx < N /\ Goto(p, "seek_sum", frame)
      /\ UNCHANGED <<mod, opened, device, heap, fpos, mutex>>
  BY DEF LlseekSum, vfs
<1>2. /\ c \in Frames /\ fpos \in [Files -> Nat] /\ FrameOK("seek_sum", c, opened)
  BY <1>1, OneFrame
<1>3. c.idx \in Nat /\ c.acc \in Nat
  BY <1>2 DEF Frames
<1>4. sum \in Nat /\ c.idx + 1 \in Nat /\ c.idx + 1 <= N
  BY <1>1, <1>3, SlotSize, NAssumption
<1>5. frame = [c EXCEPT !.idx = c.idx + 1, !.acc = sum]
  OBVIOUS
<1>6. /\ frame \in Frames /\ frame.wbuf = c.wbuf /\ frame.data = c.data
      /\ frame.file = c.file /\ frame.idx = c.idx + 1
  <2> HIDE DEF c, sum, frame
  <2> QED  BY <1>2, <1>4, <1>5 DEF Frames
<1> HIDE DEF frame
<1>7. FrameOK("seek_sum", frame, opened)
  BY <1>2, <1>4, <1>6 DEF FrameOK, Writing
<1>8. MutexStep(p, "seek_sum") /\ "seek_sum" \in Labels
  BY <1>1 DEF MutexStep, Critical, Labels
<1> QED  BY <1>1, <1>2, <1>6, <1>7, <1>8, QuietStep

LEMMA LlseekTargetStep ==
  ASSUME IInv, NEW p \in Procs, LlseekTarget(p)
  PROVE  IInv'
<1> DEFINE c     == call[p]
           pos   == FixedSizeLlseek(fpos[c.file], c.arg, c.whence, c.acc)
           frame == [c EXCEPT !.ret = pos]
<1>1. /\ pc[p] = "seek_sum" /\ mutex' = mutex
      /\ fpos' = IF pos >= 0 THEN [fpos EXCEPT ![c.file] = pos] ELSE fpos
      /\ Goto(p, "seek_set", frame)
      /\ UNCHANGED <<mod, opened, device, heap>>
  BY DEF LlseekTarget
<1>2. /\ c \in Frames /\ fpos \in [Files -> Nat] /\ opened \subseteq Files
      /\ c.file \in opened /\ FrameOK("seek_sum", c, opened)
  BY <1>1, OneFrame
<1>3. c.arg \in Int /\ c.acc \in Nat /\ fpos[c.file] \in Nat
  BY <1>2 DEF Frames
<1>4. pos \in Int
  <2> DEFINE cur == fpos[c.file]
  <2> HIDE DEF c, cur
  <2>1. FixedSizeLlseek(cur, c.arg, c.whence, c.acc) \in Int
    <3>1. CASE c.whence = SEEK_SET
      BY <1>3, <3>1 DEF FixedSizeLlseek, SEEK_SET, SEEK_CUR, SEEK_END, SEEK_DATA
    <3>2. CASE c.whence = SEEK_CUR
      BY <1>3, <3>2 DEF FixedSizeLlseek, SEEK_SET, SEEK_CUR, SEEK_END, SEEK_DATA, cur
    <3>3. CASE c.whence = SEEK_END
      BY <1>3, <3>3 DEF FixedSizeLlseek, SEEK_SET, SEEK_CUR, SEEK_END, SEEK_DATA
    <3>4. CASE c.whence = SEEK_DATA
      BY <1>3, <3>4 DEF FixedSizeLlseek, SEEK_SET, SEEK_CUR, SEEK_END, SEEK_DATA
    <3> QED  BY <1>2, <3>1, <3>2, <3>3, <3>4 DEF Frames, Whences
  <2> QED  BY <2>1 DEF cur
<1> HIDE DEF pos
<1>5. fpos' \in [Files -> Nat]
  BY <1>1, <1>2, <1>4
<1>6. /\ frame \in Frames /\ frame.wbuf = c.wbuf /\ frame.data = c.data
      /\ frame.file = c.file
  <2> HIDE DEF c
  <2> QED  BY <1>2, <1>4 DEF Frames
<1> HIDE DEF frame
<1>7. FrameOK("seek_set", frame, opened)
  BY <1>2, <1>6 DEF FrameOK, Writing
<1>8. MutexStep(p, "seek_set") /\ "seek_set" \in Labels
  BY <1>1 DEF MutexStep, Critical, Labels
<1> QED  BY <1>1, <1>2, <1>5, <1>6, <1>7, <1>8, QuietStep

LEMMA LlseekSetStep ==
  ASSUME IInv, NEW p \in Procs, LlseekSet(p)
  PROVE  IInv'
<1> DEFINE c == call[p]
<1>1. /\ pc[p] = "seek_set" /\ MutexUnlock
      /\ fpos' = IF c.ret >= 0 THEN [fpos EXCEPT ![c.file] = c.ret] ELSE fpos
      /\ Return(p, c, IF c.ret >= 0 THEN c.ret ELSE EINVAL)
      /\ UNCHANGED <<mod, opened, device, heap>>
  BY DEF LlseekSet, Finish
<1>2. /\ c \in Frames /\ fpos \in [Files -> Nat] /\ opened \subseteq Files
      /\ c.file \in opened
  BY <1>1, OneFrame
<1>3. c.op \in OpNames /\ c.pos \in Nat /\ c.ret \in Int
  BY <1>2 DEF Frames, OpNames
<1>4. fpos' \in [Files -> Nat]
  BY <1>1, <1>2, <1>3
<1>5. (IF c.ret >= 0 THEN c.ret ELSE EINVAL) \in Int
  BY <1>3 DEF EINVAL
<1>6. MutexStep(p, "ret") /\ pc[p] \notin Writing
  BY <1>1 DEF MutexStep, Critical, Writing
<1> QED  BY <1>1, <1>2, <1>3, <1>4, <1>5, <1>6, ReturnStep

-----------------------------------------------------------------------------
(* aesd_ioctl keeps the invariant.                                         *)
LEMMA IoctlCallStep ==
  ASSUME IInv, NEW p \in Procs, NEW f \in Files, NEW a \in SeekArgs,
         IoctlCall(p, f, a[1], a[2])
  PROVE  IInv'
<1> DEFINE empty == Frame("ioctl", f)
           frame == [empty EXCEPT !.count = a[1], !.arg = a[2]]
<1>1. /\ pc[p] = "idle" /\ f \in opened
      /\ UNCHANGED <<mod, opened, device, heap, fpos, mutex>>
  BY DEF IoctlCall, MayCall, vfs
<1>2. fpos \in [Files -> Nat] /\ call[p].wbuf = Null
  BY <1>1, OneFrame DEF FrameOK, Writing
<1>3. /\ frame \in Frames /\ frame.wbuf = Null /\ frame.file = f
      /\ frame.arg >= 0 /\ frame.op \in OpNames /\ frame.pos \in Nat
  <2>1. empty \in Frames /\ empty.wbuf = Null /\ empty.file = f
    BY FrameType DEF OpNames
  <2> DEFINE write_cmd == a[1]
             offset    == a[2]
  <2>2. write_cmd \in Nat /\ offset \in Nat
    BY ArgAssumption
  <2>3. frame = [empty EXCEPT !.count = write_cmd, !.arg = offset]
    OBVIOUS
  <2> HIDE DEF empty, frame, write_cmd, offset
  <2>4. offset \in Int
    BY <2>2
  <2>5. frame \in Frames
    BY <2>1, <2>2, <2>3, <2>4 DEF Frames
  <2>6. frame.wbuf = Null /\ frame.file = f /\ frame.arg = offset
    BY <2>1, <2>3 DEF Frames
  <2> QED  BY <2>2, <2>5, <2>6 DEF Frames, OpNames
<1> HIDE DEF frame
<1>4. pc[p] \notin Writing /\ pc[p] \notin Critical /\ pc[p] # "write_copy"
  BY <1>1 DEF Writing, Critical
<1>5. CASE Goto(p, "ioctl_lock", frame)
  <2>1. FrameOK("ioctl_lock", frame, opened)
    BY <1>1, <1>3 DEF FrameOK, Writing
  <2>2. MutexStep(p, "ioctl_lock") /\ "ioctl_lock" \in Labels
    BY <1>1, <1>4 DEF MutexStep, Critical, Labels
  <2> QED  BY <1>1, <1>2, <1>3, <1>4, <1>5, <2>1, <2>2, QuietStep
<1>6. CASE Return(p, frame, ENOTTY) \/ Return(p, frame, EFAULT)
  <2>1. MutexStep(p, "ret")
    BY <1>1, <1>4 DEF MutexStep, Critical
  <2>2. ENOTTY \in Int /\ EFAULT \in Int
    BY DEF ENOTTY, EFAULT
  <2> QED  BY <1>1, <1>2, <1>3, <1>4, <1>6, <2>1, <2>2, ReturnStep
<1> QED  BY <1>5, <1>6 DEF IoctlCall, frame

LEMMA IoctlLockStep ==
  ASSUME IInv, NEW p \in Procs, IoctlLock(p)
  PROVE  IInv'
<1>1. pc[p] = "ioctl_lock" /\ UNCHANGED <<vfs, device, heap>>
  BY DEF IoctlLock
<1>2. CASE MutexLock(p) /\ Goto(p, "ioctl_check", call[p])
  <2>1. /\ call[p] \in Frames /\ fpos \in [Files -> Nat] /\ fpos' = fpos
        /\ FrameOK("ioctl_lock", call[p], opened)
        /\ UNCHANGED <<mod, opened, device, heap>>
    BY <1>1, OneFrame DEF vfs
  <2>2. FrameOK("ioctl_check", call[p], opened)
    BY <2>1 DEF FrameOK, Writing
  <2>3. MutexStep(p, "ioctl_check") /\ "ioctl_check" \in Labels
    BY <1>1, <1>2 DEF MutexStep, Critical, Labels
  <2> QED  BY <1>1, <1>2, <2>1, <2>2, <2>3, QuietStep
<1>3. CASE Interrupted /\ Finish(p, ERESTARTSYS)
  BY <1>1, <1>3, InterruptedStep
<1> QED  BY <1>2, <1>3 DEF IoctlLock

LEMMA IoctlCheckStep ==
  ASSUME IInv, NEW p \in Procs, IoctlCheck(p)
  PROVE  IInv'
<1> DEFINE c     == call[p]
           frame == [c EXCEPT !.idx = 0, !.acc = 0]
<1>1. /\ pc[p] = "ioctl_check" /\ fpos' = fpos
      /\ UNCHANGED <<mod, opened, device, heap>>
  BY DEF IoctlCheck, vfs
<1>2. /\ c \in Frames /\ fpos \in [Files -> Nat] /\ FrameOK("ioctl_check", c, opened)
      /\ c.file \in opened
  BY <1>1, OneFrame
<1>3. CASE /\ SeekAccepted(c.count, c.arg)
           /\ Goto(p, "ioctl_sum", frame)
           /\ UNCHANGED mutex
  <2>1. c.count <= N
    BY <1>3 DEF SeekAccepted
  <2>2. /\ frame \in Frames /\ frame.wbuf = c.wbuf /\ frame.data = c.data
        /\ frame.file = c.file /\ frame.idx = 0 /\ frame.count = c.count
        /\ frame.arg = c.arg
    <3> HIDE DEF c
    <3> QED  BY <1>2 DEF Frames
  <2>3. c.count \in Nat
    BY <1>2 DEF Frames
  <2> HIDE DEF frame
  <2>4. FrameOK("ioctl_sum", frame, opened)
    BY <1>2, <2>1, <2>2, <2>3 DEF FrameOK, Writing
  <2>5. MutexStep(p, "ioctl_sum") /\ "ioctl_sum" \in Labels
    BY <1>1, <1>3 DEF MutexStep, Critical, Labels
  <2> QED  BY <1>1, <1>2, <1>3, <2>2, <2>4, <2>5, QuietStep
<1>4. CASE MutexUnlock /\ Finish(p, EINVAL)
  <2>1. c.op \in OpNames /\ c.pos \in Nat
    BY <1>2 DEF Frames, OpNames
  <2>2. Return(p, c, EINVAL) /\ EINVAL \in Int
    BY <1>4 DEF Finish, EINVAL
  <2>3. MutexStep(p, "ret") /\ pc[p] \notin Writing
    BY <1>1, <1>4 DEF MutexStep, Critical, Writing
  <2> QED  BY <1>1, <1>2, <2>1, <2>2, <2>3, ReturnStep
<1> QED  BY <1>3, <1>4 DEF IoctlCheck

LEMMA IoctlSumStep ==
  ASSUME IInv, NEW p \in Procs, IoctlSum(p)
  PROVE  IInv'
<1> DEFINE c     == call[p]
           sum   == c.acc + buffer.entry[c.idx].size
           frame == [c EXCEPT !.idx = @ + 1, !.acc = @ + buffer.entry[c.idx].size]
<1>1. /\ pc[p] = "ioctl_sum" /\ c.idx < c.count /\ Goto(p, "ioctl_sum", frame)
      /\ UNCHANGED <<mod, opened, device, heap, fpos, mutex>>
  BY DEF IoctlSum, vfs
<1>2. /\ c \in Frames /\ fpos \in [Files -> Nat] /\ FrameOK("ioctl_sum", c, opened)
  BY <1>1, OneFrame
<1>3. c.idx \in Nat /\ c.acc \in Nat /\ c.count \in Nat /\ c.count <= N
  BY <1>2 DEF Frames, FrameOK
<1>4. sum \in Nat /\ c.idx + 1 \in Nat /\ c.idx + 1 <= c.count
  BY <1>1, <1>3, SlotSize, NAssumption
<1>5. frame = [c EXCEPT !.idx = c.idx + 1, !.acc = sum]
  OBVIOUS
<1>6. /\ frame \in Frames /\ frame.wbuf = c.wbuf /\ frame.data = c.data
      /\ frame.file = c.file /\ frame.idx = c.idx + 1 /\ frame.count = c.count
      /\ frame.arg = c.arg
  <2> HIDE DEF c, sum, frame
  <2> QED  BY <1>2, <1>4, <1>5 DEF Frames
<1> HIDE DEF frame
<1>7. FrameOK("ioctl_sum", frame, opened)
  BY <1>2, <1>4, <1>6 DEF FrameOK, Writing
<1>8. MutexStep(p, "ioctl_sum") /\ "ioctl_sum" \in Labels
  BY <1>1 DEF MutexStep, Critical, Labels
<1> QED  BY <1>1, <1>2, <1>6, <1>7, <1>8, QuietStep

LEMMA IoctlUnlockStep ==
  ASSUME IInv, NEW p \in Procs, IoctlUnlock(p)
  PROVE  IInv'
<1>1. /\ pc[p] = "ioctl_sum" /\ MutexUnlock /\ Goto(p, "ioctl_set", call[p])
      /\ UNCHANGED <<mod, opened, device, heap, fpos>>
  BY DEF IoctlUnlock, vfs
<1>2. /\ call[p] \in Frames /\ fpos \in [Files -> Nat]
      /\ FrameOK("ioctl_sum", call[p], opened)
  BY <1>1, OneFrame
<1>3. FrameOK("ioctl_set", call[p], opened)
  BY <1>2 DEF FrameOK, Writing
<1>4. MutexStep(p, "ioctl_set") /\ "ioctl_set" \in Labels
  BY <1>1 DEF MutexStep, Critical, Labels
<1> QED  BY <1>1, <1>2, <1>3, <1>4, QuietStep

LEMMA IoctlSetStep ==
  ASSUME IInv, NEW p \in Procs, IoctlSet(p)
  PROVE  IInv'
<1> DEFINE c == call[p]
<1>1. /\ pc[p] = "ioctl_set" /\ fpos' = [fpos EXCEPT ![c.file] = c.acc + c.arg]
      /\ Return(p, c, 0)
      /\ UNCHANGED <<mod, opened, device, heap, mutex>>
  BY DEF IoctlSet, Finish
<1>2. /\ c \in Frames /\ fpos \in [Files -> Nat] /\ FrameOK("ioctl_set", c, opened)
      /\ opened \subseteq Files /\ c.file \in opened
  BY <1>1, OneFrame
<1>3. c.acc \in Nat /\ c.arg \in Nat /\ c.op \in OpNames /\ c.pos \in Nat
  BY <1>2 DEF Frames, FrameOK, OpNames
<1>4. fpos' \in [Files -> Nat]
  BY <1>1, <1>2, <1>3
<1>5. MutexStep(p, "ret") /\ pc[p] \notin Writing
  BY <1>1 DEF MutexStep, Critical, Writing
<1> QED  BY <1>1, <1>2, <1>3, <1>4, <1>5, ReturnStep

-----------------------------------------------------------------------------
(* Only the holder of the mutex is in a critical section.                  *)
LEMMA OnlyHolder ==
  ASSUME IInv, NEW p \in Procs, pc[p] \in Critical, NEW q \in Procs, q # p
  PROVE  pc[q] \notin Critical
BY DEF IInv, MutexHeld

LEMMA WriteBufsElements ==
  \A x : x \in WriteBufs <=> x # Null /\ \E q \in Procs : x = call[q].wbuf
BY DEF WriteBufs

(* The write buffers after a step of p.                                    *)
LEMMA WriteBufsAfter ==
  ASSUME call \in [Procs -> Frames], NEW p \in Procs, NEW frame \in Frames,
         call' = [call EXCEPT ![p] = frame]
  PROVE  /\ call'[p] = frame
         /\ \A q \in Procs : q # p => call'[q] = call[q]
         /\ \A x : x \in WriteBufs' <=>
                     /\ x # Null
                     /\ x = frame.wbuf \/ \E q \in Procs \ {p} : x = call[q].wbuf
<1>1. call'[p] = frame /\ \A q \in Procs : q # p => call'[q] = call[q]
  OBVIOUS
<1>2. \A x : x \in WriteBufs' <=> x # Null /\ \E q \in Procs : x = call'[q].wbuf
  BY DEF WriteBufs
<1> QED  BY <1>1, <1>2

(* The parts of HeapSound while a file is open.                            *)
LEMMA HeapParts ==
  ASSUME IInv, opened # {}
  PROVE  /\ mod = "live"
         /\ EntriesOwned /\ WorkingOwned /\ WriteBufsOwned
         /\ live = EntryPtrs \union WorkingPtrs \union WriteBufs \union leaked
         /\ Null \notin live
         /\ leaked \subseteq live /\ WriteBufs \subseteq live
BY HeapAssumption DEF IInv, Loaded, HeapSound, TypeOK

(* aesd_write up to the lock: a fresh block joins the write buffers.       *)
LEMMA WriteCallAllocates ==
  ASSUME IInv, NEW p \in Procs, NEW f \in opened, NEW data \in Seq(Byte),
         pc[p] = "idle", NEW b \in FreeBlocks,
         live' = live \union {b}, mem' = [mem EXCEPT ![b] = data],
         NEW frame \in Frames, frame.wbuf = b, frame.data = data, frame.file = f,
         Goto(p, "write_lock", frame),
         UNCHANGED <<mod, opened, fpos, buffer, working, mutex, leaked>>
  PROVE  IInv'
<1>1. /\ TypeOK /\ pc' = [pc EXCEPT ![p] = "write_lock"]
      /\ call' = [call EXCEPT ![p] = frame]
      /\ pc \in [Procs -> Labels] /\ call \in [Procs -> Frames]
      /\ live \subseteq Blocks /\ mem \in [Blocks -> Seq(Byte)]
  BY DEF IInv, TypeOK, Goto
<1>2. b \in Blocks /\ b \notin live /\ b # Null
  BY HeapAssumption DEF FreeBlocks
<1>3. "write_lock" \in Labels /\ MutexStep(p, "write_lock")
  BY DEF Labels, MutexStep, Critical
<1>4. MutexHeld'
  BY <1>1, <1>3, MutexStepHeld DEF IInv
<1>5. TypeOK'
  BY <1>1, <1>2, <1>3 DEF TypeOK
<1>6. RingShape(buffer)' /\ UnusedZero(buffer)' /\ Loaded'
  BY DEF IInv, Loaded
<1>7. FramesOK'
  <2> SUFFICES ASSUME NEW q \in Procs
               PROVE  FrameOK(pc'[q], call'[q], opened')
    BY DEF FramesOK
  <2>1. CASE q = p
    <3>1. FrameOK("write_lock", frame, opened)
      BY <1>2 DEF FrameOK, Writing
    <3> QED  BY <1>1, <2>1, <3>1
  <2>2. CASE q # p
    BY <1>1, <2>2 DEF IInv, FramesOK
  <2> QED  BY <2>1, <2>2
<1>8. HeapSound'
  <2>1. /\ mod = "live"
        /\ EntriesOwned /\ WorkingOwned /\ WriteBufsOwned
        /\ live = EntryPtrs \union WorkingPtrs \union WriteBufs \union leaked
        /\ leaked \subseteq live /\ WriteBufs \subseteq live
    BY HeapParts
  <2>2. call[p].wbuf = Null
    BY OneFrame DEF FrameOK, Writing
  <2>3. /\ call'[p] = frame /\ \A q \in Procs : q # p => call'[q] = call[q]
        /\ \A x : x \in WriteBufs' <=>
             /\ x # Null
             /\ x = frame.wbuf \/ \E q \in Procs \ {p} : x = call[q].wbuf
    BY <1>1, WriteBufsAfter, Zenon
  <2>4. WriteBufs' = WriteBufs \union {b}
    BY <2>2, <2>3, <1>2, WriteBufsElements
  <2>5. EntryPtrs' = EntryPtrs /\ WorkingPtrs' = WorkingPtrs
    BY DEF EntryPtrs, WorkingPtrs
  <2>6. \A x \in live : mem'[x] = mem[x]
    BY <1>1, <1>2
  <2>7. EntriesOwned'
    BY <1>2, <2>1, <2>4, <2>5, <2>6 DEF EntriesOwned
  <2>8. \A q \in Procs : pc'[q] = "write_copy" => pc[q] = "write_copy" /\ call'[q] = call[q]
    BY <1>1, <2>3
  <2>9. WorkingOwned'
    <3>1. \A q \in Procs : pc[q] = "write_copy" => pc'[q] = "write_copy"
      BY <1>1
    <3> QED  BY <1>2, <2>1, <2>4, <2>6, <2>8, <3>1 DEF WorkingOwned
  <2>10. WriteBufsOwned'
    <3> SUFFICES ASSUME NEW q \in Procs, call'[q].wbuf # Null
                 PROVE  /\ call'[q].wbuf \in live' \ leaked'
                        /\ mem'[call'[q].wbuf] = call'[q].data
                        /\ \A r \in Procs \ {q} : call'[r].wbuf # call'[q].wbuf
      BY DEF WriteBufsOwned
    <3>1. \A r \in Procs \ {p} : call[r].wbuf # Null => call[r].wbuf \in live
      BY <2>1 DEF WriteBufsOwned
    <3>2. CASE q = p
      BY <1>1, <1>2, <2>1, <2>3, <3>1, <3>2
    <3>3. CASE q # p
      BY <1>2, <2>1, <2>3, <2>6, <3>1, <3>3 DEF WriteBufsOwned
    <3> QED  BY <3>2, <3>3
  <2> QED  BY <2>1, <2>4, <2>5, <2>7, <2>9, <2>10 DEF HeapSound
<1>9. ReadTargetValid'
  BY <1>1 DEF IInv, ReadTargetValid
<1> QED  BY <1>4, <1>5, <1>6, <1>7, <1>8, <1>9 DEF IInv

LEMMA WriteCallStep ==
  ASSUME IInv, NEW p \in Procs, NEW f \in Files, NEW data \in UserBufs,
         WriteCall(p, f, data)
  PROVE  IInv'
<1> DEFINE empty == Frame("write", f)
           frame == [empty EXCEPT !.data = data, !.pos = fpos[f]]
<1>1. /\ pc[p] = "idle" /\ f \in opened
      /\ UNCHANGED <<mod, opened, buffer, working, fpos, mutex, leaked>>
  BY DEF WriteCall, MayCall, vfs, device
<1>2. data \in Seq(Byte)
  BY ByteAssumption
<1>3. fpos \in [Files -> Nat] /\ fpos[f] \in Nat
  BY OneFrame
<1>4. empty \in Frames /\ empty.wbuf = Null /\ empty.file = f /\ empty.op = "write"
  BY FrameType DEF OpNames
<1> HIDE DEF empty
<1>5. frame \in Frames
  <2> DEFINE pos == fpos[f]
  <2>1. frame = [empty EXCEPT !.data = data, !.pos = pos]
    OBVIOUS
  <2>2. pos \in Nat
    BY <1>3
  <2> HIDE DEF pos, frame
  <2> QED  BY <1>2, <1>4, <2>1, <2>2 DEF Frames
<1>6. frame.data = data /\ frame.file = f /\ frame.op = "write" /\ frame.pos = fpos[f]
  BY <1>4 DEF Frames
<1>7. ASSUME NEW b \in FreeBlocks, live' = live \union {b}, mem' = [mem EXCEPT ![b] = data],
             Goto(p, "write_lock", [frame EXCEPT !.wbuf = b])
      PROVE  IInv'
  <2> DEFINE new == [frame EXCEPT !.wbuf = b]
  <2>1. b \in Blocks \union {Null}
    BY DEF FreeBlocks
  <2>2. new = [frame EXCEPT !.wbuf = b]
    OBVIOUS
  <2> HIDE DEF new, frame
  <2>3. new \in Frames /\ new.wbuf = b /\ new.data = data /\ new.file = f
    BY <1>5, <1>6, <2>1, <2>2 DEF Frames
  <2>4. Goto(p, "write_lock", new)
    BY <1>7, <2>2
  <2> QED  BY <1>1, <1>2, <1>7, <2>3, <2>4, WriteCallAllocates
<1>8. ASSUME UNCHANGED <<live, mem>>,
             \/ Return(p, frame, EINVAL)
             \/ Return(p, frame, ENOMEM)
             \/ Return(p, frame, EFAULT)
      PROVE  IInv'
  <2> HIDE DEF frame
  <2>1. MutexStep(p, "ret") /\ pc[p] \notin Writing
    BY <1>1 DEF MutexStep, Critical, Writing
  <2>2. EINVAL \in Int /\ ENOMEM \in Int /\ EFAULT \in Int
    BY DEF EINVAL, ENOMEM, EFAULT
  <2>3. UNCHANGED <<mod, opened, device, heap>>
    BY <1>1, <1>8 DEF device, heap
  <2>4. frame.op \in OpNames /\ frame.file \in opened /\ frame.pos \in Nat
    BY <1>1, <1>3, <1>6 DEF OpNames
  <2>5. fpos' \in [Files -> Nat]
    BY <1>1, <1>3
  <2> QED  BY <1>8, <2>1, <2>2, <2>3, <2>4, <2>5, ReturnStep
<1> QED  BY <1>7, <1>8 DEF WriteCall, empty

(***************************************************************************)
(* What a returning write leaves of the other calls' buffers.              *)
(***************************************************************************)
LEMMA WriteReturns ==
  ASSUME IInv, NEW p \in Procs, pc[p] \in Writing, NEW frame, NEW r \in Int,
         frame.op \in OpNames, frame.file \in opened, frame.pos \in Nat,
         Return(p, frame, r), UNCHANGED opened, MutexStep(p, "ret")
  PROVE  /\ pc' \in [Procs -> Labels] /\ call' \in [Procs -> Frames]
         /\ MutexHeld' /\ mutex' \in Procs \union {NoProc}
         /\ FramesOK'
         /\ pc'[p] = "ret" /\ call'[p].wbuf = Null
         /\ \A q \in Procs : q # p => pc'[q] = pc[q] /\ call'[q] = call[q]
         /\ \A x : x \in WriteBufs' <=>
              x # Null /\ \E q \in Procs \ {p} : x = call[q].wbuf
<1> DEFINE new == [Frame(frame.op, frame.file) EXCEPT !.pos = frame.pos, !.ret = r]
<1>1. opened \subseteq Files
  BY DEF IInv, TypeOK
<1>2. /\ Frame(frame.op, frame.file) \in Frames
      /\ Frame(frame.op, frame.file).file = frame.file
      /\ Frame(frame.op, frame.file).wbuf = Null
  BY <1>1, FrameType
<1>3. new \in Frames /\ new.file = frame.file /\ new.wbuf = Null
  BY <1>2 DEF Frames
<1>4. "ret" \in Labels
  BY DEF Labels
<1>5. /\ pc' = [pc EXCEPT ![p] = "ret"] /\ call' = [call EXCEPT ![p] = new]
      /\ pc \in [Procs -> Labels] /\ call \in [Procs -> Frames]
  BY DEF Return, Goto, IInv, TypeOK
<1> HIDE DEF new
<1>6. FrameOK("ret", new, opened)
  BY <1>3 DEF FrameOK, Writing
<1>7. FramesOK'
  <2> SUFFICES ASSUME NEW q \in Procs
               PROVE  FrameOK(pc'[q], call'[q], opened')
    BY DEF FramesOK
  <2>1. CASE q = p
    BY <1>5, <1>6, <2>1
  <2>2. CASE q # p
    BY <1>5, <2>2 DEF IInv, FramesOK
  <2> QED  BY <2>1, <2>2
<1>8. MutexHeld' /\ mutex' \in Procs \union {NoProc}
  BY <1>4, <1>5, MutexStepHeld DEF IInv
<1>9. /\ call'[p] = new /\ \A q \in Procs : q # p => call'[q] = call[q]
      /\ \A x : x \in WriteBufs' <=>
           x # Null /\ (x = new.wbuf \/ \E q \in Procs \ {p} : x = call[q].wbuf)
  BY <1>3, <1>5, WriteBufsAfter, Zenon
<1>10. \A x : x \in WriteBufs' <=> x # Null /\ \E q \in Procs \ {p} : x = call[q].wbuf
  BY <1>3, <1>9
<1>11. pc'[p] = "ret" /\ \A q \in Procs : q # p => pc'[q] = pc[q]
  BY <1>5
<1>12. pc' \in [Procs -> Labels] /\ call' \in [Procs -> Frames]
  BY <1>3, <1>4, <1>5
<1> QED  BY <1>3, <1>7, <1>8, <1>9, <1>10, <1>11, <1>12

(***************************************************************************)
(* A write gives its buffer back without having touched the device: on     *)
(* interruption and when krealloc has failed.                              *)
(***************************************************************************)
LEMMA WriteAbandons ==
  ASSUME IInv, NEW p \in Procs, pc[p] \in {"write_lock", "write_realloc"}, NEW r \in Int,
         Return(p, call[p], r), FreeWriteBuf(p), MutexStep(p, "ret"),
         UNCHANGED <<mod, opened, fpos, buffer>>,
         \/ UNCHANGED <<working, leaked>>
         \/ /\ pc[p] = "write_realloc"
            /\ working' = [working EXCEPT !.buffptr = Null]
            /\ leaked' = leaked \union ({working.buffptr} \ {Null})
  PROVE  IInv'
<1> DEFINE w == call[p].wbuf
<1>1. /\ TypeOK /\ pc \in [Procs -> Labels] /\ call \in [Procs -> Frames]
      /\ live \subseteq Blocks /\ mem \in [Blocks -> Seq(Byte)] /\ working \in Entries
      /\ leaked \subseteq Blocks /\ buffer \in Buffers
  BY DEF IInv, TypeOK
<1>2. call[p] \in Frames /\ FrameOK(pc[p], call[p], opened) /\ call[p].file \in opened
  BY OneFrame
<1>3. call[p].op \in OpNames /\ call[p].pos \in Nat /\ w # Null
  BY <1>2 DEF Frames, OpNames, FrameOK, Writing
<1>4. /\ pc' \in [Procs -> Labels] /\ call' \in [Procs -> Frames]
      /\ MutexHeld' /\ mutex' \in Procs \union {NoProc}
      /\ FramesOK'
      /\ pc'[p] = "ret" /\ call'[p].wbuf = Null
      /\ \A q \in Procs : q # p => pc'[q] = pc[q] /\ call'[q] = call[q]
      /\ \A x : x \in WriteBufs' <=>
           x # Null /\ \E q \in Procs \ {p} : x = call[q].wbuf
  BY <1>2, <1>3, WriteReturns DEF Writing
<1>5. /\ mod = "live" /\ EntriesOwned /\ WorkingOwned /\ WriteBufsOwned
      /\ live = EntryPtrs \union WorkingPtrs \union WriteBufs \union leaked
      /\ leaked \subseteq live /\ WriteBufs \subseteq live /\ Null \notin live
  BY <1>2, HeapParts
<1>6. /\ live' = live \ {w}
      /\ mem' = [x \in Blocks |-> IF x = w THEN <<>> ELSE mem[x]]
  BY DEF FreeWriteBuf, Scrub
<1>7. w \in live \ leaked /\ w \in WriteBufs
      /\ \A q \in Procs \ {p} : call[q].wbuf # w
  BY <1>3, <1>5 DEF WriteBufsOwned, WriteBufs
<1>8. WriteBufs' = WriteBufs \ {w}
  BY <1>3, <1>4, <1>7, WriteBufsElements
<1>9. mem' \in [Blocks -> Seq(Byte)] /\ \A x \in live : x # w => mem'[x] = mem[x]
  BY <1>1, <1>6, EmptySeq
<1>10. EntryPtrs' = EntryPtrs
  BY DEF EntryPtrs
<1>11. /\ working' \in Entries /\ leaked' \subseteq Blocks
       /\ WorkingPtrs' \union leaked' = WorkingPtrs \union leaked
       /\ working'.buffptr # Null => working' = working /\ leaked' = leaked
  BY <1>1, <1>5 DEF Entries, WorkingPtrs
<1>12. w \notin WorkingPtrs /\ w \notin EntryPtrs
  <2>1. w \notin WorkingPtrs
    BY <1>5, <1>7 DEF WorkingPtrs, WorkingOwned
  <2>2. w \notin EntryPtrs
    BY <1>5, <1>7 DEF EntryPtrs, EntriesOwned
  <2> QED  BY <2>1, <2>2
<1>13. TypeOK'
  BY <1>1, <1>4, <1>6, <1>9, <1>11 DEF TypeOK
<1>14. RingShape(buffer)' /\ UnusedZero(buffer)' /\ Loaded'
  BY <1>5 DEF IInv, Loaded
<1>15. EntriesOwned'
  <2> SUFFICES ASSUME NEW i \in InUse(buffer)
               PROVE  LET e == buffer.entry[i]
                      IN  /\ e.buffptr \in live' \ (WriteBufs' \union WorkingPtrs' \union leaked')
                          /\ e.size > 0
                          /\ Len(mem'[e.buffptr]) = e.size
                          /\ \A j \in InUse(buffer) \ {i} : buffer.entry[j].buffptr # e.buffptr
    BY DEF EntriesOwned
  <2>1. buffer.entry[i].buffptr \in live \ (WriteBufs \union WorkingPtrs \union leaked)
    BY <1>5 DEF EntriesOwned
  <2>2. buffer.entry[i].buffptr # w
    BY <1>7, <2>1
  <2> QED  BY <1>5, <1>6, <1>8, <1>9, <1>11, <2>1, <2>2 DEF EntriesOwned
<1>16. \A q \in Procs : pc'[q] = "write_copy" <=> pc[q] = "write_copy"
  BY <1>4
<1>17. WorkingOwned'
  <2>1. CASE UNCHANGED <<working, leaked>>
    <3>1. working.buffptr # Null => working.buffptr # w
      BY <1>12 DEF WorkingPtrs
    <3>2. ASSUME working'.buffptr # Null
          PROVE  /\ working'.buffptr \in live' \ (WriteBufs' \union leaked')
                 /\ \/ Len(mem'[working'.buffptr]) = working'.size
                    \/ \E q \in Procs : pc'[q] = "write_copy"
      BY <1>5, <1>6, <1>8, <1>9, <1>16, <2>1, <3>1, <3>2 DEF WorkingOwned
    <3>3. ASSUME NEW q \in Procs, pc'[q] = "write_copy"
          PROVE  /\ working'.buffptr # Null
                 /\ Len(mem'[working'.buffptr]) = working'.size + BytesToWrite(call'[q].data)
      <4>1. q # p /\ pc[q] = "write_copy" /\ call'[q] = call[q]
        BY <1>4, <3>3
      <4>2. /\ working.buffptr # Null /\ working.buffptr \in live
            /\ Len(mem[working.buffptr]) = working.size + BytesToWrite(call[q].data)
        BY <1>5, <4>1 DEF WorkingOwned
      <4> QED  BY <1>9, <2>1, <3>1, <4>1, <4>2
    <3> QED  BY <3>2, <3>3 DEF WorkingOwned
  <2>2. CASE pc[p] = "write_realloc" /\ working' = [working EXCEPT !.buffptr = Null]
    <3>1. working'.buffptr = Null
      BY <1>1, <2>2 DEF Entries
    <3>2. \A q \in Procs : pc'[q] # "write_copy"
      BY <1>4, <2>2, OnlyHolder DEF Critical
    <3> QED  BY <3>1, <3>2 DEF WorkingOwned
  <2> QED  BY <2>1, <2>2
<1>18. WriteBufsOwned'
  <2> SUFFICES ASSUME NEW q \in Procs, call'[q].wbuf # Null
               PROVE  /\ call'[q].wbuf \in live' \ leaked'
                      /\ mem'[call'[q].wbuf] = call'[q].data
                      /\ \A s \in Procs \ {q} : call'[s].wbuf # call'[q].wbuf
    BY DEF WriteBufsOwned
  <2>1. q # p /\ call'[q] = call[q] /\ call[q].wbuf # w
    BY <1>4, <1>7
  <2>2. /\ call[q].wbuf \in live \ leaked /\ mem[call[q].wbuf] = call[q].data
        /\ \A s \in Procs \ {q} : call[s].wbuf # call[q].wbuf
    BY <1>5, <2>1 DEF WriteBufsOwned
  <2>3. call[q].wbuf \notin WorkingPtrs
    BY <1>5, <2>1 DEF WorkingOwned, WorkingPtrs, WriteBufs
  <2>4. call[q].wbuf \notin leaked'
    BY <1>11, <2>2, <2>3
  <2> QED  BY <1>4, <1>6, <1>9, <2>1, <2>2, <2>4
<1>19. live' = EntryPtrs' \union WorkingPtrs' \union WriteBufs' \union leaked'
  BY <1>5, <1>6, <1>7, <1>8, <1>10, <1>11, <1>12
<1>20. HeapSound'
  BY <1>5, <1>15, <1>17, <1>18, <1>19 DEF HeapSound
<1>21. ReadTargetValid'
  BY <1>4 DEF IInv, ReadTargetValid
<1> QED  BY <1>4, <1>13, <1>14, <1>20, <1>21 DEF IInv

LEMMA WriteLockStep ==
  ASSUME IInv, NEW p \in Procs, WriteLock(p)
  PROVE  IInv'
<1>1. pc[p] = "write_lock" /\ UNCHANGED <<mod, opened, device, leaked, fpos>>
  BY DEF WriteLock, vfs
<1>2. /\ call[p] \in Frames /\ fpos \in [Files -> Nat]
      /\ FrameOK("write_lock", call[p], opened)
  BY <1>1, OneFrame
<1>3. CASE MutexLock(p) /\ Goto(p, "write_realloc", call[p]) /\ UNCHANGED <<live, mem>>
  <2>1. FrameOK("write_realloc", call[p], opened)
    BY <1>2 DEF FrameOK, Writing
  <2>2. MutexStep(p, "write_realloc") /\ "write_realloc" \in Labels
    BY <1>1, <1>3 DEF MutexStep, Critical, Labels
  <2>3. UNCHANGED <<mod, opened, device, heap>>
    BY <1>1, <1>3 DEF heap
  <2> QED  BY <1>1, <1>2, <1>3, <2>1, <2>2, <2>3, QuietStep
<1>4. CASE Interrupted /\ Finish(p, ERESTARTSYS) /\ FreeWriteBuf(p)
  <2>1. MutexStep(p, "ret")
    BY <1>1, <1>4 DEF MutexStep, Critical, Interrupted
  <2>2. UNCHANGED <<mod, opened, fpos, buffer, working, leaked>>
    BY <1>1 DEF device
  <2>3. Return(p, call[p], ERESTARTSYS) /\ ERESTARTSYS \in Int
    BY <1>4 DEF Finish, ERESTARTSYS
  <2> QED  BY <1>1, <1>4, <2>1, <2>2, <2>3, WriteAbandons
<1> QED  BY <1>3, <1>4 DEF WriteLock

LEMMA WriteReallocFailsStep ==
  ASSUME IInv, NEW p \in Procs, WriteReallocFails(p)
  PROVE  IInv'
<1>1. /\ pc[p] = "write_realloc" /\ MutexUnlock /\ FreeWriteBuf(p)
      /\ Finish(p, ENOMEM)
      /\ working' = [working EXCEPT !.buffptr = Null]
      /\ leaked' = leaked \union ({working.buffptr} \ {Null})
      /\ UNCHANGED <<mod, opened, fpos, buffer>>
  BY DEF WriteReallocFails, vfs
<1>2. MutexStep(p, "ret")
  BY <1>1 DEF MutexStep, Critical
<1>3. Return(p, call[p], ENOMEM) /\ ENOMEM \in Int
  BY <1>1 DEF Finish, ENOMEM
<1> QED  BY <1>1, <1>2, <1>3, WriteAbandons

(* A block krealloc resized has the new length.                            *)
LEMMA ResizeType ==
  ASSUME NEW old \in Seq(Byte), NEW n \in Nat
  PROVE  Resize(old, n) \in Seq(Byte) /\ Len(Resize(old, n)) = n
<1>1. Len(old) \in Nat /\ \A i \in 1..Len(old) : old[i] \in Byte
  BY ElementOfSeq, LenProperties
<1>2. Garbage \in Byte
  BY ByteAssumption
<1>3. Resize(old, n) \in [1..n -> Byte]
  BY <1>1, <1>2 DEF Resize
<1> QED  BY <1>3, FunctionIsSeq

(* memcpy keeps the length of its destination.                             *)
LEMMA MemcpyType ==
  ASSUME NEW dst \in Seq(Byte), NEW src \in Seq(Byte), NEW at \in Nat, NEW n \in 0..Len(src)
  PROVE  Memcpy(dst, at, src, n) \in Seq(Byte) /\ Len(Memcpy(dst, at, src, n)) = Len(dst)
<1>1. /\ Len(dst) \in Nat /\ \A i \in 1..Len(dst) : dst[i] \in Byte
      /\ Len(src) \in Nat /\ \A i \in 1..Len(src) : src[i] \in Byte
  BY ElementOfSeq, LenProperties
<1>2. ASSUME NEW i \in 1..Len(dst)
      PROVE  (IF i \in (at + 1)..(at + n) THEN src[i - at] ELSE dst[i]) \in Byte
  <2>1. CASE i \in (at + 1)..(at + n)
    <3>1. i - at \in 1..Len(src)
      BY <1>1, <2>1
    <3> QED  BY <1>1, <2>1, <3>1
  <2>2. CASE i \notin (at + 1)..(at + n)
    BY <1>1, <2>2
  <2> QED  BY <2>1, <2>2
<1>3. Memcpy(dst, at, src, n) \in [1..Len(dst) -> Byte]
  BY <1>2 DEF Memcpy
<1> QED  BY <1>1, <1>3, FunctionIsSeq

(* krealloc: working_entry moves to a block with room for the new bytes.   *)
LEMMA WriteReallocStep ==
  ASSUME IInv, NEW p \in Procs, WriteRealloc(p)
  PROVE  IInv'
<1> DEFINE old   == working.buffptr
           bytes == IF old = Null THEN <<>> ELSE mem[old]
           n     == working.size + BytesToWrite(call[p].data)
<1>1. PICK b \in FreeBlocks \union ({old} \ {Null}) :
        /\ working' = [working EXCEPT !.buffptr = b]
        /\ live' = (live \ {old}) \union {b}
        /\ mem' = [Scrub(mem, {old}) EXCEPT ![b] = Resize(bytes, n)]
  BY DEF WriteRealloc
<1>2. /\ pc[p] = "write_realloc" /\ Goto(p, "write_copy", call[p])
      /\ UNCHANGED <<mod, opened, fpos, buffer, mutex, leaked>>
  BY DEF WriteRealloc, vfs
<1>3. /\ TypeOK /\ pc \in [Procs -> Labels] /\ call \in [Procs -> Frames]
      /\ live \subseteq Blocks /\ mem \in [Blocks -> Seq(Byte)] /\ working \in Entries
      /\ working.size \in Nat /\ leaked \subseteq Blocks
  BY DEF IInv, TypeOK, Entries
<1>4. /\ call[p] \in Frames /\ FrameOK("write_realloc", call[p], opened)
      /\ call[p].file \in opened
  BY <1>2, OneFrame
<1>5. /\ mod = "live" /\ EntriesOwned /\ WorkingOwned /\ WriteBufsOwned
      /\ live = EntryPtrs \union WorkingPtrs \union WriteBufs \union leaked
      /\ leaked \subseteq live /\ WriteBufs \subseteq live /\ Null \notin live
  BY <1>4, HeapParts
<1>6. call[p].data \in Seq(Byte) /\ n \in Nat
  <2>1. call[p].data \in Seq(Byte)
    BY <1>4 DEF Frames
  <2>2. BytesToWrite(call[p].data) \in Nat
    BY <2>1, BytesToWriteRange, LenProperties
  <2> QED  BY <1>3, <2>1, <2>2
<1>7. old # Null => old \in live \ (WriteBufs \union leaked)
  BY <1>5 DEF WorkingOwned
<1>8. bytes \in Seq(Byte)
  BY <1>3, <1>7, EmptySeq
<1>9. Resize(bytes, n) \in Seq(Byte) /\ Len(Resize(bytes, n)) = n
  BY <1>6, <1>8, ResizeType
<1>10. /\ b \in Blocks /\ b # Null /\ b \notin leaked /\ b \notin WriteBufs
       /\ b \in live => b = old
  BY <1>1, <1>3, <1>5, <1>7, HeapAssumption DEF FreeBlocks
<1> HIDE DEF bytes, n
<1>11. /\ mem' \in [Blocks -> Seq(Byte)] /\ mem'[b] = Resize(bytes, n)
       /\ \A x \in live : x # old => mem'[x] = mem[x]
  <2> DEFINE m == Scrub(mem, {old})
  <2>1. m \in [Blocks -> Seq(Byte)] /\ \A x \in Blocks : x # old => m[x] = mem[x]
    BY <1>3, EmptySeq DEF Scrub
  <2>2. mem' = [m EXCEPT ![b] = Resize(bytes, n)]
    BY <1>1
  <2> HIDE DEF m
  <2>3. mem' \in [Blocks -> Seq(Byte)] /\ mem'[b] = Resize(bytes, n)
    BY <1>9, <1>10, <2>1, <2>2
  <2>4. ASSUME NEW x \in live, x # old  PROVE mem'[x] = mem[x]
    BY <1>3, <1>10, <2>1, <2>2, <2>4
  <2> QED  BY <2>3, <2>4
<1>12. /\ pc' = [pc EXCEPT ![p] = "write_copy"] /\ call' = call
       /\ pc'[p] = "write_copy" /\ \A q \in Procs : q # p => pc'[q] = pc[q]
  BY <1>2, <1>3 DEF Goto
<1>13. working' \in Entries /\ working'.buffptr = b /\ working'.size = working.size
  BY <1>1, <1>3, <1>10 DEF Entries
<1>14. "write_copy" \in Labels /\ MutexStep(p, "write_copy")
  BY <1>2 DEF Labels, MutexStep, Critical
<1>15. MutexHeld' /\ mutex' \in Procs \union {NoProc}
  BY <1>3, <1>12, <1>14, MutexStepHeld DEF IInv
<1>16. TypeOK'
  BY <1>1, <1>2, <1>3, <1>10, <1>11, <1>12, <1>13, <1>14, <1>15 DEF TypeOK
<1>17. RingShape(buffer)' /\ UnusedZero(buffer)' /\ Loaded'
  BY <1>2, <1>5 DEF IInv, Loaded
<1>18. FramesOK'
  <2>1. FrameOK("write_copy", call[p], opened)
    BY <1>4 DEF FrameOK, Writing
  <2> QED  BY <1>2, <1>12, <2>1 DEF IInv, FramesOK
<1>19. WriteBufs' = WriteBufs
  BY <1>12 DEF WriteBufs
<1>20. EntryPtrs' = EntryPtrs
  BY <1>2 DEF EntryPtrs
<1>21. WorkingPtrs' = {b} /\ WorkingPtrs = {old} \ {Null}
  BY <1>10, <1>13 DEF WorkingPtrs
<1>22. EntriesOwned'
  <2> SUFFICES ASSUME NEW i \in InUse(buffer)
               PROVE  LET e == buffer.entry[i]
                      IN  /\ e.buffptr \in live' \ (WriteBufs' \union WorkingPtrs' \union leaked')
                          /\ e.size > 0
                          /\ Len(mem'[e.buffptr]) = e.size
                          /\ \A j \in InUse(buffer) \ {i} : buffer.entry[j].buffptr # e.buffptr
    BY <1>2 DEF EntriesOwned
  <2>1. buffer.entry[i].buffptr \in live \ (WriteBufs \union WorkingPtrs \union leaked)
    BY <1>5 DEF EntriesOwned
  <2>2. buffer.entry[i].buffptr # old /\ buffer.entry[i].buffptr # b
    BY <1>5, <1>10, <1>21, <2>1
  <2> QED  BY <1>1, <1>2, <1>5, <1>11, <1>19, <1>21, <2>1, <2>2 DEF EntriesOwned
<1>23. WorkingOwned'
  <2>1. b \in live' \ (WriteBufs' \union leaked')
    BY <1>1, <1>2, <1>10, <1>19
  <2>2. ASSUME NEW q \in Procs, pc'[q] = "write_copy"
        PROVE  Len(mem'[b]) = working'.size + BytesToWrite(call'[q].data)
    <3>1. q = p
      BY <1>2, <1>12, <2>2, OnlyHolder DEF Critical
    <3> QED  BY <1>9, <1>11, <1>12, <1>13, <3>1 DEF n
  <2> QED  BY <1>10, <1>12, <1>13, <2>1, <2>2 DEF WorkingOwned
<1>24. WriteBufsOwned'
  <2> SUFFICES ASSUME NEW q \in Procs, call[q].wbuf # Null
               PROVE  /\ call[q].wbuf \in live' \ leaked'
                      /\ mem'[call[q].wbuf] = call[q].data
                      /\ \A s \in Procs \ {q} : call[s].wbuf # call[q].wbuf
    BY <1>12 DEF WriteBufsOwned
  <2>1. /\ call[q].wbuf \in live \ leaked /\ mem[call[q].wbuf] = call[q].data
        /\ \A s \in Procs \ {q} : call[s].wbuf # call[q].wbuf
    BY <1>5 DEF WriteBufsOwned
  <2>2. call[q].wbuf # old
    BY <1>7 DEF WriteBufs
  <2> QED  BY <1>1, <1>2, <1>11, <2>1, <2>2
<1>25. live' = EntryPtrs' \union WorkingPtrs' \union WriteBufs' \union leaked'
  <2>1. old \notin EntryPtrs /\ old \notin WriteBufs /\ old \notin leaked
    <3>1. old # Null => old \notin EntryPtrs
      BY <1>5 DEF EntriesOwned, EntryPtrs, WorkingPtrs
    <3> QED  BY <1>5, <1>7, <3>1
  <2> QED  BY <1>1, <1>2, <1>5, <1>19, <1>20, <1>21, <2>1
<1>26. HeapSound'
  BY <1>2, <1>5, <1>22, <1>23, <1>24, <1>25 DEF HeapSound
<1>27. ReadTargetValid'
  BY <1>2, <1>12 DEF IInv, ReadTargetValid
<1> QED  BY <1>15, <1>16, <1>17, <1>18, <1>26, <1>27 DEF IInv

(***************************************************************************)
(* The end of a write: what both outcomes, a completed line and an         *)
(* incomplete one, share.  freed is what kfree is called on.               *)
(***************************************************************************)
LEMMA WriteCopyCommon ==
  ASSUME IInv, NEW p \in Procs, WriteCopy(p)
  PROVE  LET c     == call[p]
             b     == working.buffptr
             n     == BytesToWrite(c.data)
             entry == [working EXCEPT !.size = @ + n]
             line  == NewlineAt(c.data) # 0
             freed == {c.wbuf} \union (IF line THEN {Overwritten(buffer)} \ {Null} ELSE {})
         IN  /\ c.wbuf \in WriteBufs /\ c.wbuf \in live \ leaked
             /\ c.wbuf \notin EntryPtrs /\ c.wbuf # b
             /\ b # Null /\ b \in live \ (WriteBufs \union leaked)
             /\ entry \in Entries /\ entry.buffptr = b
             /\ line => entry.size > 0
             /\ buffer' = IF line THEN AddEntry(buffer, entry) ELSE buffer
             /\ working' = IF line THEN ZeroEntry ELSE entry
             /\ live' = live \ freed
             /\ b \notin freed => Len(mem'[b]) = entry.size
             /\ mem' \in [Blocks -> Seq(Byte)]
             /\ \A x \in live \ freed : x # b => mem'[x] = mem[x]
             /\ UNCHANGED <<mod, opened, fpos, leaked>>
             /\ WriteBufs' = WriteBufs \ {c.wbuf}
             /\ pc' \in [Procs -> Labels] /\ call' \in [Procs -> Frames]
             /\ MutexHeld' /\ mutex' \in Procs \union {NoProc}
             /\ FramesOK'
             /\ pc'[p] = "ret" /\ call'[p].wbuf = Null
             /\ \A q \in Procs : q # p => /\ pc'[q] = pc[q] /\ call'[q] = call[q]
                                          /\ pc[q] \notin Critical
<1> DEFINE c     == call[p]
           b     == working.buffptr
           n     == BytesToWrite(c.data)
           entry == [working EXCEPT !.size = @ + n]
           line  == NewlineAt(c.data) # 0
           freed == {c.wbuf} \union (IF line THEN {Overwritten(buffer)} \ {Null} ELSE {})
           bytes == Memcpy(mem[entry.buffptr], working.size, mem[c.wbuf], n)
           frame == [c EXCEPT !.pos = @ + Len(c.data)]
<1>1. /\ pc[p] = "write_copy" /\ MutexUnlock /\ Return(p, frame, Len(c.data))
      /\ buffer' = IF line THEN AddEntry(buffer, entry) ELSE buffer
      /\ working' = IF line THEN ZeroEntry ELSE entry
      /\ live' = live \ freed
      /\ mem' = Scrub([mem EXCEPT ![entry.buffptr] = bytes], freed)
      /\ UNCHANGED <<mod, opened, fpos, leaked>>
  BY DEF WriteCopy, vfs
<1>2. /\ pc \in [Procs -> Labels] /\ call \in [Procs -> Frames]
      /\ live \subseteq Blocks /\ mem \in [Blocks -> Seq(Byte)] /\ working \in Entries
      /\ working.size \in Nat
  BY DEF IInv, TypeOK, Entries
<1>3. /\ c \in Frames /\ FrameOK("write_copy", c, opened) /\ c.file \in opened
  BY <1>1, OneFrame
<1>4. /\ EntriesOwned /\ WorkingOwned /\ WriteBufsOwned
      /\ leaked \subseteq live /\ WriteBufs \subseteq live /\ Null \notin live
  BY <1>3, HeapParts
<1>5. c.wbuf # Null /\ c.wbuf \in WriteBufs
  BY <1>3 DEF FrameOK, Writing, WriteBufs
<1>6. /\ c.wbuf \in live \ leaked /\ mem[c.wbuf] = c.data
      /\ \A q \in Procs \ {p} : call[q].wbuf # c.wbuf
  BY <1>4, <1>5 DEF WriteBufsOwned
<1>7. /\ b # Null /\ b \in live \ (WriteBufs \union leaked)
      /\ Len(mem[b]) = working.size + n
  BY <1>1, <1>4 DEF WorkingOwned
<1>8. c.wbuf # b /\ c.wbuf \notin EntryPtrs
  <2>1. c.wbuf \notin EntryPtrs
    BY <1>4, <1>5 DEF EntryPtrs, EntriesOwned
  <2> QED  BY <1>5, <1>7, <2>1
<1>9. /\ c.data \in Seq(Byte) /\ Len(c.data) \in Nat /\ n \in 0..Len(c.data)
      /\ NewlineAt(c.data) \in 0..Len(c.data)
      /\ c.pos \in Nat /\ c.op \in OpNames
  <2>1. c.data \in Seq(Byte) /\ c.pos \in Nat /\ c.op \in OpNames
    BY <1>3 DEF Frames, OpNames
  <2>2. Len(c.data) \in Nat
    BY <2>1, LenProperties
  <2> QED  BY <2>1, <2>2, BytesToWriteRange
<1>10. line => n > 0
  BY <1>9 DEF BytesToWrite
<1>11. n \in Nat
  BY <1>9
<1> HIDE DEF n
<1>12. entry \in Entries /\ entry.buffptr = b /\ entry.size = working.size + n
  BY <1>2, <1>11 DEF Entries
<1>13. line => entry.size > 0
  BY <1>2, <1>10, <1>11, <1>12
<1>14. bytes \in Seq(Byte) /\ Len(bytes) = entry.size
  <2>1. mem[b] \in Seq(Byte) /\ mem[c.wbuf] = c.data
    BY <1>2, <1>6, <1>7
  <2>2. bytes = Memcpy(mem[b], working.size, c.data, n)
    BY <1>6, <1>12
  <2>3. /\ Memcpy(mem[b], working.size, c.data, n) \in Seq(Byte)
        /\ Len(Memcpy(mem[b], working.size, c.data, n)) = Len(mem[b])
    BY <1>2, <1>9, <2>1, MemcpyType
  <2> QED  BY <1>7, <1>12, <2>2, <2>3
<1> HIDE DEF bytes, freed, entry, line
<1>15. mem' = Scrub([mem EXCEPT ![b] = bytes], freed)
  BY <1>1, <1>12
<1>16. /\ mem' \in [Blocks -> Seq(Byte)]
       /\ b \notin freed => mem'[b] = bytes
       /\ \A x \in live \ freed : x # b => mem'[x] = mem[x]
  <2> DEFINE m == [mem EXCEPT ![b] = bytes]
  <2>1. m \in [Blocks -> Seq(Byte)] /\ m[b] = bytes /\ \A x \in Blocks : x # b => m[x] = mem[x]
    BY <1>2, <1>7, <1>14
  <2>2. mem' = [x \in Blocks |-> IF x \in freed THEN <<>> ELSE m[x]]
    BY <1>15 DEF Scrub
  <2> HIDE DEF m
  <2> QED  BY <1>2, <1>7, <2>1, <2>2, EmptySeq
<1>17. frame.op \in OpNames /\ frame.file \in opened /\ frame.pos \in Nat
  <2> DEFINE len == Len(c.data)
  <2>1. len \in Nat /\ frame = [c EXCEPT !.pos = c.pos + len]
    BY <1>9
  <2> HIDE DEF c, len, frame
  <2> QED  BY <1>3, <1>9, <2>1 DEF Frames
<1>18. MutexStep(p, "ret") /\ pc[p] \in Writing
  BY <1>1 DEF MutexStep, Critical, Writing
<1> HIDE DEF frame
<1>19. /\ pc' \in [Procs -> Labels] /\ call' \in [Procs -> Frames]
       /\ MutexHeld' /\ mutex' \in Procs \union {NoProc}
       /\ FramesOK'
       /\ pc'[p] = "ret" /\ call'[p].wbuf = Null
       /\ \A q \in Procs : q # p => pc'[q] = pc[q] /\ call'[q] = call[q]
       /\ \A x : x \in WriteBufs' <=>
            x # Null /\ \E q \in Procs \ {p} : x = call[q].wbuf
  <2>1. Len(c.data) \in Int
    BY <1>9
  <2> QED  BY <1>1, <1>17, <1>18, <2>1, WriteReturns
<1>20. WriteBufs' = WriteBufs \ {c.wbuf}
  BY <1>6, <1>19, WriteBufsElements
<1>21. \A q \in Procs : q # p => pc[q] \notin Critical
  BY <1>1, OnlyHolder DEF Critical
<1> QED  BY <1>1, <1>5, <1>6, <1>7, <1>8, <1>12, <1>13, <1>14, <1>16, <1>19, <1>20, <1>21
         DEF entry, freed, line, n

(* The calls of the other processes keep their write buffers.              *)
LEMMA OtherWriteBufs ==
  ASSUME WriteBufsOwned, NEW p \in Procs, NEW freed, call'[p].wbuf = Null,
         \A q \in Procs : q # p => call'[q] = call[q],
         live' = live \ freed, leaked' = leaked,
         \A q \in Procs \ {p} : call[q].wbuf # Null =>
           call[q].wbuf \notin freed /\ mem'[call[q].wbuf] = mem[call[q].wbuf]
  PROVE  WriteBufsOwned'
<1> SUFFICES ASSUME NEW q \in Procs, call'[q].wbuf # Null
             PROVE  /\ call'[q].wbuf \in live' \ leaked'
                    /\ mem'[call'[q].wbuf] = call'[q].data
                    /\ \A s \in Procs \ {q} : call'[s].wbuf # call'[q].wbuf
  BY DEF WriteBufsOwned
<1>1. q # p /\ call'[q] = call[q]
  OBVIOUS
<1>2. /\ call[q].wbuf \in live \ leaked /\ mem[call[q].wbuf] = call[q].data
      /\ \A s \in Procs \ {q} : call[s].wbuf # call[q].wbuf
  BY <1>1 DEF WriteBufsOwned
<1> QED  BY <1>1, <1>2

(* The end of a write without a newline.                                   *)
LEMMA WriteCopyPartial ==
  ASSUME IInv, NEW p \in Procs, WriteCopy(p), NewlineAt(call[p].data) = 0
  PROVE  IInv'
<1> DEFINE w     == call[p].wbuf
           b     == working.buffptr
           n     == BytesToWrite(call[p].data)
           entry == [working EXCEPT !.size = @ + n]
<1>1. /\ w \in WriteBufs /\ w \in live \ leaked
      /\ w \notin EntryPtrs /\ w # b
      /\ b # Null /\ b \in live \ (WriteBufs \union leaked)
      /\ entry \in Entries /\ entry.buffptr = b
      /\ buffer' = buffer /\ working' = entry
      /\ live' = live \ {w}
      /\ b \notin {w} => Len(mem'[b]) = entry.size
      /\ mem' \in [Blocks -> Seq(Byte)]
      /\ \A x \in live \ {w} : x # b => mem'[x] = mem[x]
      /\ UNCHANGED <<mod, opened, fpos, leaked>>
      /\ WriteBufs' = WriteBufs \ {w}
  BY WriteCopyCommon
<1>2. /\ pc' \in [Procs -> Labels] /\ call' \in [Procs -> Frames]
      /\ MutexHeld' /\ mutex' \in Procs \union {NoProc}
      /\ FramesOK'
      /\ pc'[p] = "ret" /\ call'[p].wbuf = Null
      /\ \A q \in Procs : q # p => /\ pc'[q] = pc[q] /\ call'[q] = call[q]
                                   /\ pc[q] \notin Critical
  BY WriteCopyCommon
<1> HIDE DEF entry, n
<1>3. /\ TypeOK /\ live \subseteq Blocks
      /\ pc[p] = "write_copy" /\ call[p].file \in opened
  BY OneFrame DEF IInv, TypeOK, WriteCopy
<1>4. /\ mod = "live" /\ EntriesOwned /\ WorkingOwned /\ WriteBufsOwned
      /\ live = EntryPtrs \union WorkingPtrs \union WriteBufs \union leaked
  BY <1>3, HeapParts
<1>5. Len(mem'[b]) = entry.size
  BY <1>1
<1>6. TypeOK'
  BY <1>1, <1>2, <1>3 DEF TypeOK
<1>7. RingShape(buffer)' /\ UnusedZero(buffer)' /\ Loaded'
  BY <1>1, <1>4 DEF IInv, Loaded
<1>8. WorkingPtrs' = {b} /\ WorkingPtrs = {b} /\ EntryPtrs' = EntryPtrs
  BY <1>1 DEF WorkingPtrs, EntryPtrs
<1>9. EntriesOwned'
  <2> SUFFICES ASSUME NEW i \in InUse(buffer)
               PROVE  LET e == buffer.entry[i]
                      IN  /\ e.buffptr \in live' \ (WriteBufs' \union WorkingPtrs' \union leaked')
                          /\ e.size > 0
                          /\ Len(mem'[e.buffptr]) = e.size
                          /\ \A j \in InUse(buffer) \ {i} : buffer.entry[j].buffptr # e.buffptr
    BY <1>1 DEF EntriesOwned
  <2>1. buffer.entry[i].buffptr \in live \ (WriteBufs \union WorkingPtrs \union leaked)
    BY <1>4 DEF EntriesOwned
  <2>2. buffer.entry[i].buffptr # w /\ buffer.entry[i].buffptr # b
    BY <1>1, <1>8, <2>1
  <2> QED  BY <1>1, <1>4, <1>8, <2>1, <2>2 DEF EntriesOwned
<1>10. WorkingOwned'
  <2>1. b \in live' \ (WriteBufs' \union leaked')
    BY <1>1
  <2>2. \A q \in Procs : pc'[q] # "write_copy"
    BY <1>2 DEF Critical
  <2> QED  BY <1>1, <1>5, <2>1, <2>2 DEF WorkingOwned
<1>11. WriteBufsOwned'
  <2> DEFINE freed == {w}
  <2>1. ASSUME NEW q \in Procs \ {p}, call[q].wbuf # Null
        PROVE  call[q].wbuf \notin freed /\ mem'[call[q].wbuf] = mem[call[q].wbuf]
    <3>1. call[q].wbuf \in live /\ call[q].wbuf # w
      BY <1>1, <1>4, <2>1 DEF WriteBufsOwned
    <3>2. call[q].wbuf # b
      BY <1>1, <2>1 DEF WriteBufs
    <3> QED  BY <1>1, <3>1, <3>2
  <2>2. live' = live \ freed /\ leaked' = leaked
    BY <1>1
  <2> HIDE DEF freed
  <2> QED  BY <1>2, <1>4, <2>1, <2>2, OtherWriteBufs
<1>12. live' = EntryPtrs' \union WorkingPtrs' \union WriteBufs' \union leaked'
  BY <1>1, <1>4, <1>8
<1>13. HeapSound'
  BY <1>1, <1>4, <1>9, <1>10, <1>11, <1>12 DEF HeapSound
<1>14. ReadTargetValid'
  BY <1>2 DEF ReadTargetValid, Critical
<1> QED  BY <1>2, <1>6, <1>7, <1>13, <1>14 DEF IInv

(***************************************************************************)
(* The end of a write with a newline: working_entry's block becomes the    *)
(* entry in slot in_offs, and the block of the entry it replaces is freed. *)
(***************************************************************************)
LEMMA WriteCopyLine ==
  ASSUME IInv, NEW p \in Procs, WriteCopy(p), NewlineAt(call[p].data) # 0
  PROVE  IInv'
<1> DEFINE w     == call[p].wbuf
           b     == working.buffptr
           n     == BytesToWrite(call[p].data)
           entry == [working EXCEPT !.size = @ + n]
           freed == {w} \union ({Overwritten(buffer)} \ {Null})
           k     == buffer.in_offs
<1>1. /\ w \in WriteBufs /\ w \in live \ leaked
      /\ w \notin EntryPtrs /\ w # b
      /\ b # Null /\ b \in live \ (WriteBufs \union leaked)
      /\ entry \in Entries /\ entry.buffptr = b /\ entry.size > 0
      /\ buffer' = AddEntry(buffer, entry) /\ working' = ZeroEntry
      /\ live' = live \ freed
      /\ b \notin freed => Len(mem'[b]) = entry.size
      /\ mem' \in [Blocks -> Seq(Byte)]
      /\ \A x \in live \ freed : x # b => mem'[x] = mem[x]
      /\ UNCHANGED <<mod, opened, fpos, leaked>>
      /\ WriteBufs' = WriteBufs \ {w}
  BY WriteCopyCommon
<1>2. /\ pc' \in [Procs -> Labels] /\ call' \in [Procs -> Frames]
      /\ MutexHeld' /\ mutex' \in Procs \union {NoProc}
      /\ FramesOK'
      /\ pc'[p] = "ret" /\ call'[p].wbuf = Null
      /\ \A q \in Procs : q # p => /\ pc'[q] = pc[q] /\ call'[q] = call[q]
                                   /\ pc[q] \notin Critical
  BY WriteCopyCommon
<1> HIDE DEF entry, n
<1>3. /\ TypeOK /\ live \subseteq Blocks /\ buffer \in Buffers /\ RingShape(buffer)
      /\ UnusedZero(buffer) /\ pc[p] = "write_copy" /\ call[p].file \in opened
      /\ k \in Slots /\ buffer.full \in BOOLEAN
  BY OneFrame DEF IInv, TypeOK, WriteCopy, Buffers
<1>4. /\ mod = "live" /\ EntriesOwned /\ WorkingOwned /\ WriteBufsOwned
      /\ live = EntryPtrs \union WorkingPtrs \union WriteBufs \union leaked
      /\ Null \notin live
  BY <1>3, HeapParts
<1>5. /\ buffer' \in Buffers /\ RingShape(buffer')
      /\ InUse(buffer') = InUse(buffer) \union {k}
      /\ k \in InUse(buffer) <=> buffer.full
      /\ buffer'.entry = [buffer.entry EXCEPT ![k] = entry]
  BY <1>1, <1>3, AddEntryShape
<1>6. /\ buffer'.entry[k] = entry
      /\ \A i \in Slots \ {k} : buffer'.entry[i] = buffer.entry[i]
      /\ InUse(buffer) \subseteq Slots
  BY <1>3, <1>5 DEF Buffers, InUse
<1>7. WorkingPtrs = {b} /\ WorkingPtrs' = {}
  BY <1>1 DEF WorkingPtrs, ZeroEntry
<1>8. \A i \in InUse(buffer) :
        /\ buffer.entry[i].buffptr \in live \ (WriteBufs \union {b} \union leaked)
        /\ buffer.entry[i].size > 0
        /\ Len(mem[buffer.entry[i].buffptr]) = buffer.entry[i].size
        /\ \A j \in InUse(buffer) \ {i} : buffer.entry[j].buffptr # buffer.entry[i].buffptr
  BY <1>4, <1>7 DEF EntriesOwned
(* What is freed is the write buffer and, if the ring was full, the block of slot k. *)
<1>9. \A x : x \in freed <=> x = w \/ (k \in InUse(buffer) /\ x = buffer.entry[k].buffptr)
  <2>1. CASE buffer.full
    <3>1. Overwritten(buffer) = buffer.entry[k].buffptr /\ k \in InUse(buffer)
      BY <1>5, <2>1 DEF Overwritten
    <3>2. buffer.entry[k].buffptr # Null
      BY <1>4, <1>8, <3>1
    <3> QED  BY <3>1, <3>2
  <2>2. CASE ~buffer.full
    <3>1. Overwritten(buffer) = Null /\ k \notin InUse(buffer)
      BY <1>5, <2>2 DEF Overwritten
    <3> QED  BY <3>1
  <2> QED  BY <1>3, <2>1, <2>2
<1> HIDE DEF freed
<1>10. b \notin freed /\ Len(mem'[b]) = entry.size
  BY <1>1, <1>8, <1>9
<1>11. TypeOK'
  <2>1. ZeroEntry \in Entries
    BY DEF ZeroEntry, Entries
  <2> QED  BY <1>1, <1>2, <1>3, <1>5, <2>1 DEF TypeOK
<1>12. RingShape(buffer)' /\ UnusedZero(buffer)' /\ Loaded'
  <2>1. UnusedZero(buffer')
    BY <1>3, <1>5, <1>6 DEF UnusedZero
  <2>2. Loaded'
    BY <1>1, <1>4 DEF IInv, Loaded
  <2> QED  BY <1>5, <2>1, <2>2
<1>13. EntriesOwned'
  <2> SUFFICES ASSUME NEW i \in InUse(buffer')
               PROVE  LET e == buffer'.entry[i]
                      IN  /\ e.buffptr \in live' \ (WriteBufs' \union WorkingPtrs' \union leaked')
                          /\ e.size > 0
                          /\ Len(mem'[e.buffptr]) = e.size
                          /\ \A j \in InUse(buffer') \ {i} : buffer'.entry[j].buffptr # e.buffptr
    BY DEF EntriesOwned
  <2>1. CASE i = k
    <3>1. b \in live' \ (WriteBufs' \union WorkingPtrs' \union leaked')
      BY <1>1, <1>7, <1>10
    <3>2. ASSUME NEW j \in InUse(buffer') \ {k}  PROVE buffer'.entry[j].buffptr # b
      BY <1>5, <1>6, <1>8
    <3> QED  BY <1>1, <1>6, <1>10, <2>1, <3>1, <3>2
  <2>2. CASE i # k
    <3>1. i \in InUse(buffer) /\ buffer'.entry[i] = buffer.entry[i]
      BY <1>5, <1>6, <2>2
    <3> DEFINE e == buffer.entry[i]
    <3>2. e.buffptr \notin freed /\ e.buffptr # b
      BY <1>1, <1>8, <1>9, <2>2, <3>1
    <3>3. /\ e.buffptr \in live' \ (WriteBufs' \union WorkingPtrs' \union leaked')
          /\ e.size > 0 /\ Len(mem'[e.buffptr]) = e.size
      BY <1>1, <1>7, <1>8, <3>1, <3>2
    <3>4. ASSUME NEW j \in InUse(buffer') \ {i}  PROVE buffer'.entry[j].buffptr # e.buffptr
      <4>1. CASE j = k
        BY <1>1, <1>6, <3>2, <4>1
      <4>2. CASE j # k
        BY <1>5, <1>6, <1>8, <3>1, <4>2
      <4> QED  BY <4>1, <4>2
    <3> QED  BY <3>1, <3>3, <3>4
  <2> QED  BY <2>1, <2>2
<1>14. WorkingOwned'
  <2>1. working'.buffptr = Null
    BY <1>1 DEF ZeroEntry
  <2>2. \A q \in Procs : pc'[q] # "write_copy"
    BY <1>2 DEF Critical
  <2> QED  BY <2>1, <2>2 DEF WorkingOwned
<1>15. WriteBufsOwned'
  <2>1. ASSUME NEW q \in Procs \ {p}, call[q].wbuf # Null
        PROVE  call[q].wbuf \notin freed /\ mem'[call[q].wbuf] = mem[call[q].wbuf]
    <3>1. call[q].wbuf \in live /\ call[q].wbuf # w
      BY <1>4, <2>1 DEF WriteBufsOwned
    <3>2. call[q].wbuf \in WriteBufs
      BY <2>1 DEF WriteBufs
    <3>3. call[q].wbuf \notin freed /\ call[q].wbuf # b
      BY <1>1, <1>8, <1>9, <3>1, <3>2
    <3> QED  BY <1>1, <3>1, <3>3
  <2> QED  BY <1>1, <1>2, <1>4, <2>1, OtherWriteBufs
<1>16. \A x : x \in EntryPtrs' <=> x = b \/ (x \in EntryPtrs /\ x \notin freed)
  <2>1. \A x : x \in EntryPtrs <=> \E i \in InUse(buffer) : x = buffer.entry[i].buffptr
    BY DEF EntryPtrs
  <2>2. \A x : x \in EntryPtrs' <=> \E i \in InUse(buffer') : x = buffer'.entry[i].buffptr
    BY DEF EntryPtrs
  <2>3. ASSUME NEW x \in EntryPtrs'  PROVE x = b \/ (x \in EntryPtrs /\ x \notin freed)
    <3>1. PICK i \in InUse(buffer') : x = buffer'.entry[i].buffptr
      BY <2>2, <2>3
    <3>2. CASE i = k
      BY <1>1, <1>6, <3>1, <3>2
    <3>3. CASE i # k
      BY <1>1, <1>5, <1>6, <1>8, <1>9, <2>1, <3>1, <3>3
    <3> QED  BY <3>2, <3>3
  <2>4. b \in EntryPtrs'
    BY <1>1, <1>5, <1>6, <2>2
  <2>5. ASSUME NEW x \in EntryPtrs, x \notin freed  PROVE x \in EntryPtrs'
    <3>1. PICK i \in InUse(buffer) : x = buffer.entry[i].buffptr
      BY <2>1, <2>5
    <3>2. i # k
      BY <1>9, <2>5, <3>1
    <3> QED  BY <1>5, <1>6, <2>2, <3>1, <3>2
  <2> QED  BY <2>3, <2>4, <2>5
<1>17. live' = EntryPtrs' \union WorkingPtrs' \union WriteBufs' \union leaked'
  <2>1. ASSUME NEW x \in live'  PROVE x \in EntryPtrs' \union WriteBufs' \union leaked'
    BY <1>1, <1>4, <1>7, <1>9, <1>16
  <2>2. ASSUME NEW x \in EntryPtrs' \union WriteBufs' \union leaked'  PROVE x \in live'
    <3>1. CASE x \in EntryPtrs'
      BY <1>1, <1>4, <1>10, <1>16, <3>1
    <3>2. CASE x \in WriteBufs'
      BY <1>1, <1>4, <1>8, <1>9, <3>2
    <3>3. CASE x \in leaked'
      BY <1>1, <1>4, <1>8, <1>9, <3>3
    <3> QED  BY <2>2, <3>1, <3>2, <3>3
  <2> QED  BY <1>7, <2>1, <2>2
<1>18. HeapSound'
  BY <1>1, <1>4, <1>13, <1>14, <1>15, <1>17 DEF HeapSound
<1>19. ReadTargetValid'
  BY <1>2 DEF ReadTargetValid, Critical
<1> QED  BY <1>2, <1>11, <1>12, <1>18, <1>19 DEF IInv

LEMMA WriteCopyStep ==
  ASSUME IInv, NEW p \in Procs, WriteCopy(p)
  PROVE  IInv'
BY WriteCopyPartial, WriteCopyLine

-----------------------------------------------------------------------------
(* Loading, unloading, open and release keep the invariant.                *)

LEMMA EmptyBufferShape ==
  /\ EmptyBuffer \in Buffers /\ ZeroEntry \in Entries
  /\ RingShape(EmptyBuffer) /\ UnusedZero(EmptyBuffer) /\ InUse(EmptyBuffer) = {}
<1>1. ZeroEntry \in Entries
  BY DEF ZeroEntry, Entries
<1>2. /\ EmptyBuffer.entry = [i \in Slots |-> ZeroEntry]
      /\ EmptyBuffer.in_offs = 0 /\ EmptyBuffer.out_offs = 0 /\ EmptyBuffer.full = FALSE
  BY DEF EmptyBuffer
<1>3. EmptyBuffer \in Buffers
  BY <1>1, SlotsNat DEF EmptyBuffer, Buffers
<1>4. RingShape(EmptyBuffer) /\ UnusedZero(EmptyBuffer)
  BY <1>2 DEF RingShape, UnusedZero, InUse
<1>5. InUse(EmptyBuffer) = 0..(0 - 1)
  BY <1>2, <1>3, <1>4, InUseShape
<1> QED  BY <1>1, <1>3, <1>4, <1>5

(* While no file is open every process is idle and nobody has the mutex.   *)
LEMMA NobodyInside ==
  ASSUME IInv, opened = {}
  PROVE  /\ \A p \in Procs : pc[p] = "idle" /\ call[p] = NoCall /\ call[p].wbuf = Null
         /\ mutex = NoProc /\ WriteBufs = {}
<1>1. ASSUME NEW p \in Procs
      PROVE  pc[p] = "idle" /\ call[p] = NoCall /\ call[p].wbuf = Null
  <2>1. FrameOK(pc[p], call[p], opened)
    BY DEF IInv, FramesOK
  <2>2. pc[p] = "idle" /\ call[p] = NoCall
    BY <2>1 DEF FrameOK
  <2> QED  BY <2>2 DEF NoCall
<1>2. mutex = NoProc
  BY <1>1 DEF IInv, TypeOK, MutexHeld, Critical
<1>3. WriteBufs = {}
  BY <1>1 DEF WriteBufs
<1> QED  BY <1>1, <1>2, <1>3

LEMMA InitModuleStep ==
  ASSUME IInv, InitModule
  PROVE  IInv'
<1>1. /\ mod = "unloaded" /\ mod' = "init" /\ buffer' = EmptyBuffer
      /\ working' = ZeroEntry /\ mutex' = NoProc
      /\ UNCHANGED <<opened, fpos, pc, call, live, mem, leaked>>
  BY DEF InitModule, heap
<1>2. opened = {} /\ live = leaked
  BY <1>1 DEF IInv, Loaded, HeapSound
<1>3. /\ \A p \in Procs : pc[p] = "idle" /\ call[p] = NoCall /\ call[p].wbuf = Null
      /\ mutex = NoProc /\ WriteBufs = {}
  BY <1>2, NobodyInside
<1>4. TypeOK'
  BY <1>1, EmptyBufferShape DEF IInv, TypeOK
<1>5. RingShape(buffer)' /\ UnusedZero(buffer)' /\ Loaded'
  BY <1>1, <1>2, EmptyBufferShape DEF Loaded
<1>6. MutexHeld' /\ FramesOK'
  BY <1>1, <1>3 DEF IInv, MutexHeld, FramesOK
<1>7. HeapSound'
  <2>1. EntriesOwned'
    BY <1>1, EmptyBufferShape DEF EntriesOwned
  <2>2. working'.buffptr = Null
    BY <1>1 DEF ZeroEntry
  <2>3. WorkingOwned'
    BY <1>1, <1>3, <2>2 DEF WorkingOwned
  <2>4. WriteBufsOwned'
    BY <1>1, <1>3 DEF WriteBufsOwned
  <2>5. EntryPtrs' = {} /\ WorkingPtrs' = {} /\ WriteBufs' = {}
    <3>1. EntryPtrs' = {}
      BY <1>1, EmptyBufferShape DEF EntryPtrs
    <3>2. WorkingPtrs' = {}
      BY <2>2 DEF WorkingPtrs
    <3>3. WriteBufs' = {}
      BY <1>1, <1>3 DEF WriteBufs
    <3> QED  BY <3>1, <3>2, <3>3
  <2>6. live' = EntryPtrs' \union WorkingPtrs' \union WriteBufs' \union leaked'
    BY <1>1, <1>2, <2>5
  <2> QED  BY <1>1, <2>1, <2>3, <2>4, <2>6 DEF HeapSound
<1>8. ReadTargetValid'
  BY <1>1, <1>3 DEF ReadTargetValid
<1> QED  BY <1>4, <1>5, <1>6, <1>7, <1>8 DEF IInv

LEMMA SetupCdevStep ==
  ASSUME IInv, SetupCdev
  PROVE  IInv'
<1>1. /\ mod = "init" /\ mod' \in {"live", "unloaded"}
      /\ UNCHANGED <<buffer, working, mutex, opened, fpos, pc, call, live, mem, leaked>>
  BY DEF SetupCdev, device, heap
<1>2. opened = {} /\ buffer = EmptyBuffer /\ working = ZeroEntry
  BY <1>1 DEF IInv, Loaded
<1>3. WriteBufs = {}
  BY <1>2, NobodyInside
<1>4. EntryPtrs = {} /\ WorkingPtrs = {}
  BY <1>2, EmptyBufferShape DEF EntryPtrs, WorkingPtrs, ZeroEntry
<1>5. live = leaked
  BY <1>1, <1>3, <1>4 DEF IInv, HeapSound
<1>6. /\ EntriesOwned' <=> EntriesOwned
      /\ WorkingOwned' <=> WorkingOwned
      /\ WriteBufsOwned' <=> WriteBufsOwned
      /\ EntryPtrs' = EntryPtrs /\ WorkingPtrs' = WorkingPtrs /\ WriteBufs' = WriteBufs
  <2>1. EntryPtrs' = EntryPtrs /\ WorkingPtrs' = WorkingPtrs /\ WriteBufs' = WriteBufs
    BY <1>1 DEF EntryPtrs, WorkingPtrs, WriteBufs
  <2>2. EntriesOwned' <=> EntriesOwned
    BY <1>1, <2>1 DEF EntriesOwned
  <2>3. WorkingOwned' <=> WorkingOwned
    BY <1>1, <2>1 DEF WorkingOwned
  <2>4. WriteBufsOwned' <=> WriteBufsOwned
    BY <1>1 DEF WriteBufsOwned
  <2> QED  BY <2>1, <2>2, <2>3, <2>4
<1>7. HeapSound'
  BY <1>1, <1>5, <1>6 DEF IInv, HeapSound
<1>8. TypeOK' /\ RingShape(buffer)' /\ UnusedZero(buffer)'
  BY <1>1 DEF IInv, TypeOK
<1>9. Loaded' /\ MutexHeld' /\ FramesOK' /\ ReadTargetValid'
  BY <1>1, <1>2 DEF IInv, Loaded, MutexHeld, FramesOK, ReadTargetValid
<1> QED  BY <1>7, <1>8, <1>9 DEF IInv

(* Only the block of an incomplete command survives unloading.             *)
LEMMA CleanupModuleStep ==
  ASSUME IInv, CleanupModule
  PROVE  IInv'
<1> DEFINE freed == {buffer.entry[i].buffptr : i \in Slots}
<1>1. /\ mod = "live" /\ opened = {} /\ mod' = "unloaded"
      /\ working' = [working EXCEPT !.buffptr = Null]
      /\ live' = live \ freed
      /\ mem' = Scrub(mem, freed)
      /\ leaked' = leaked \union ({working.buffptr} \ {Null})
      /\ UNCHANGED <<buffer, mutex, opened, fpos, pc, call>>
  BY DEF CleanupModule
<1>2. WriteBufs = {}
  BY <1>1, NobodyInside
<1>3. /\ EntriesOwned /\ WorkingOwned
      /\ live = EntryPtrs \union WorkingPtrs \union leaked
  BY <1>1, <1>2 DEF IInv, HeapSound
<1>4. /\ live \subseteq Blocks /\ leaked \subseteq Blocks /\ mem \in [Blocks -> Seq(Byte)]
      /\ working \in Entries /\ UnusedZero(buffer) /\ Null \notin live
  BY HeapAssumption DEF IInv, TypeOK
<1>5. \A x : x \in freed /\ x # Null <=> x \in EntryPtrs
  <2>1. ASSUME NEW i \in Slots \ InUse(buffer)  PROVE buffer.entry[i].buffptr = Null
    BY <1>4 DEF UnusedZero, ZeroEntry
  <2>2. InUse(buffer) \subseteq Slots
    BY DEF InUse
  <2>3. \A i \in InUse(buffer) : buffer.entry[i].buffptr # Null
    BY <1>3, <1>4 DEF EntriesOwned
  <2> QED  BY <2>1, <2>2, <2>3 DEF EntryPtrs
<1>6. \A x \in EntryPtrs : x \notin WorkingPtrs /\ x \notin leaked
  BY <1>3 DEF EntryPtrs, EntriesOwned
<1> HIDE DEF freed
<1>7. live' = leaked'
  BY <1>1, <1>3, <1>4, <1>5, <1>6 DEF WorkingPtrs
<1>8. mem' \in [Blocks -> Seq(Byte)]
  BY <1>1, <1>4, EmptySeq DEF Scrub
<1>9. TypeOK'
  <2>1. working' \in Entries /\ live' \subseteq Blocks
    BY <1>1, <1>4 DEF Entries
  <2> QED  BY <1>1, <1>7, <1>8, <2>1 DEF IInv, TypeOK
<1>10. HeapSound'
  BY <1>1, <1>7 DEF HeapSound
<1>11. RingShape(buffer)' /\ UnusedZero(buffer)' /\ Loaded'
  BY <1>1 DEF IInv, Loaded
<1>12. MutexHeld' /\ FramesOK' /\ ReadTargetValid'
  BY <1>1 DEF IInv, MutexHeld, FramesOK, ReadTargetValid
<1> QED  BY <1>9, <1>10, <1>11, <1>12 DEF IInv

(* A file comes or goes while every call in progress is on another file.   *)
LEMMA FilesStep ==
  ASSUME IInv, NEW files \in SUBSET Files, opened' = files,
         fpos' \in [Files -> Nat], mod = "live",
         \A p \in Procs : pc[p] # "idle" => call[p].file \in files,
         UNCHANGED <<mod, device, mutex, pc, call, heap>>
  PROVE  IInv'
<1>1. UNCHANGED <<mod, buffer, working, mutex, pc, call, live, mem, leaked>>
  BY DEF device, heap
<1>2. TypeOK' /\ RingShape(buffer)' /\ UnusedZero(buffer)' /\ Loaded'
  BY <1>1 DEF IInv, TypeOK, Loaded
<1>3. MutexHeld' /\ ReadTargetValid'
  BY <1>1 DEF IInv, MutexHeld, ReadTargetValid
<1>4. FramesOK'
  <2> SUFFICES ASSUME NEW p \in Procs  PROVE FrameOK(pc[p], call[p], files)
    BY <1>1 DEF FramesOK
  <2>1. FrameOK(pc[p], call[p], opened)
    BY DEF IInv, FramesOK
  <2> QED  BY <2>1 DEF FrameOK
<1>5. HeapSound'
  BY <1>1, HeapUntouched DEF IInv
<1> QED  BY <1>2, <1>3, <1>4, <1>5 DEF IInv

LEMMA OpenStep ==
  ASSUME IInv, NEW f \in Files, Open(f)
  PROVE  IInv'
<1> DEFINE files == opened \union {f}
<1>1. /\ mod = "live" /\ opened' = files
      /\ UNCHANGED <<mod, device, mutex, pc, call, heap, fpos>>
  BY DEF Open
<1>2. files \in SUBSET Files /\ fpos' \in [Files -> Nat]
  BY <1>1 DEF IInv, TypeOK
<1>3. \A p \in Procs : pc[p] # "idle" => call[p].file \in files
  BY OneFrame
<1> HIDE DEF files
<1> QED  BY <1>1, <1>2, <1>3, FilesStep

LEMMA ReleaseStep ==
  ASSUME IInv, NEW f \in Files, Release(f)
  PROVE  IInv'
<1> DEFINE files == opened \ {f}
<1>1. /\ f \in opened /\ opened' = files /\ \A p \in Procs : call[p].file # f
      /\ fpos' = [fpos EXCEPT ![f] = 0]
      /\ UNCHANGED <<mod, device, mutex, pc, call, heap>>
  BY DEF Release
<1>2. files \in SUBSET Files /\ fpos' \in [Files -> Nat] /\ mod = "live"
  BY <1>1 DEF IInv, TypeOK, Loaded
<1>3. \A p \in Procs : pc[p] # "idle" => call[p].file \in files
  BY <1>1, OneFrame
<1> HIDE DEF files
<1> QED  BY <1>1, <1>2, <1>3, FilesStep

-----------------------------------------------------------------------------
LEMMA InitInv == Init => IInv
<1> SUFFICES ASSUME Init  PROVE IInv
  OBVIOUS
<1>1. NoCall \in Frames /\ NoCall.wbuf = Null
  <2>1. <<>> \in Seq(Byte)
    BY EmptySeq
  <2> QED  BY <2>1 DEF NoCall, Frames, Whences, SEEK_SET
<1>2. TypeOK
  BY <1>1, EmptyBufferShape, EmptySeq DEF Init, TypeOK, Labels
<1>3. RingShape(buffer) /\ UnusedZero(buffer) /\ Loaded
  BY EmptyBufferShape DEF Init, Loaded
<1>4. MutexHeld
  BY ProcAssumption DEF Init, MutexHeld, Critical
<1>5. FramesOK
  <2>1. FrameOK("idle", NoCall, {})
    BY <1>1 DEF FrameOK, Writing
  <2> QED  BY <2>1 DEF Init, FramesOK
<1>6. HeapSound /\ ReadTargetValid
  BY DEF Init, HeapSound, ReadTargetValid
<1> QED  BY <1>2, <1>3, <1>4, <1>5, <1>6 DEF IInv

(* A step that changes no variable.                                        *)
LEMMA StutterStep ==
  ASSUME IInv, UNCHANGED vars
  PROVE  IInv'
<1>1. UNCHANGED <<mod, buffer, working, mutex, opened, fpos, pc, call, live, mem, leaked>>
  BY DEF vars
<1>2. TypeOK' /\ RingShape(buffer)' /\ UnusedZero(buffer)' /\ Loaded'
  BY <1>1 DEF IInv, TypeOK, Loaded
<1>3. MutexHeld' /\ FramesOK' /\ ReadTargetValid'
  BY <1>1 DEF IInv, MutexHeld, FramesOK, ReadTargetValid
<1>4. HeapSound'
  BY <1>1, HeapUntouched DEF IInv
<1> QED  BY <1>2, <1>3, <1>4 DEF IInv

LEMMA NextStep == IInv /\ [Next]_vars => IInv'
<1> SUFFICES ASSUME IInv, [Next]_vars  PROVE IInv'
  OBVIOUS
<1>1. CASE Module
  BY <1>1, InitModuleStep, SetupCdevStep, CleanupModuleStep, OpenStep, ReleaseStep
     DEF Module
<1>2. ASSUME NEW p \in Procs, Call(p)  PROVE IInv'
  BY <1>2, ReadCallStep, WriteCallStep, LlseekCallStep, IoctlCallStep DEF Call
<1>3. ASSUME NEW p \in Procs, Lock(p)  PROVE IInv'
  BY <1>3, ReadLockStep, WriteLockStep, LlseekLockStep, IoctlLockStep DEF Lock
<1>4. ASSUME NEW p \in Procs, Run(p)  PROVE IInv'
  BY <1>4, ReadFindNextStep, ReadFindNoneStep, ReadFindEntryStep, ReadCopyStep,
     WriteReallocStep, WriteReallocFailsStep, WriteCopyStep, LlseekSumStep,
     LlseekTargetStep, LlseekSetStep, IoctlCheckStep, IoctlSumStep, IoctlUnlockStep,
     IoctlSetStep, VfsReturnStep DEF Run
<1>5. CASE UNCHANGED vars
  BY <1>5, StutterStep
<1> QED  BY <1>1, <1>2, <1>3, <1>4, <1>5 DEF Next

(***************************************************************************)
(* IInv is an inductive invariant of the driver.                           *)
(***************************************************************************)
THEOREM Invariance == Spec => []IInv
BY InitInv, NextStep, PTL DEF Spec

(***************************************************************************)
(* The driver's state keeps its type, in particular the two uint8_t        *)
(* offsets of the ring and every file position.                            *)
(***************************************************************************)
THEOREM TypeCorrect == Spec => []TypeOK
<1>1. IInv => TypeOK
  BY DEF IInv
<1> QED  BY <1>1, Invariance, PTL

(***************************************************************************)
(* The driver's memory is sound: with any number of concurrent calls and   *)
(* in spite of any kernel fault, it neither frees a block it still refers  *)
(* to, nor frees one twice, nor shares one between two owners, and loses   *)
(* blocks only when krealloc fails or the module is unloaded.              *)
(***************************************************************************)
THEOREM HeapIsSound == Spec => []HeapSound
<1>1. IInv => HeapSound
  BY DEF IInv
<1> QED  BY <1>1, Invariance, PTL

(***************************************************************************)
(* The entry and the byte that aesd_read found are still there when        *)
(* copy_to_user reads them.                                                *)
(***************************************************************************)
THEOREM ReadTargetIsValid == Spec => []ReadTargetValid
<1>1. IInv => ReadTargetValid
  BY DEF IInv
<1> QED  BY <1>1, Invariance, PTL

=============================================================================
