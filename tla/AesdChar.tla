------------------------------ MODULE AesdChar ------------------------------
(***************************************************************************)
(* The aesdchar character driver, aesd-char-driver/main.c.                 *)
(*                                                                         *)
(* Processes call read, write, llseek and ioctl on open files of one       *)
(* device.  A handler is a sequence of steps: what it does before it takes *)
(* buf_mutex, each iteration of a loop under the mutex, and what it does   *)
(* after the unlock are steps of their own, so that calls of different     *)
(* processes interleave wherever the kernel lets them.                     *)
(*                                                                         *)
(* The kernel heap is modelled (live, mem): the driver's entries are       *)
(* pointers, and who frees what is part of its correctness.                *)
(***************************************************************************)
EXTENDS CircularBuffer, SequencesExt

CONSTANTS
  Procs,           \* processes (or threads) that make system calls
  Files,           \* struct file objects that may be open on the device
  Blocks,          \* addresses the kernel allocator can hand out
  Byte,            \* byte values
  Newline,         \* the byte '\n'
  Garbage,         \* what uninitialized memory holds
  NoProc, NoFile,  \* no process, no file
  Ops,             \* system calls made in this instance
  Faults,          \* failures of the kernel that may happen
  UserBufs,        \* buffers user space passes to write
  ReadCounts,      \* counts user space passes to read
  SeekOffsets,     \* offsets user space passes to llseek
  SeekArgs,        \* <<write_cmd, write_cmd_offset>> passed to ioctl
  MaxLine,         \* bound: no write starts beyond this size of working_entry
  MaxPos,          \* bound: no write starts that takes f_pos beyond this
  MaxLost          \* bound: unloading never loses more blocks than this

ASSUME ByteAssumption ==
  /\ {Newline, Garbage} \subseteq Byte
  /\ UserBufs \subseteq Seq(Byte)

(***************************************************************************)
(* Garbage marks a byte nobody wrote.  The driver never looks at one, and  *)
(* the newlines the properties speak of are newlines that were written.    *)
(***************************************************************************)
ASSUME MarkAssumption ==
  /\ Garbage # Newline
  /\ \A data \in UserBufs : Garbage \notin Range(data)

ASSUME HeapAssumption == Null \notin Blocks

ASSUME ProcAssumption ==
  /\ NoProc \notin Procs
  /\ NoFile \notin Files

ASSUME ArgAssumption ==
  /\ ReadCounts \subseteq Nat
  /\ SeekOffsets \subseteq Int
  /\ SeekArgs \subseteq Nat \X Nat
  /\ MaxLine \in Nat
  /\ MaxPos \in Nat
  /\ MaxLost \in Nat

VARIABLES
  mod,      \* state of the kernel module: "unloaded", "init" or "live"
  buffer,   \* aesd_device.buffer
  working,  \* aesd_device.working_entry
  mutex,    \* the holder of aesd_device.buf_mutex, or NoProc
  opened,   \* the open files
  fpos,     \* f_pos of each file
  pc,       \* where each process is
  call,     \* the arguments and locals of each process's call
  live,     \* the allocated blocks
  mem,      \* the bytes of each block
  leaked    \* history: blocks whose last pointer the driver overwrote

device  == <<buffer, working>>
heap    == <<live, mem, leaked>>
vfs     == <<mod, opened, fpos>>
vars    == <<mod, buffer, working, mutex, opened, fpos, pc, call,
             live, mem, leaked>>

EINVAL      == -22
ENOTTY      == -25
EFAULT      == -14
ENOMEM      == -12
ERESTARTSYS == -512

SEEK_SET  == "SEEK_SET"
SEEK_CUR  == "SEEK_CUR"
SEEK_END  == "SEEK_END"
SEEK_DATA == "SEEK_DATA"
Whences   == {SEEK_SET, SEEK_CUR, SEEK_END, SEEK_DATA}

(* The frame of a process that is in no call.                              *)
NoCall ==
  [op     |-> "none",  file  |-> NoFile,    \* system call and file
   data   |-> <<>>,    count |-> 0,         \* user buffer, count, write_cmd
   arg    |-> 0,       whence |-> SEEK_SET, \* off of llseek, offset of ioctl
   pos    |-> 0,                            \* *f_pos
   wbuf   |-> Null,                         \* write_buf
   idx    |-> 0,       acc   |-> 0,         \* loop index and running offset
   ret    |-> 0]                            \* return value

Frame(opname, f) == [NoCall EXCEPT !.op = opname, !.file = f]

Goto(p, label, frame) ==
  /\ pc' = [pc EXCEPT ![p] = label]
  /\ call' = [call EXCEPT ![p] = frame]

(***************************************************************************)
(* The handler of p, called with frame, returns r to the virtual file      *)
(* system; only *f_pos outlives its arguments and locals.                  *)
(***************************************************************************)
Return(p, frame, r) ==
  Goto(p, "ret", [Frame(frame.op, frame.file) EXCEPT !.pos = frame.pos, !.ret = r])

Finish(p, r) == Return(p, call[p], r)

May(fault) == fault \in Faults

-----------------------------------------------------------------------------
(***************************************************************************)
(* The kernel's allocator and mutex.                                       *)
(***************************************************************************)

FreeBlocks == Blocks \ live

(* mem after the blocks of S are freed.                                    *)
Scrub(m, S) == [b \in Blocks |-> IF b \in S THEN <<>> ELSE m[b]]

(* The bytes of a block of n bytes that krealloc grew from old.            *)
Resize(old, n) == [i \in 1..n |-> IF i <= Len(old) THEN old[i] ELSE Garbage]

(* Mutant: the bytes go one place too far.                                 *)
MemcpyBeyond(dst, at, src, n) ==
  [i \in 1..Len(dst) |-> IF i \in (at + 2)..(at + n) THEN src[i - at - 1] ELSE dst[i]]

(* memcpy(dst + at, src, n).                                               *)
Memcpy(dst, at, src, n) ==
  [i \in 1..Len(dst) |-> IF i \in (at + 1)..(at + n) THEN src[i - at] ELSE dst[i]]

MutexLock(p) ==
  /\ mutex = NoProc
  /\ mutex' = p

MutexUnlock == mutex' = NoProc

(* mutex_lock_interruptible gives up only while it waits.                  *)
Interrupted ==
  /\ May("signal")
  /\ mutex # NoProc
  /\ UNCHANGED mutex

-----------------------------------------------------------------------------
(***************************************************************************)
(* aesd_init_module, aesd_setup_cdev, aesd_cleanup_module, aesd_open and   *)
(* aesd_release.  The device node answers opens once cdev_add has run; the *)
(* module cannot be removed while one of its files is open.  A closed      *)
(* struct file is gone, and the next open starts at f_pos 0.               *)
(***************************************************************************)

InitModule ==
  /\ mod = "unloaded"
  /\ mod' = "init"
  /\ buffer' = EmptyBuffer
  /\ working' = ZeroEntry
  /\ mutex' = NoProc
  /\ UNCHANGED <<opened, fpos, pc, call, heap>>

SetupCdev ==
  /\ mod = "init"
  /\ \/ mod' = "live"
     \/ May("cdev_add") /\ mod' = "unloaded"
  /\ UNCHANGED <<device, mutex, opened, fpos, pc, call, heap>>

(* The entries are freed; working_entry.buffptr is only set to NULL.       *)
CleanupModule ==
  LET freed == {buffer.entry[i].buffptr : i \in Slots}
      lost  == leaked \union ({working.buffptr} \ {Null})
  IN  /\ mod = "live"
      /\ opened = {}
      /\ lost = leaked \/ Cardinality(lost) <= MaxLost
      /\ mod' = "unloaded"
      /\ working' = [working EXCEPT !.buffptr = Null]
      /\ live' = live \ freed
      /\ mem' = Scrub(mem, freed)
      /\ leaked' = lost
      /\ UNCHANGED <<buffer, mutex, opened, fpos, pc, call>>

Open(f) ==
  /\ mod = "live"
  /\ f \notin opened
  /\ opened' = opened \union {f}
  /\ UNCHANGED <<mod, device, mutex, fpos, pc, call, heap>>

Release(f) ==
  /\ f \in opened
  /\ \A p \in Procs : call[p].file # f
  /\ opened' = opened \ {f}
  /\ fpos' = [fpos EXCEPT ![f] = 0]
  /\ UNCHANGED <<mod, device, mutex, pc, call, heap>>

(***************************************************************************)
(* The virtual file system hands read and write a copy of f_pos and stores *)
(* the copy back when the handler succeeds.                                *)
(***************************************************************************)
VfsReturn(p) ==
  LET c == call[p]
  IN  /\ pc[p] = "ret"
      /\ Goto(p, "idle", NoCall)
      /\ fpos' = IF c.op \in {"read", "write"} /\ c.ret >= 0
                 THEN [fpos EXCEPT ![c.file] = c.pos]
                 ELSE fpos
      /\ UNCHANGED <<mod, opened, device, mutex, heap>>

(* p can make the system call opname on f.                                 *)
MayCall(p, opname, f) ==
  /\ opname \in Ops
  /\ pc[p] = "idle"
  /\ f \in opened

-----------------------------------------------------------------------------
(***************************************************************************)
(* aesd_read.                                                              *)
(***************************************************************************)

ReadCall(p, f, count) ==
  LET frame == [Frame("read", f) EXCEPT !.count = count, !.pos = fpos[f]]
  IN  /\ MayCall(p, "read", f)
      /\ \/ Goto(p, "read_lock", frame)
         \/ May("null_buf") /\ Return(p, frame, EINVAL)
      /\ UNCHANGED <<vfs, device, mutex, heap>>

ReadLock(p) ==
  /\ pc[p] = "read_lock"
  /\ \/ /\ MutexLock(p)
        /\ Goto(p, "read_find", [call[p] EXCEPT !.idx = buffer.out_offs, !.acc = 0])
     \/ Interrupted /\ Finish(p, ERESTARTSYS)
  /\ UNCHANGED <<vfs, device, heap>>

(* An iteration of the search that passes over the entry at idx.           *)
ReadFindNext(p) ==
  LET c == call[p]
  IN  /\ pc[p] = "read_find"
      /\ ~FindHere(buffer, c.idx, c.acc, c.pos)
      /\ FindNext(c.idx) # buffer.in_offs
      /\ Goto(p, "read_find", [c EXCEPT !.idx = FindNext(c.idx),
                                        !.acc = @ + buffer.entry[c.idx].size])
      /\ UNCHANGED <<vfs, device, mutex, heap>>

(* The search finds nothing: end of file.                                  *)
ReadFindNone(p) ==
  LET c == call[p]
  IN  /\ pc[p] = "read_find"
      /\ ~FindHere(buffer, c.idx, c.acc, c.pos)
      /\ FindNext(c.idx) = buffer.in_offs
      /\ MutexUnlock
      /\ Finish(p, 0)
      /\ UNCHANGED <<vfs, device, heap>>

(* Mutant: the mutex is dropped before the bytes are copied out.           *)
ReadFindEntryUnlocks(p) ==
  LET c == call[p]
  IN  /\ pc[p] = "read_find"
      /\ FindHere(buffer, c.idx, c.acc, c.pos)
      /\ MutexUnlock
      /\ Goto(p, "read_copy", [c EXCEPT !.acc = FindByte(buffer, c.idx, c.acc, c.pos)])
      /\ UNCHANGED <<vfs, device, heap>>

ReadFindEntry(p) ==
  LET c == call[p]
  IN  /\ pc[p] = "read_find"
      /\ FindHere(buffer, c.idx, c.acc, c.pos)
      /\ Goto(p, "read_copy", [c EXCEPT !.acc = FindByte(buffer, c.idx, c.acc, c.pos)])
      /\ UNCHANGED <<vfs, device, mutex, heap>>

ReadCopy(p) ==
  LET c     == call[p]
      entry == buffer.entry[c.idx]
      left  == entry.size - c.acc
      n     == IF left > c.count THEN c.count ELSE left
  IN  /\ pc[p] = "read_copy"
      /\ \/ Goto(p, "ret", [Frame("read", c.file) EXCEPT
                             !.data = SubSeq(mem[entry.buffptr], c.acc + 1, c.acc + n),
                             !.pos = c.pos + n, !.ret = n])
         \/ May("copy") /\ Finish(p, EFAULT)
      /\ MutexUnlock
      /\ UNCHANGED <<vfs, device, heap>>

-----------------------------------------------------------------------------
(***************************************************************************)
(* aesd_write.                                                             *)
(***************************************************************************)

(* The index of the first newline of a buffer, 0 when there is none.       *)
NewlineAt(data) == SelectInSeq(data, LAMBDA b : b = Newline)

(* Mutant: bytes after the newline are kept.                               *)
BytesToWriteAll(data) == Len(data)

(* bytes_to_write: up to the first newline, or everything.                 *)
BytesToWrite(data) == IF NewlineAt(data) # 0 THEN NewlineAt(data) ELSE Len(data)

WriteCall(p, f, data) ==
  LET frame == [Frame("write", f) EXCEPT !.data = data, !.pos = fpos[f]]
  IN  /\ MayCall(p, "write", f)
      /\ working.size + Len(data) <= MaxLine
      /\ fpos[f] + Len(data) <= MaxPos
      /\ \/ \E b \in FreeBlocks :
              /\ live' = live \union {b}
              /\ mem' = [mem EXCEPT ![b] = data]
              /\ Goto(p, "write_lock", [frame EXCEPT !.wbuf = b])
         \/ /\ \/ May("null_buf") /\ Return(p, frame, EINVAL)
               \/ May("kmalloc") /\ Return(p, frame, ENOMEM)
               \/ FreeBlocks = {} /\ Return(p, frame, ENOMEM)
               \/ May("copy") /\ FreeBlocks # {} /\ Return(p, frame, EFAULT)
            /\ UNCHANGED <<live, mem>>
      /\ UNCHANGED <<vfs, device, mutex, leaked>>

(* Mutant: an error path forgets write_buf.                                *)
ForgetWriteBuf(p) == UNCHANGED <<live, mem>>

(* kfree(write_buf).                                                       *)
FreeWriteBuf(p) ==
  /\ live' = live \ {call[p].wbuf}
  /\ mem' = Scrub(mem, {call[p].wbuf})

WriteLock(p) ==
  /\ pc[p] = "write_lock"
  /\ \/ /\ MutexLock(p)
        /\ Goto(p, "write_realloc", call[p])
        /\ UNCHANGED <<live, mem>>
     \/ Interrupted /\ Finish(p, ERESTARTSYS) /\ FreeWriteBuf(p)
  /\ UNCHANGED <<vfs, device, leaked>>

(* krealloc of working_entry.buffptr, in place or to another block.        *)
WriteRealloc(p) ==
  LET old   == working.buffptr
      bytes == IF old = Null THEN <<>> ELSE mem[old]
      room  == FreeBlocks \union ({old} \ {Null})
      n     == working.size + BytesToWrite(call[p].data)
  IN  /\ pc[p] = "write_realloc"
      /\ \E q \in room :
           /\ working' = [working EXCEPT !.buffptr = q]
           /\ live' = (live \ {old}) \union {q}
           /\ mem' = [Scrub(mem, {old}) EXCEPT ![q] = Resize(bytes, n)]
      /\ Goto(p, "write_copy", call[p])
      /\ UNCHANGED <<vfs, buffer, mutex, leaked>>

(***************************************************************************)
(* krealloc fails: it leaves the old block alone, but its result has       *)
(* already replaced working_entry.buffptr; working_entry.size stays.       *)
(***************************************************************************)
WriteReallocFails(p) ==
  LET old == working.buffptr
  IN  /\ pc[p] = "write_realloc"
      /\ \/ May("krealloc")
         \/ FreeBlocks \union ({old} \ {Null}) = {}
      /\ working' = [working EXCEPT !.buffptr = Null]
      /\ leaked' = leaked \union ({old} \ {Null})
      /\ MutexUnlock
      /\ FreeWriteBuf(p)
      /\ Finish(p, ENOMEM)
      /\ UNCHANGED <<vfs, buffer>>

(***************************************************************************)
(* The bytes are appended to working_entry, which becomes an entry of the  *)
(* buffer when they end in a newline.  f_pos advances by count, and count  *)
(* is returned, however much of the buffer was used.                       *)
(***************************************************************************)
WriteCopy(p) ==
  LET c     == call[p]
      n     == BytesToWrite(c.data)
      entry == [working EXCEPT !.size = @ + n]
      bytes == Memcpy(mem[entry.buffptr], working.size, mem[c.wbuf], n)
      line  == NewlineAt(c.data) # 0
      freed == {c.wbuf} \union (IF line THEN {Overwritten(buffer)} \ {Null} ELSE {})
  IN  /\ pc[p] = "write_copy"
      /\ buffer' = IF line THEN AddEntry(buffer, entry) ELSE buffer
      /\ working' = IF line THEN ZeroEntry ELSE entry
      /\ live' = live \ freed
      /\ mem' = Scrub([mem EXCEPT ![entry.buffptr] = bytes], freed)
      /\ MutexUnlock
      /\ Return(p, [c EXCEPT !.pos = @ + Len(c.data)], Len(c.data))
      /\ UNCHANGED <<vfs, leaked>>

-----------------------------------------------------------------------------
(***************************************************************************)
(* aesd_llseek.                                                            *)
(***************************************************************************)

LlseekCall(p, f, off, whence) ==
  /\ MayCall(p, "llseek", f)
  /\ Goto(p, "seek_lock", [Frame("llseek", f) EXCEPT !.arg = off, !.whence = whence])
  /\ UNCHANGED <<vfs, device, mutex, heap>>

LlseekLock(p) ==
  /\ pc[p] = "seek_lock"
  /\ \/ MutexLock(p) /\ Goto(p, "seek_sum", [call[p] EXCEPT !.idx = 0, !.acc = 0])
     \/ Interrupted /\ Finish(p, ERESTARTSYS)
  /\ UNCHANGED <<vfs, device, heap>>

(* An iteration of AESD_CIRCULAR_BUFFER_FOREACH.                           *)
LlseekSum(p) ==
  LET c == call[p]
  IN  /\ pc[p] = "seek_sum"
      /\ c.idx < N
      /\ Goto(p, "seek_sum", [c EXCEPT !.idx = @ + 1,
                                       !.acc = @ + buffer.entry[c.idx].size])
      /\ UNCHANGED <<vfs, device, mutex, heap>>

(***************************************************************************)
(* fixed_size_llseek of the kernel: the new position, or -1.  SEEK_CUR     *)
(* with offset 0 answers the position without checking it.                 *)
(***************************************************************************)
FixedSizeLlseek(cur, off, whence, size) ==
  LET target == CASE whence = SEEK_SET -> off
                  [] whence = SEEK_CUR -> cur + off
                  [] whence = SEEK_END -> size + off
                  [] OTHER -> -1
  IN  IF \/ whence = SEEK_CUR /\ off = 0
         \/ target \in 0..size
      THEN target ELSE -1

(* Mutant: the mutex is released once the sizes are added up, too.         *)
LlseekTargetUnlocks(p) ==
  LET c   == call[p]
      pos == FixedSizeLlseek(fpos[c.file], c.arg, c.whence, c.acc)
  IN  /\ pc[p] = "seek_sum"
      /\ c.idx = N
      /\ fpos' = IF pos >= 0 THEN [fpos EXCEPT ![c.file] = pos] ELSE fpos
      /\ Goto(p, "seek_set", [c EXCEPT !.ret = pos])
      /\ MutexUnlock
      /\ UNCHANGED <<mod, opened, device, heap>>

(***************************************************************************)
(* The call of fixed_size_llseek, which reads f_pos and stores the new     *)
(* position itself.  buf_mutex keeps neither aesd_ioctl nor the virtual    *)
(* file system from storing another f_pos before LlseekSet.                *)
(***************************************************************************)
LlseekTarget(p) ==
  LET c   == call[p]
      pos == FixedSizeLlseek(fpos[c.file], c.arg, c.whence, c.acc)
  IN  /\ pc[p] = "seek_sum"
      /\ c.idx = N
      /\ fpos' = IF pos >= 0 THEN [fpos EXCEPT ![c.file] = pos] ELSE fpos
      /\ Goto(p, "seek_set", [c EXCEPT !.ret = pos])
      /\ UNCHANGED <<mod, opened, device, mutex, heap>>

(* The handler's own store of retval, over whatever f_pos is by then.      *)
LlseekSet(p) ==
  LET c == call[p]
  IN  /\ pc[p] = "seek_set"
      /\ fpos' = IF c.ret >= 0 THEN [fpos EXCEPT ![c.file] = c.ret] ELSE fpos
      /\ Finish(p, IF c.ret >= 0 THEN c.ret ELSE EINVAL)
      /\ MutexUnlock
      /\ UNCHANGED <<mod, opened, device, heap>>

-----------------------------------------------------------------------------
(***************************************************************************)
(* aesd_ioctl, AESDCHAR_IOCSEEKTO.                                         *)
(***************************************************************************)

IoctlCall(p, f, write_cmd, write_cmd_offset) ==
  LET frame == [Frame("ioctl", f) EXCEPT !.count = write_cmd, !.arg = write_cmd_offset]
  IN  /\ MayCall(p, "ioctl", f)
      /\ \/ Goto(p, "ioctl_lock", frame)
         \/ May("bad_cmd") /\ Return(p, frame, ENOTTY)
         \/ May("copy") /\ Return(p, frame, EFAULT)
      /\ UNCHANGED <<vfs, device, mutex, heap>>

IoctlLock(p) ==
  /\ pc[p] = "ioctl_lock"
  /\ \/ MutexLock(p) /\ Goto(p, "ioctl_check", call[p])
     \/ Interrupted /\ Finish(p, ERESTARTSYS)
  /\ UNCHANGED <<vfs, device, heap>>

(* Mutant: the offset may equal the length of the command.                 *)
SeekAcceptedAtEnd(write_cmd, write_cmd_offset) ==
  /\ write_cmd <= N
  /\ IF write_cmd = N THEN working.buffptr # Null
     ELSE write_cmd_offset <= buffer.entry[write_cmd].size

(***************************************************************************)
(* The bounds check.  write_cmd = N passes the first test and reads        *)
(* entry[N].size, one past the array: in struct aesd_dev that word is      *)
(* working_entry.buffptr, 0 when NULL and otherwise a kernel address above *)
(* every 32-bit offset.                                                    *)
(***************************************************************************)
SeekAccepted(write_cmd, write_cmd_offset) ==
  /\ write_cmd <= N
  /\ IF write_cmd = N THEN working.buffptr # Null
     ELSE write_cmd_offset < buffer.entry[write_cmd].size

(* Mutant: the error return keeps the mutex.                               *)
IoctlCheckKeepsMutex(p) ==
  LET c == call[p]
  IN  /\ pc[p] = "ioctl_check"
      /\ IF SeekAccepted(c.count, c.arg)
         THEN Goto(p, "ioctl_sum", [c EXCEPT !.idx = 0, !.acc = 0])
         ELSE Finish(p, EINVAL)
      /\ UNCHANGED <<vfs, device, mutex, heap>>

IoctlCheck(p) ==
  LET c == call[p]
  IN  /\ pc[p] = "ioctl_check"
      /\ \/ /\ SeekAccepted(c.count, c.arg)
            /\ Goto(p, "ioctl_sum", [c EXCEPT !.idx = 0, !.acc = 0])
            /\ UNCHANGED mutex
         \/ /\ ~SeekAccepted(c.count, c.arg)
            /\ MutexUnlock
            /\ Finish(p, EINVAL)
      /\ UNCHANGED <<vfs, device, heap>>

IoctlSum(p) ==
  LET c == call[p]
  IN  /\ pc[p] = "ioctl_sum"
      /\ c.idx < c.count
      /\ Goto(p, "ioctl_sum", [c EXCEPT !.idx = @ + 1,
                                        !.acc = @ + buffer.entry[c.idx].size])
      /\ UNCHANGED <<vfs, device, mutex, heap>>

IoctlUnlock(p) ==
  /\ pc[p] = "ioctl_sum"
  /\ call[p].idx = call[p].count
  /\ MutexUnlock
  /\ Goto(p, "ioctl_set", call[p])
  /\ UNCHANGED <<vfs, device, heap>>

(* f_pos is assigned after the unlock.                                     *)
IoctlSet(p) ==
  LET c == call[p]
  IN  /\ pc[p] = "ioctl_set"
      /\ fpos' = [fpos EXCEPT ![c.file] = c.acc + c.arg]
      /\ Finish(p, 0)
      /\ UNCHANGED <<mod, opened, device, mutex, heap>>

-----------------------------------------------------------------------------
Init ==
  /\ mod = "unloaded"
  /\ buffer = EmptyBuffer
  /\ working = ZeroEntry
  /\ mutex = NoProc
  /\ opened = {}
  /\ fpos = [f \in Files |-> 0]
  /\ pc = [p \in Procs |-> "idle"]
  /\ call = [p \in Procs |-> NoCall]
  /\ live = {}
  /\ mem = [b \in Blocks |-> <<>>]
  /\ leaked = {}

Module ==
  \/ InitModule
  \/ SetupCdev
  \/ CleanupModule
  \/ \E f \in Files : Open(f) \/ Release(f)

Call(p) ==
  \E f \in Files :
    \/ \E count \in ReadCounts : ReadCall(p, f, count)
    \/ \E data \in UserBufs : WriteCall(p, f, data)
    \/ \E off \in SeekOffsets, whence \in Whences : LlseekCall(p, f, off, whence)
    \/ \E a \in SeekArgs : IoctlCall(p, f, a[1], a[2])

Lock(p) == ReadLock(p) \/ WriteLock(p) \/ LlseekLock(p) \/ IoctlLock(p)

Run(p) ==
  \/ ReadFindNext(p) \/ ReadFindNone(p) \/ ReadFindEntry(p) \/ ReadCopy(p)
  \/ WriteRealloc(p) \/ WriteReallocFails(p) \/ WriteCopy(p)
  \/ LlseekSum(p) \/ LlseekTarget(p) \/ LlseekSet(p)
  \/ IoctlCheck(p) \/ IoctlSum(p) \/ IoctlUnlock(p) \/ IoctlSet(p)
  \/ VfsReturn(p)

Next == Module \/ \E p \in Procs : Call(p) \/ Lock(p) \/ Run(p)

Spec == Init /\ [][Next]_vars

(***************************************************************************)
(* A process inside a handler keeps running, and a waiter is not passed    *)
(* over for ever: Linux hands a contended mutex to its first waiter.       *)
(* Nobody has to make a call or load the module.                           *)
(***************************************************************************)
FairSpec ==
  /\ Spec
  /\ \A p \in Procs : WF_vars(Run(p)) /\ SF_vars(Lock(p))

-----------------------------------------------------------------------------
Frames ==
  [op : {"none", "read", "write", "llseek", "ioctl"}, file : Files \union {NoFile},
   data : Seq(Byte), count : Nat, arg : Int, whence : Whences, pos : Nat,
   wbuf : Blocks \union {Null}, idx : Nat, acc : Nat, ret : Int]

Labels ==
  {"idle", "ret", "read_lock", "read_find", "read_copy",
   "write_lock", "write_realloc", "write_copy", "seek_lock", "seek_sum", "seek_set",
   "ioctl_lock", "ioctl_check", "ioctl_sum", "ioctl_set"}

Entries == [buffptr : Blocks \union {Null}, size : Nat]

Buffers ==
  [entry : [Slots -> Entries], in_offs : Slots, out_offs : Slots, full : BOOLEAN]

(* Type invariant: the shape of the driver's and the model's state.        *)
TypeOK ==
  /\ mod \in {"unloaded", "init", "live"}
  /\ buffer \in Buffers
  /\ working \in Entries
  /\ mutex \in Procs \union {NoProc}
  /\ opened \subseteq Files
  /\ fpos \in [Files -> Nat]
  /\ pc \in [Procs -> Labels]
  /\ call \in [Procs -> Frames]
  /\ live \subseteq Blocks
  /\ mem \in [Blocks -> Seq(Byte)]
  /\ leaked \subseteq Blocks

-----------------------------------------------------------------------------
(***************************************************************************)
(* Memory ownership.                                                       *)
(***************************************************************************)
EntryPtrs   == {buffer.entry[i].buffptr : i \in InUse(buffer)}
WriteBufs   == {call[p].wbuf : p \in Procs} \ {Null}
WorkingPtrs == {working.buffptr} \ {Null}

(* Every entry in use has a live block of its own of exactly size bytes.   *)
EntriesOwned ==
  \A i \in InUse(buffer) :
    LET e == buffer.entry[i]
    IN  /\ e.buffptr \in live \ (WriteBufs \union WorkingPtrs \union leaked)
        /\ e.size > 0
        /\ Len(mem[e.buffptr]) = e.size
        /\ \A j \in InUse(buffer) \ {i} : buffer.entry[j].buffptr # e.buffptr

(***************************************************************************)
(* working_entry's block is live, shared with nothing, and as long as size *)
(* says, or longer by the bytes a write has just made room for.            *)
(***************************************************************************)
WorkingOwned ==
  /\ working.buffptr # Null =>
       /\ working.buffptr \in live \ (WriteBufs \union leaked)
       /\ \/ Len(mem[working.buffptr]) = working.size
          \/ \E p \in Procs : pc[p] = "write_copy"
  /\ \A p \in Procs : pc[p] = "write_copy" =>
       /\ working.buffptr # Null
       /\ Len(mem[working.buffptr]) = working.size + BytesToWrite(call[p].data)

(* Every write_buf is live, private to its call and holds the user's data. *)
WriteBufsOwned ==
  \A p \in Procs : call[p].wbuf # Null =>
    /\ call[p].wbuf \in live \ leaked
    /\ mem[call[p].wbuf] = call[p].data
    /\ \A q \in Procs \ {p} : call[q].wbuf # call[p].wbuf

(***************************************************************************)
(* The driver's memory is sound: while the module is loaded no block is    *)
(* freed that is still referred to, no two owners share a block, and every *)
(* live block has an owner except those lost on the two paths that drop    *)
(* working_entry.buffptr (a failed krealloc, aesd_cleanup_module).  After  *)
(* unloading only lost blocks remain.                                      *)
(***************************************************************************)
HeapSound ==
  IF mod = "unloaded" THEN live = leaked
  ELSE /\ EntriesOwned
       /\ WorkingOwned
       /\ WriteBufsOwned
       /\ live = EntryPtrs \union WorkingPtrs \union WriteBufs \union leaked

(***************************************************************************)
(* The entry a read found is still in use, and the byte inside it, when    *)
(* copy_to_user reads it: nobody overwrites it between the two steps.      *)
(***************************************************************************)
ReadTargetValid ==
  \A p \in Procs : pc[p] = "read_copy" =>
    /\ call[p].idx \in InUse(buffer)
    /\ call[p].acc < buffer.entry[call[p].idx].size

(***************************************************************************)
(* The inductive invariant behind TypeOK, HeapSound and ReadTargetValid.   *)
(*   Loaded    : files are open only while the module is live, and a       *)
(*               module that is not live yet has an empty device;          *)
(*   MutexHeld : exactly the holder of buf_mutex is inside a critical      *)
(*               section;                                                  *)
(*   FrameOK   : what the locals of a call are at each label.              *)
(***************************************************************************)
Loaded ==
  /\ opened # {} => mod = "live"
  /\ mod = "init" => buffer = EmptyBuffer /\ working = ZeroEntry

Critical ==
  {"read_find", "read_copy", "write_realloc", "write_copy", "seek_sum",
   "seek_set", "ioctl_check", "ioctl_sum"}

MutexHeld == \A p \in Procs : pc[p] \in Critical <=> mutex = p

Writing == {"write_lock", "write_realloc", "write_copy"}

FrameOK(label, c, files) ==
  /\ IF label = "idle" THEN c = NoCall ELSE c.file \in files
  /\ c.wbuf # Null <=> label \in Writing
  /\ label \in {"read_find", "read_copy"} => c.idx \in Slots
  /\ label = "read_find" => c.acc <= c.pos
  /\ label = "seek_sum" => c.idx <= N
  /\ label \in {"ioctl_lock", "ioctl_check", "ioctl_sum", "ioctl_set"} => c.arg >= 0
  /\ label = "ioctl_sum" => c.idx <= c.count /\ c.count <= N

FramesOK == \A p \in Procs : FrameOK(pc[p], call[p], opened)

IInv ==
  /\ TypeOK
  /\ RingShape(buffer)
  /\ UnusedZero(buffer)
  /\ Loaded
  /\ MutexHeld
  /\ FramesOK
  /\ HeapSound
  /\ ReadTargetValid

(***************************************************************************)
(* The commands the device holds, as bytes, and their concatenation.       *)
(***************************************************************************)
Commands == [k \in 1..EntryCount(buffer) |-> mem[Contents(buffer)[k].buffptr]]
AllBytes == FlattenSeq(Commands)

Pending ==
  IF working.buffptr = Null THEN <<>> ELSE SubSeq(mem[working.buffptr], 1, working.size)

(* Every stored command is one line, and the pending bytes hold no newline.*)
CommandsAreLines ==
  mod # "unloaded" =>
    /\ \A k \in 1..EntryCount(buffer) :
         NewlineAt(Commands[k]) = Len(Commands[k]) /\ Commands[k] # <<>>
    /\ NewlineAt(Pending) = 0

(***************************************************************************)
(* "Number of bytes stored in buffptr": unless a block has been lost, all  *)
(* size bytes of every entry are bytes somebody wrote.  A failed krealloc  *)
(* loses the block but not its size, and only then uninitialized memory    *)
(* gets into an entry.                                                     *)
(***************************************************************************)
EntriesHoldWrittenBytes ==
  mod # "unloaded" /\ leaked = {} =>
    \A i \in InUse(buffer) : Garbage \notin Range(mem[buffer.entry[i].buffptr])

(***************************************************************************)
(* The inductive invariant behind CommandsAreLines and                     *)
(* EntriesHoldWrittenBytes, beside IInv.                                   *)
(*   WriteCalls     : what a write is given, and which calls are writes;   *)
(*   PendingWritten : the incomplete command, too, holds written bytes,    *)
(*                    and nothing of it is missing, unless krealloc fails. *)
(***************************************************************************)
WriteCalls ==
  \A p \in Procs :
    /\ pc[p] \in Writing => call[p].op = "write" /\ call[p].data \in UserBufs
    /\ pc[p] \notin Writing \union {"ret"} => call[p].op # "write"

Intact == mod # "unloaded" /\ (leaked = {} \/ ~May("krealloc"))

PendingWritten ==
  Intact => /\ working.buffptr = Null => working.size = 0
            /\ Garbage \notin Range(Pending)

LineInv == CommandsAreLines /\ EntriesHoldWrittenBytes /\ WriteCalls /\ PendingWritten

(***************************************************************************)
(* A read that succeeds returns the bytes at f_pos of the concatenation of *)
(* the commands, oldest first: at least one byte unless f_pos is at or     *)
(* past the end, at most count, and f_pos moves by what was returned.      *)
(***************************************************************************)
ReadStep(p) ==
  LET c == call[p]
      d == call'[p]
  IN  (pc[p] \in {"read_find", "read_copy"} /\ pc'[p] = "ret" /\ d.ret >= 0) =>
        /\ d.ret <= c.count
        /\ d.pos = c.pos + d.ret
        /\ IF d.ret = 0 THEN c.count = 0 \/ c.pos >= Len(AllBytes)
           ELSE d.data = SubSeq(AllBytes, c.pos + 1, c.pos + d.ret)
ReadReturnsWindow == [][\A p \in Procs : ReadStep(p)]_vars

(***************************************************************************)
(* The position a successful llseek answers is one of the bytes the device *)
(* holds at the moment it stores it, or their end; SEEK_END counts from    *)
(* that very end.  Only SEEK_CUR by 0 stores what it has read, unchecked.  *)
(***************************************************************************)
LlseekStep(p) ==
  LET c == call[p]
  IN  (pc[p] = "seek_set" /\ call'[p].ret >= 0) =>
        /\ ~(c.whence = SEEK_CUR /\ c.arg = 0) => c.ret \in 0..Len(AllBytes)
        /\ c.whence = SEEK_END => c.ret = Len(AllBytes) + c.arg
LlseekInRange == [][\A p \in Procs : LlseekStep(p)]_vars

(* Position pos of the concatenation is byte offset of the k-th command.   *)
Designates(pos, k, offset) ==
  /\ k < EntryCount(buffer)
  /\ offset < Len(Commands[k + 1])
  /\ pos = Len(FlattenSeq(SubSeq(Commands, 1, k))) + offset

(***************************************************************************)
(* As long as the ring has not wrapped, an ioctl accepted for one of the N *)
(* slots computes the position of byte write_cmd_offset of command         *)
(* write_cmd; and what it stores after the unlock is still that position,  *)
(* whatever was written in between, until the ring is full.                *)
(***************************************************************************)
IoctlStep(p) ==
  LET c == call[p]
  IN  /\ (pc[p] = "ioctl_sum" /\ pc'[p] = "ioctl_set" /\ c.count < N) =>
           (buffer.out_offs = 0 => Designates(c.acc + c.arg, c.count, c.arg))
      /\ (pc[p] = "ioctl_set" /\ pc'[p] = "ret" /\ c.count < N) =>
           (~buffer.full => Designates(fpos'[c.file], c.count, c.arg))
IoctlSeeksBeforeWrap == [][\A p \in Procs : IoctlStep(p)]_vars

(***************************************************************************)
(* The driver implements AesdLog: concurrent writes of partial and whole   *)
(* lines behave as if each ran alone, the ring holds the last N commands   *)
(* in order, and a failed write leaves no trace.  A failed krealloc does   *)
(* leave one, so this holds only without that fault.                       *)
(***************************************************************************)
Request(p) ==
  LET c == call[p]
  IN  CASE c.op # "write" -> [status |-> "none", data |-> <<>>]
        [] c.op = "write" /\ pc[p] # "ret" -> [status |-> "called", data |-> c.data]
        [] OTHER -> [status |-> IF c.ret >= 0 THEN "succeeded" ELSE "failed",
                     data   |-> <<>>]

Log == INSTANCE AesdLog WITH
         log     <- IF mod = "live" THEN Commands ELSE <<>>,
         pending <- IF mod = "live" THEN Pending ELSE <<>>,
         request <- [p \in Procs |-> Request(p)]

WritesAreAtomic == Log!LogSpec

(* Every system call on the device returns.                                *)
CallsReturn == \A p \in Procs : (pc[p] # "idle") ~> (pc[p] = "idle")

-----------------------------------------------------------------------------
(***************************************************************************)
(* What a comment of the source says and the code does not do; the run     *)
(* seek_wrapped finds a counterexample.                                    *)
(***************************************************************************)

(***************************************************************************)
(* "The zero referenced write command to seek into": an accepted seek      *)
(* moves f_pos to byte write_cmd_offset of the write_cmd-th command, also  *)
(* after the ring has wrapped.                                             *)
(***************************************************************************)
SeekStep(p) ==
  LET c == call[p]
  IN  (pc[p] = "ioctl_sum" /\ pc'[p] = "ioctl_set" /\ c.count < N) =>
        Designates(c.acc + c.arg, c.count, c.arg)
SeekFindsCommand == [][\A p \in Procs : SeekStep(p)]_vars

=============================================================================
