# Verification of the AESD character driver, socket server and examples

TLA+ models of the programs of this repository that run concurrently: the
kernel driver `aesd-char-driver/`, the socket server `server/` that stores its
log in the driver's device, the two together, and the process and thread
examples `examples/systemcalls` and `examples/threading`. TLC checks them on
small instances. TLAPS proves every invariant those runs check, and that the
driver implements its abstract specification, for every size.

## 1. Inventory

| component | state | operations | interacts with |
|---|---|---|---|
| circular buffer (`aesd-circular-buffer.{c,h}`) | `entry[10]`, `in_offs`, `out_offs`, `full` | `init`, `add_entry`, `find_entry_offset_for_fpos`, the FOREACH macro | called by the driver under its mutex |
| aesdchar driver (`main.c`, `aesdchar.h`, `aesd_ioctl.h`) | `aesd_device` (ring, `working_entry`, `buf_mutex`), the kernel heap, `f_pos` of each file | load, unload, open, release, read, write, llseek, ioctl | any number of processes, the kernel's allocator, mutex and virtual file system |
| socket server (`aesdsocket.c`) | thread list, `signal_caught`, `timer_fired`, `log_mutex`, sockets, the workers' locals | start, accept loop, worker, reaping, signal and timer handlers, timestamps, shutdown | clients over TCP, the device (or a file) through stdio |
| SLIST macros (`queue.h`) | a singly-linked list | insert at head, remove, iterate safely | used by the server's main thread |
| `examples/systemcalls` | processes, `outputfile` | `do_system`, `do_exec`, `do_exec_redirect` | the caller's program, which a failed `execv` duplicates; commands |
| `examples/threading` | `thread_data` structs, the caller's mutex | `start_thread_obtaining_mutex`, `threadfunc` | the caller, which starts and joins threads |
| `finder-app`, `examples/autotest-validate`, scripts | none | file I/O, constants, build and service scripts | not modelled: nothing in them runs concurrently or keeps state |

What is hard here: handlers of several processes interleave at every step that
is not under `buf_mutex`; ownership of memory moves from `write_buf` to
`working_entry` to a slot of the ring and on to `kfree`; the ring has the same
offsets when empty and when full; each error path must undo exactly what was
done; a position means another byte after an eviction. In the server, workers
finish while the main thread walks the list of their structs, TCP splits
packets anywhere, signals and timers arrive between a test and a blocking call,
and the device is read back while others write to it, under a second mutex. In
`systemcalls` a child that cannot execute its command becomes a second caller.
`PROJECT.json` lists these hazards line by line with the properties that cover them.

What makes the components correct:

- **circular buffer**: it holds the last N commands in order; a read position is
  found in the right entry; an overwritten pointer is handed back exactly once.
- **driver**: no block is freed while it is referred to, shared or forgotten; a
  read returns a window of the concatenated commands; writes are atomic; a seek
  lands in the device; every call returns.
- **server**: list, structs and threads agree; an answer is the log's
  contents; a signal ends the server with every worker joined; a timer that has
  fired is served. Over the real driver it behaves as over an atomic log.
- **systemcalls**: `fd` is closed and children awaited on every path, in
  parent and child; redirected output is that of the command; calls return.
- **threading**: a mutex is held exactly from lock to unlock, by a thread that
  reports success for its time, as far as seconds can tell; threads return.

## 2. Modules

| module | models | kind |
|---|---|---|
| `CircularBuffer` | the ring as operators on a record; no variables | used by `AesdChar` |
| `AesdChar` | the driver | state machine, EXTENDS `CircularBuffer` |
| `CommandLog` | the log of commands as values: what a write adds, what a read returns | operators |
| `AesdLog` | what the device promises its writers: each write takes effect once and atomically or not at all | abstract state machine, EXTENDS `CommandLog` |
| `AesdSocket` | the server, in both builds, on top of a log that behaves like `CommandLog` (or a file) | state machine |
| `AesdSystem` | the server on top of the driver | composition: INSTANCE of `AesdSocket` and of `AesdChar` |
| `SystemCalls` | `examples/systemcalls` | state machine |
| `Threading` | `examples/threading` | state machine |
| `AesdCharProofs` | theorems about `AesdChar`: memory, mutual exclusion, read targets | proofs |
| `AesdCharLogProofs` | theorems about what the ring holds; `AesdChar` implements `AesdLog` | proofs, EXTENDS `AesdCharProofs` |
| `AesdSocketProofs` | theorems about `AesdSocket` | proofs |
| `AesdSystemProofs` | theorems about `AesdSystem` | proofs, with an INSTANCE of `AesdSocketProofs` |
| `SystemCallsProofs`, `ThreadingProofs` | theorems about `SystemCalls` and `Threading` | proofs |
| `MCAesdChar`, `MCAesdSocket`, `MCAesdSystem` | values for TLC | model-checking modules |

`AesdChar` refines `AesdLog` (property `WritesAreAtomic`, by `INSTANCE AesdLog
WITH` the ring read as a sequence), and `AesdSocket` uses the operators of the
same `CommandLog` for its device. `AesdSystem` closes the gap: it runs the
server's workers through the driver's handlers and is shown to implement
`AesdSocket` (property `ImplementsServer`).

### AesdChar

State: `buffer` and `working` are the members of `aesd_device`; `mutex` is the
holder of `buf_mutex`; `fpos` and `opened` stand for the open `struct file`s; `pc`
and `call` are the program counter and the locals of each process; `live` and `mem`
are the kernel heap; `leaked` is a history variable that collects the blocks whose last
pointer the driver overwrote (it is never read by an action's effect on another variable).

A handler is cut where another process can run in between: before the lock
(`ReadCall`, `WriteCall`, `LlseekCall`, `IoctlCall`), at the lock (`...Lock`, which
acquires or is interrupted while it waits), under the mutex (each loop
iteration, the search, the copy), and after the unlock (`IoctlSet`, and
`VfsReturn`, where the kernel stores the handler's copy of `f_pos`). These two
store `f_pos` without the mutex, so the end of `aesd_llseek` is two steps,
although it is under the mutex: `LlseekTarget`, where `fixed_size_llseek` reads
`f_pos` and stores the new one, and `LlseekSet`, where the handler stores it once
more (line 278), over what an ioctl or the kernel may have stored in between. `kmalloc`,
`copy_from_user` and the newline search of `aesd_write` are one step: the block
is private until the call takes the mutex. `WriteRealloc` and `WriteCopy` are two
steps although both are under the mutex, so that the state between `krealloc`
and `memcpy` is seen by the invariants.

Faults are the members of `Faults` the instance allows: `null_buf`, `kmalloc`,
`krealloc`, `copy` (either copy routine), `signal` (an interrupted wait), `bad_cmd`,
`cdev_add`. Running out of `Blocks` makes an allocation fail too.

`krealloc` may return the block in place or any free one, and new bytes hold
`Garbage`. `write_cmd = N` passes the driver's test and reads `entry[N].size`; in
`struct aesd_dev` this is the word after `in_offs`, `out_offs`, `full` and
padding, which holds `working_entry.buffptr`: 0 if NULL, and else an address larger than any 32-bit
offset. `SeekAccepted` says so.

### AesdSocket

State: `main` is where the main thread is, `head` and `next` are the list
(`ListMembers` is the least set that has `head` and is closed under `next`),
`alloc` the structs malloc has handed out, `worker` and `local` the program counter
and the locals of each worker, `log` and `pending` the device, `stream` and `peer` the connections.
`got` in `local` is a history of all the bytes received.

Each `recv` gets any non-empty prefix of what is on its way; `strcpy` copies the
C string in `buf`, with what an earlier `recv` left there, over `final_buffer`;
`memchr` looks at 512 bytes of a shorter block (fault `stray_newline`);
`fwrite` takes `total_bytes_recv` bytes. When `log_mutex` cannot be locked (fault
`mutex_lock`) nothing is written, and the answer is sent all the same. The read-back loop is one `read(2)` per
step, which returns the rest of one command. The position the ioctl leaves is
any member of `Positions`. A struct's address may be reused as soon as it is freed.

`UseDevice` chooses the build. Without the device the log is a file to which
records are appended whole, seek commands are ordinary packets, and the timer
(`Expires`) sets `timer_fired`: in the main thread it also interrupts `accept`
(`TimerInterrupts`), elsewhere it only sets the flag (`TimerElsewhere`). After
`accept` main tests the flag (`CheckTimer`), writes the timestamp under
`log_mutex` (`PrintTimestamp`) and clears the flag (`ClearTimer`) in steps of
their own, so that the timer may expire between any two. `Exit` removes the file.
Start-up is `Register`, `OpenSocket`, `Daemonise`, `Listen`; from `Register` on a
signal may arrive, and `shutdown` has an effect once the socket listens.
`Crash` is the end of the process inside a worker: SIGPIPE, or the null pointer
of a failed `fopen`.

The tests of `signal_caught` and `thread_complete`, which C calls data races, are
single-byte loads that the compiler cannot move across the library calls around
them; the model reads them atomically, at any moment.

### AesdSystem

The variables are those of `AesdSocket`, except `log` and `pending`, and those
of `AesdChar`; worker `t` is process `t` of the driver and its FILE the file
`t`. `Srv` is `AesdSocket` with the driver's state for its log, and lends its
steps that leave the device alone. In place of `WriteLog`, `ReadBack` and
`Ioctl` a worker opens the device (`Fopen`), makes a system call (`Fwrite`,
`Fread`, `Ioctl`), which takes the driver's own steps (`InDriver`), gets the
result (`CallReturns`) and closes the device (`FcloseUnlock`, `Fclose`). The
scripts load the module before the server starts (`Load`).

The refinement mapping `R` takes a call for done as soon as its handler is
(`pc = "ret"`): from then on the others see its effect. The worker's result, the
`fclose` and the release of `log_mutex` come later and are stuttering steps.

### SystemCalls

`proc` holds the processes. `Fork` copies the caller, place in the code
included; a copy whose `dup2` or `execv` fails returns like its parent and may
call the functions again. `End` makes a zombie, or hands children to init; a
copy of the caller may be killed wherever it is, also while it waits. A process
has two ways to have `outputfile` open, `fd` and its descriptor 1 (`out`). Each
way out of `do_exec_redirect` closes `fd` itself (`Close` in the actions `Fork`,
`Dup2`, `Execv`, `WaitFails` and, for its two ways, `Wait`); nothing closes
descriptor 1. `file` is the set of processes whose output is in `outputfile`
since it was truncated; `lost` is a history of the children left to themselves,
by a failed `waitpid` or by the end of the process that waited. Both functions
share their actions: `do_exec` is `do_exec_redirect` without `OpenFile`, `Dup2`
and the closes.

### Threading

Time passes in `Tick`s, `Second` of which make a second; `SleepTime` is what
`sleep(ms / 1000)` sleeps. A failed unlock leaves the mutex to `Dead`; a failed
`malloc` crashes the process, since its result is not tested.

## 3. Runs

Passing:

| run | instance | shows |
|---|---|---|
| `driver_rw` | 2 processes, 1 file, ring of 2, 5 blocks, partial lines, lines, lines with a rest, every fault but a failing `krealloc`, unload and reload | `TypeOK`, `HeapSound`, `ReadTargetValid`, `CommandsAreLines`, `ReadReturnsWindow`, `WritesAreAtomic` |
| `driver_seek` | llseek by -1, 0 and 1 from everywhere, and ioctl, on one `f_pos`, against writers that wrap the ring, 4 blocks, interrupted waits | `IInv` (with `HeapSound` in it), `LlseekInRange`, `IoctlSeeksBeforeWrap` |
| `driver_live` | all four calls, ring of 1, 3 blocks, failing `krealloc` and copies, fair | `IInv`, `EntriesHoldWrittenBytes`, `CallsReturn` |
| `server_list` | 3 connections, 3 structs; start-up, `accept`, `malloc`, `pthread_create` and `pthread_mutex_lock` may fail | `TypeOK`, `ListSound`, `ExitIsClean` |
| `server_answers` | 2 clients, lines, unfinished lines and seeks, every fault but `mutex_lock` | `AnswerIsContents` |
| `server_file` | the build with the file and the timer, 2 clients whose workers wait in `recv` until they end, fair | `SignalStopsServer`, `WorkersFinish`, `TimerServed`, `AnswerIsContents` |
| `system` | server over driver: 2 clients with lines and seeks, ring of 1, 3 blocks | `ImplementsServer`, `FilesClosed`, no deadlock |
| `system_calls` | 3 processes, every call may fail, fair | `TypeOK`, `FileIsClosed`, `ChildrenAwaited`, `RedirectedOutput`, `ExecReturns` |
| `threads` | 3 threads, waits of half a second and of one, every call may fail, fair | `TypeOK`, `MutexHeld`, `SuccessIsEarned`, `ThreadsReturn` |

Each property of a passing run has a mutant: an operator next to the original
(`AdvanceForever`, `ForgetWriteBuf`, `TimerRestarts`, ...) that changes the code as
a plausible bug would, and under which TLC finds the property violated.

Violations (what a comment says and the code does not do; details under
`findings` in `PROJECT.json`):

| run | property | what TLC shows |
|---|---|---|
| `seek_wrapped` | `SeekFindsCommand` | after the ring wraps, a seek goes to another command |
| `packet_chunks` | `PacketIsWhole` | a line in two `recv`s is not written as it was sent |
| `exec_child` | `TrueMeansExecuted` | `do_exec` returns true although `execv` failed |

More disagreements are plain from the models, without a run of their own. For the
first five a passing property says what is left of the promise:

- after a failed `krealloc` (`main.c:181`) `size` still counts the bytes of the lost block,
  although `aesd-circular-buffer.h:28` calls it "Number of bytes stored in buffptr".
  `EntriesHoldWrittenBytes` is claimed until a block is lost;
- `aesd_ioctl` stores `f_pos` after the unlock (`main.c:342`; line 333 says "starting offset
  of the command"): a write that evicts in between moves the command. `IoctlSeeksBeforeWrap`
  claims the stored position until the ring is full;
- the server reads the device back after it has released `log_mutex`, and an eviction between
  two reads makes it skip bytes, although `aesdsocket.c:309` says "return full content".
  `AnswerIsContents` is claimed until something is evicted;
- a copy of the caller whose `execv` failed after `dup2` returns with `outputfile` as its
  descriptor 1, although `systemcalls.c:95` says it "will be closed at completion of the
  function call". `FileIsClosed` claims every other descriptor, and of the first caller all;
- `threading.h:30` promises milliseconds, `threading.c:15` sleeps whole seconds.
  `SuccessIsEarned` claims whole seconds in full, and less than a second missing otherwise;
- `main.c:326` accepts `write_cmd` = 10 and reads past the array (`SeekAccepted`);
- `aesd_write` returns `count` although it dropped the bytes after the newline
  (`main.c:226` says "return number of bytes written");
- `aesd_cleanup_module` sets `working_entry.buffptr` to NULL without freeing it
  (`CleanupModule` adds it to `leaked`);
- `aesdsocket.c:569` says "Request exit from each thread", but nothing is
  requested: `SignalStopsServer` needs clients that end;
- `aesdsocket.c:492` says "until SIGINT or SIGTERM received", but SIGPIPE, a
  failed `fopen` and a failed `malloc` end the server too (`Crash`, `Create`);
- `do_system` returns true whatever the status of the command
  (`systemcalls.c:12` says false for "a non-zero return value"), and `do_exec`
  returns true for a command that a signal has killed (`DoSystem`, `Wait`).

## 4. Bounds

- A ring of 2 fills, wraps and evicts within three commands; out_offs then takes
  every value. N = 1 (`driver_live`) is the ring that is always full after one command.
- Two processes are enough for a conflict over one mutex and one
  `working_entry`. One shared `struct file` is the harder case: its `f_pos` is shared too.
- 4 or 5 blocks: two entries, `working_entry`, two write buffers. With 4 the
  allocator also runs dry.
- `MaxLine` and `MaxPos` stop writes from growing `working_entry` and `f_pos` for
  ever; both are tests at the call, so that no handler is cut short. `MaxLost`
  bounds how many blocks unloading may lose, so that reloading does not use up the heap.
- llseek by 0 is the offset at which SEEK_CUR stores what it has read unchecked, by
  -1 and 1 the ones that leave the device at either end. The ioctl's arguments are the
  start of the first command, a byte of the second, and the slot past the last.
- The server's connections are finite and made once each; structs are reused,
  so three of them exercise every order of insertion, removal and reuse.
- `BufSize` is small but larger than every packet (`PacketAssumption`).
- `MaxLog` stops new timer periods once the file has that many records; a timer
  that has fired may go on expiring, which is what wakes `accept`.
- `system` has a ring of 1: the second line already evicts the first between the
  reads of its worker. Three blocks are what such a ring needs at most
  (an entry, `working_entry`, one `write_buf`, since `log_mutex` lets one worker write).
- No run of the server has every fault: `mutex_lock` is left to `server_list`, where it
  has a worker answer without a write, and the clients' faults to `server_answers`. The clients of
  `server_file` send packets without an end, so that every worker comes to wait in `recv`,
  also while main joins it; whole lines and seeks are in the other runs.
- `system_calls` has three processes: a caller, a copy of it, and a command of
  either, or two copies. `fork` fails beyond that.
- `threads`: three threads are two that wait for the mutex while one holds it; with
  a `Second` of 2, a wait of 1 is rounded down to none and a wait of 2 is slept in full.

## 5. Fairness

- Driver (`FairSpec`): weak fairness of the steps inside a handler, since the
  kernel keeps running them; strong fairness of taking the mutex, since a Linux mutex hands
  itself over to its first waiter instead of starving it. No fairness for calls,
  opens or module loading. `driver_live` leaves interruptions out, so that a
  waiter cannot escape from a mutex that is never released.
- Server: weak fairness of the main thread and of every worker.
  `FiniteClientsSpec` adds that clients end their streams, without which a signal
  does not stop the server, and that the timer goes on expiring in the main thread,
  which Linux prefers when it delivers a signal to a process. Strong fairness for
  `log_mutex` is not needed with finitely many connections. Signals and connections are
  not fair. `server_file` does not let `accept` fail: fairness of `Accept` would force
  a spurious failure, and hide that only the handler's `shutdown` and the timer wake it.
- `SystemCalls`: weak fairness of processes inside the library and of commands, strong
  fairness of their end (a copy of the caller may come back to its own code again
  and again before it exits). No `waitpid` has to fail.
- `Threading`: weak fairness of time, of the threads and of the caller's unlock;
  each thread locks once. No lock has to fail.
- `system` checks safety and deadlock only. All its behaviours are finite (each client
  connects once, and every step of main, worker or driver goes forward), so that a deadlock of the
  two mutexes ends in a state without a step, and TLC would report it.

## 6. Proofs

All theorems hold for every value of the constants that satisfies the assumptions
of the modules. Each invariant is proved from an inductive one, which the component's
module defines (`IInv`, and `LineInv` beside it for the driver); each of
these also holds when TLC checks it on the instances of the component's runs. The assumptions are

- `NAssumption`: N is in 1..256, since the offsets are `uint8_t`;
- `ByteAssumption`, `MarkAssumption`: a newline is a byte, `Garbage` is not what a user
  writes; `ArgAssumption`: what calls are given has the type the kernel passes;
- `HeapAssumption`, `AddressAssumption`, `ProcAssumption`, `HolderAssumption`: NULL is
  no block or struct, "nobody" is no process or thread;
- `PacketAssumption`: a packet fits the buffer and holds no NUL (the runs' clients);
  `LogAssumption`, `ServerAssumption`, `TimeAssumption`: numbers are natural numbers.

| theorem | states |
|---|---|
| `AesdCharProofs!Invariance` | `Spec => []IInv` |
| `AesdCharProofs!HeapIsSound` | `Spec => []HeapSound` |
| `AesdCharProofs!ReadTargetIsValid` | `Spec => []ReadTargetValid` |
| `AesdCharProofs!TypeCorrect` | `Spec => []TypeOK` |
| `AesdCharLogProofs!CommandsStayLines` | `Spec => []CommandsAreLines` |
| `AesdCharLogProofs!EntriesAreWritten` | `Spec => []EntriesHoldWrittenBytes` |
| `AesdCharLogProofs!ImplementsLog` | `"krealloc" \notin Faults => (Spec => WritesAreAtomic)` |
| `AesdSocketProofs!ListIsSound` | `Spec => []ListSound` |
| `AesdSocketProofs!ExitsClean` | `Spec => []ExitIsClean` |
| `AesdSocketProofs!TypeCorrect` | `Spec => []TypeOK` |
| `AesdSystemProofs!FilesAreClosed` | `Spec => []FilesClosed` |
| `SystemCallsProofs!FileAlwaysClosed` | `Spec => []FileIsClosed` |
| `SystemCallsProofs!NoChildForgotten` | `Spec => []ChildrenAwaited` |
| `SystemCallsProofs!OutputIsRedirected` | `Spec => RedirectedOutput` (an action property) |
| `SystemCallsProofs!TypeCorrect` | `Spec => []TypeOK` |
| `ThreadingProofs!MutexIsHeld` | `Spec => []MutexHeld` |
| `ThreadingProofs!SuccessIsDeserved` | `Spec => []SuccessIsEarned` |
| `ThreadingProofs!TypeCorrect` | `Spec => []TypeOK` |

### The driver's memory (`AesdCharProofs`)

`HeapSound` alone is not inductive. Appending to `working_entry` is safe because
no one else is under the mutex, and a slot can be overwritten because slots not
in use hold no pointer. `IInv` adds:

- `RingShape`: `out_offs` is 0 until the ring is full, and then equals
  `in_offs`; with it the slots in use are `0..in_offs-1` or all (`InUseShape`), and
  `AddEntryShape` says what `add_entry` does to them;
- `UnusedZero`: slots not in use are zero, so that unloading frees exactly the entries;
- `Loaded`: files are open only while the module is live;
- `MutexHeld`: exactly the holder of `buf_mutex` is in a critical section;
- `FramesOK`: what each call's locals are at its label, in particular that a
  call has a `write_buf` exactly between its `kmalloc` and its `kfree`, and that
  the index of a search is a slot.

The proof has one lemma per action. Steps that leave device and heap alone go
through `QuietStep` and `ReturnStep`; steps that give up a write go through
`WriteAbandons`; the end of a write is split into what both outcomes share
(`WriteCopyCommon`), an incomplete line (`WriteCopyPartial`) and a complete one
(`WriteCopyLine`).

### The driver's log (`AesdCharLogProofs`)

The ring is read as two values: `Commands`, the bytes of its entries, oldest first, and
`Pending`, those of `working_entry`. The lemmas say what each step does to these views:
nothing (`ViewsKept`), `krealloc` keeps the bytes there were (`ReallocViews`), and
`aesd_write_copy` either appends to `Pending` (`CopyPartialViews`) or moves it to the end
of the last N commands (`CopyLineViews`, from `AddEntryOrder`). `IInv` is what makes them
true: no other process changes a block between the lock and the copy.
`LineInv` adds to the two properties `WriteCalls`, what a call was given, and
`PendingWritten`, that `working_entry`, too, holds written bytes only.

`ImplementsLog` maps `WriteCall` to `Begin`, `WriteCopy` to `Apply`, each step at which a
write fails (in `WriteCall`, `WriteLock` and `WriteReallocFails`) to `Fail`, `VfsReturn` of a
write to `End`, `CleanupModule` to `Forget`, and everything else to a stuttering step. It
excludes the fault `krealloc`: that step loses the pending bytes of earlier writes
that have already returned, so that those did not take effect (the run `driver_rw`
leaves that fault out for the same reason). Without the fault `krealloc` can still fail when no
block is free, but only for an empty `working_entry`, of which nothing is lost.

### The server (`AesdSocketProofs`)

"Being on the list" is a least fixed point, so the SLIST operations are proved from
minimality: `InsertHeadMembers`, `RemoveHeadMembers` and `RemoveMembers` give the
members afterwards. They need the list to be `Linear`: were a struct the successor of two
others, taking it out behind one would leave it on the list behind the other. `Pointers`
says what main's pointers are at each of its places; without it, `SLIST_FOREACH_SAFE` could
go on from a struct that is not on the list. `LogMutexHeld` names the holder of
`log_mutex`; it and `alloc = {t : worker[t] # "none"}` make `ExitIsClean` follow
from the end of `StopJoin`'s loop.

### Server over driver (`AesdSystemProofs`)

A worker of `AesdSystem` goes through more places than one of `AesdSocket`, but for the
list and the joins only its end matters. `Lists` is therefore the server of
`AesdSocketProofs` with an empty log and with a worker that closes its file after the
write still counted as writing; the lemmas of that module then prove
`Lists!IInv`, the first conjunct of the system's invariant. The others are
`DriverMutex` (mutual exclusion in the driver), `CallsOfWorker` (a process is in the
driver for what its worker does, on its own open file) and `OpenAtWork`. When main has
returned no worker is left (`Lists`), hence no file is open (`OpenAtWork`), no process is
in the driver (`CallsOfWorker`) and nobody holds `buf_mutex` (`DriverMutex`).

### The examples (`SystemCallsProofs`, `ThreadingProofs`)

`ChildrenAwaited` needs to know the whole family: `Family` says that a process that has
not been reaped has a parent that lives, or none, and that only a process that waits has
a pid to wait for; `PlaceOK` says what a process is at each place, in particular that it has
`fd` only inside `do_exec_redirect`, which each of the actions with a `Close` has to
establish. `RedirectedOutput` holds because, as long as no child has been left to itself
(`lost = {}`), one process at most does not wait (`Alone`): a parent waits for
its child, and the child for its own. A process that is killed while it waits would leave a
zombie that "waits" and a child that runs, hence `Orphans`. So the file is empty until the
command runs and has only its output when it is through (`FileAt`), and parent and child
make the same kind of call (`SameCall`). `FileIsClosed` follows: `fd` from `PlaceOK`, and
a process back in the caller's code is, by `Alone`, the one that does not wait. That the
first caller never has the file as its descriptor 1, since only children call `dup2`, is an
invariant of its own (`RootOK`).

In `Threading` the time a thread has held the mutex and the time it still sleeps add up
to what `sleep` was asked for (`Covered`), a flag is set only behind the unlock, and what
`sleep` is asked for is the wait, if that is whole seconds, and less than a second short of it
otherwise (`SleepTimeShort`).

## 7. Only model-checked

- liveness (`CallsReturn`, `SignalStopsServer`, `WorkersFinish`, `TimerServed`,
  `ExecReturns`, `ThreadsReturn`): fairness and ENABLED are beyond the prover;
- what sums and concatenations over the ring compute (`ReadReturnsWindow`,
  `LlseekInRange`, `IoctlSeeksBeforeWrap`, `AnswerIsContents`): induction over data;
- the refinement `ImplementsServer`: which bytes a `read` of the driver and a `ReadBack`
  of the server return, and which position an ioctl leaves, are such concatenations and sums;
- `WritesAreAtomic` with a failing `krealloc`: it does not hold.

## 8. Not modelled

- Driver: a NULL `filp` or `private_data` (open always sets it; the kernel never
  passes NULL), a failing `alloc_chrdev_region` (nothing happens), writes of zero bytes,
  `loff_t` overflow, logging.
- Server: a failing `getaddrinfo` or `malloc(1)` (each uses a null or
  uninitialized pointer), a failing `pthread_join` of an own thread, a `recv` that fills all 512 bytes, how
  the text of a seek command is parsed, the chunks of 512 bytes in which the answer
  is sent, leaked descriptors of failed connections.
- `AesdSystem`: failures inside the driver (each is explored in `AesdChar`), unloading
  while the server runs (the kernel refuses it while a file is open).
- `SystemCalls`: what the caller's program does besides calling the library,
  `system(3)` as processes of its own.
- `Threading`: a `sleep` that a signal cuts short (the example handles no signals).
- `writer.c` is one `creat`, one `write` and one `close` of a process that then
  ends; `autotest-validate` returns constants; the scripts are file I/O. The other
  lists of `queue.h` are third-party code that nothing uses.

## 9. Plan

1. (done) `CircularBuffer`, `AesdChar`, `CommandLog`, `AesdLog`, `AesdSocket`, their
   runs, and the proof of the driver's inductive invariant.
2. (done) `SystemCalls`, `Threading`, the server's file build with its timer and its
   start-up in steps, the composition `AesdSystem` and its refinement of `AesdSocket`.
3. (done) Proofs of every invariant the runs check, of `RedirectedOutput`, and of the
   refinement `WritesAreAtomic`.
4. The driver inside `AesdSystem`: its full `IInv` there (the data a worker writes are not
   a fixed set), so that `HeapSound` and `CommandsAreLines` hold of the composition too.
5. The steps of `ImplementsServer` other than reads and ioctls: `Fwrite` to `WriteLog`
   needs `CopyViews` of `AesdCharLogProofs` under `log_mutex`.
6. What one iteration of the driver's loops adds to a sum (`LlseekInRange`,
   `IoctlSeeksBeforeWrap`, `ReadReturnsWindow`), as far as it can be stated without induction.
