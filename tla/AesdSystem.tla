----------------------------- MODULE AesdSystem -----------------------------
(***************************************************************************)
(* The socket server over the driver it is built for: AesdSocket whose log *)
(* is not a variable but the state of AesdChar.  Where AesdSocket takes    *)
(* one step on the device, a worker here opens the device, makes its       *)
(* system call, which runs through the driver beside those of the other    *)
(* workers, and closes the device.                                         *)
(*                                                                         *)
(* Each worker t is the process t of the driver, and its FILE the file t.  *)
(***************************************************************************)
EXTENDS Integers, Sequences

CONSTANTS
  N, Newline, Null, Garbage,                               \* of both
  Structs, Conns, Packets, NoConn, NoThread, NUL, Command, \* of the server
  CommandLen, BufSize, Positions, MaxLog, Faults,
  Blocks, Byte, NoFile, SeekArgs, ReadCount, MaxLine       \* of the driver

(* What AesdSocket assumes of the constants they share.                    *)
ASSUME ServerAssumption ==
  /\ {Null, NoThread} \intersect Structs = {}
  /\ Positions \subseteq Nat /\ {N, MaxLog} \subseteq Nat
  /\ \A b \in Packets : Len(b) < BufSize /\ \A i \in DOMAIN b : b[i] # NUL

VARIABLES
  main, retval, signal_caught, shut, timer_fired, backlog, accepted, head, next, alloc,
  thread_ptr, next_thread, thread_complete, worker, local, log_mutex, stream, peer,
  mod, buffer, working, mutex, opened, fpos, pc, call, live, mem, leaked

server == <<main, retval, signal_caught, shut, timer_fired, backlog, accepted, head, next,
            alloc, thread_ptr, next_thread, thread_complete, worker, local, log_mutex,
            stream, peer>>
driver == <<mod, buffer, working, mutex, opened, fpos, pc, call, live, mem, leaked>>
vars   == <<server, driver>>

Drv == INSTANCE AesdChar WITH
  Procs <- Structs, Files <- Structs, NoProc <- NoThread, Faults <- {},
  Ops <- {"read", "write", "ioctl"}, UserBufs <- {}, ReadCounts <- {}, SeekOffsets <- {},
  MaxPos <- MaxLine, MaxLost <- 0

Srv == INSTANCE AesdSocket WITH
  UseDevice <- TRUE, Stamp <- <<>>, log <- Drv!Commands, pending <- Drv!Pending

-----------------------------------------------------------------------------
(* The boot scripts load the module, then start the server.                *)
Load ==
  /\ main = "start"
  /\ Drv!InitModule \/ Drv!SetupCdev
  /\ UNCHANGED server

(* The steps of the server that leave the device alone.                    *)
Main == mod = "live" /\ UNCHANGED driver /\ Srv!Main

Client(c) == UNCHANGED driver /\ Srv!Client(c)

Signal == UNCHANGED driver /\ Srv!Signal

WorkerAlone(t) ==
  /\ UNCHANGED driver
  /\ Srv!Receive(t) \/ Srv!LockLog(t) \/ Srv!SetComplete(t) \/ Srv!ThreadReturn(t)

(***************************************************************************)
(* The steps of a worker on the device.                                    *)
(***************************************************************************)
Idle(t, label) == Srv!At(t, label) /\ t \in opened /\ pc[t] = "idle"

OnlyWorker ==
  UNCHANGED <<main, retval, signal_caught, shut, timer_fired, backlog, accepted, head,
              next, alloc, thread_ptr, next_thread, stream, peer>>

(* fopen, before the write, the ioctl or the reads.                        *)
Fopen(t) ==
  /\ \E label \in {"write", "ioctl", "read"} : Srv!At(t, label)
  /\ Drv!Open(t)
  /\ UNCHANGED server

(* fwrite and fclose: one write(2), or none when there is nothing.         *)
Fwrite(t) ==
  LET bytes == Srv!Written(local[t])
  IN  /\ Idle(t, "write")
      /\ IF bytes = <<>> THEN Srv!Goto(t, "fclose", local[t]) /\ UNCHANGED driver
         ELSE Drv!WriteCall(t, t, bytes) /\ UNCHANGED <<thread_complete, worker, local>>
      /\ UNCHANGED log_mutex
      /\ OnlyWorker

Ioctl(t) ==
  /\ Idle(t, "ioctl")
  /\ \E a \in SeekArgs : Drv!IoctlCall(t, t, a[1], a[2])
  /\ UNCHANGED server

Fread(t) ==
  /\ Idle(t, "read")
  /\ Drv!ReadCall(t, t, ReadCount)
  /\ UNCHANGED server

(* A call of t runs through the driver.                                    *)
InDriver(t) ==
  /\ main \notin Srv!Over
  /\ pc[t] # "ret"
  /\ Drv!Lock(t) \/ Drv!Run(t)
  /\ UNCHANGED server

(* Mutant: a read that is shorter than asked for is taken for the last.    *)
ResultLabelShort(t) ==
  CASE call[t].op = "write" -> "fclose"
    [] call[t].op = "ioctl" -> "read"
    [] call[t].op = "read"  -> IF call[t].ret < ReadCount THEN "close" ELSE "read"

(***************************************************************************)
(* Where the result of a call that has been through the driver takes the   *)
(* worker, and its locals.                                                 *)
(***************************************************************************)
ResultLabel(t) ==
  CASE call[t].op = "write" -> "fclose"
    [] call[t].op = "ioctl" -> "read"
    [] call[t].op = "read"  -> IF call[t].ret = 0 THEN "close" ELSE "read"

ResultLocal(t) ==
  CASE call[t].op = "write" -> local[t]
    [] call[t].op = "ioctl" -> [local[t] EXCEPT !.pos = fpos[t]]
    [] call[t].op = "read"  -> [local[t] EXCEPT !.pos = call[t].pos,
                                                !.sent = @ \o call[t].data]

CallReturns(t) ==
  /\ main \notin Srv!Over
  /\ Drv!VfsReturn(t)
  /\ Srv!Goto(t, ResultLabel(t), ResultLocal(t))
  /\ UNCHANGED log_mutex
  /\ OnlyWorker

(* fclose after the write, then pthread_mutex_unlock.                      *)
FcloseUnlock(t) ==
  /\ Idle(t, "fclose")
  /\ Drv!Release(t)
  /\ log_mutex' = NoThread
  /\ Srv!Goto(t, "read", local[t])
  /\ OnlyWorker

(* fclose after the end of file.                                           *)
Fclose(t) ==
  /\ Idle(t, "close")
  /\ Drv!Release(t)
  /\ UNCHANGED server

(* Mutant: the file is not closed.                                         *)
CloseClientLeavesOpen(t) == UNCHANGED driver /\ Srv!CloseClient(t)

CloseClient(t) == t \notin opened /\ UNCHANGED driver /\ Srv!CloseClient(t)

Worker(t) ==
  \/ WorkerAlone(t) \/ Fopen(t) \/ Fwrite(t) \/ Ioctl(t) \/ Fread(t)
  \/ InDriver(t) \/ CallReturns(t) \/ FcloseUnlock(t) \/ Fclose(t) \/ CloseClient(t)

-----------------------------------------------------------------------------
Init == Drv!Init /\ Srv!Init

Next ==
  \/ Load \/ Main \/ Signal
  \/ \E c \in Conns : Client(c)
  \/ \E t \in Structs : Worker(t)
  \/ UNCHANGED driver /\ Srv!Ended

Spec == Init /\ [][Next]_vars

-----------------------------------------------------------------------------
(***************************************************************************)
(* The server over the driver implements the server over a log on which    *)
(* every call is one step.  A call counts as done when it has been through *)
(* the driver, where the others can see its effect, before its worker has  *)
(* the result, has closed the file or has released log_mutex.              *)
(***************************************************************************)
Done(t) == pc[t] = "ret"

AbsWorker ==
  [t \in Structs |->
     LET label == IF Done(t) THEN ResultLabel(t) ELSE worker[t]
     IN  IF label = "fclose" THEN "read" ELSE label]

R == INSTANCE AesdSocket WITH
  UseDevice <- TRUE, Stamp <- <<>>, log <- Drv!Commands, pending <- Drv!Pending,
  worker    <- AbsWorker,
  local     <- [t \in Structs |-> IF Done(t) THEN ResultLocal(t) ELSE local[t]],
  log_mutex <- IF \E t \in Structs : log_mutex = t /\ AbsWorker[t] = "read"
               THEN NoThread ELSE log_mutex

ImplementsServer == R!Spec

(***************************************************************************)
(* A worker has the device open only while it works on it, it is in the    *)
(* driver only then, and a process that has exited left nothing open or    *)
(* locked: the module can be unloaded.                                     *)
(***************************************************************************)
FilesClosed ==
  /\ \A t \in Structs :
       /\ t \in opened => worker[t] \in {"write", "fclose", "ioctl", "read", "close"}
       /\ pc[t] # "idle" => t \in opened /\ worker[t] \in {"write", "ioctl", "read"}
  /\ main = "exited" => opened = {} /\ mutex = NoThread

(***************************************************************************)
(* The inductive invariant behind FilesClosed.                             *)
(*   Lists!IInv    : list and threads of the server are those of a server  *)
(*                   whose log stays empty and whose writers have not      *)
(*                   written until their file is closed: when main has     *)
(*                   returned, no worker is left;                          *)
(*   DriverMutex   : exactly the holder of buf_mutex is inside a critical  *)
(*                   section of the driver;                                *)
(*   CallsOfWorker : a process in the driver is there for what its worker  *)
(*                   does, on the worker's own file, which is open;        *)
(*   OpenAtWork    : a worker has its file open only at work on it.        *)
(***************************************************************************)
Lists == INSTANCE AesdSocket WITH
  UseDevice <- TRUE, Stamp <- <<>>, log <- <<>>, pending <- <<>>,
  worker    <- [t \in Structs |-> IF worker[t] = "fclose" THEN "write" ELSE worker[t]]

SystemTypes ==
  /\ worker \in [Structs -> Srv!WorkerLabels \union {"fclose"}]
  /\ opened \subseteq Structs
  /\ mutex \in Structs \union {NoThread}
  /\ pc \in [Structs -> Drv!Labels]
  /\ DOMAIN call = Structs
  /\ \A t \in Structs : DOMAIN call[t] = DOMAIN Drv!NoCall

DriverMutex == \A t \in Structs : pc[t] \in Drv!Critical <=> mutex = t

CallsOfWorker ==
  \A t \in Structs : pc[t] # "idle" =>
    /\ t \in opened
    /\ worker[t] \in {"write", "ioctl", "read"}
    /\ call[t].op = worker[t] /\ call[t].file = t
    /\ pc[t] \in {"read_lock", "read_find", "read_copy"} => worker[t] = "read"

OpenAtWork ==
  \A t \in opened : worker[t] \in {"write", "fclose", "ioctl", "read", "close"}

IInv == Lists!IInv /\ SystemTypes /\ DriverMutex /\ CallsOfWorker /\ OpenAtWork

=============================================================================
