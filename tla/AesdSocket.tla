----------------------------- MODULE AesdSocket -----------------------------
(***************************************************************************)
(* The socket server, server/aesdsocket.c, in its two builds: over the     *)
(* aesdchar device (USE_AESD_CHAR_DEVICE, the build of the repository), or *)
(* over a file to which main adds a timestamp when a timer fires.          *)
(*                                                                         *)
(* The main thread accepts connections, starts one worker thread for each, *)
(* keeps their thread_data_s structs in a singly-linked list (queue.h),    *)
(* joins the finished ones and, after SIGINT or SIGTERM, all of them.  A   *)
(* worker receives a packet, appends it to the log under log_mutex (or     *)
(* seeks), and sends the contents of the log back.                         *)
(*                                                                         *)
(* A worker is named after its struct, whose address malloc may reuse.     *)
(* The device is the log of CommandLog, which AesdChar implements; each    *)
(* read(2) and write(2) on it is one step.  AesdSystem composes the two.   *)
(***************************************************************************)
EXTENDS CommandLog

CONSTANTS
  Structs,     \* addresses malloc can return for a thread_data_s
  Conns,       \* connections, each made at most once
  Packets,     \* what a client may send
  Null,        \* the null pointer
  NoConn,      \* no connection
  NoThread,    \* no holder of log_mutex
  NUL,         \* the byte '\0'
  Garbage,     \* a byte nobody stored
  Command,     \* stands for the bytes "AESDCHAR_IOCSEEKTO:"
  CommandLen,  \* TOTAL_CMD_LEN, in units of the model's bytes
  BufSize,     \* 512
  UseDevice,   \* USE_AESD_CHAR_DEVICE is defined
  Positions,   \* file positions that a seek command may leave
  Stamp,       \* a timestamp line
  MaxLog,      \* bound: no new timer period begins beyond this many records
  Faults       \* failures that may happen

(* Bound: no recv fills buf, so a NUL always follows what it received.     *)
ASSUME PacketAssumption ==
  \A b \in Packets : Len(b) < BufSize /\ NUL \notin Range(b)

ASSUME AddressAssumption == {Null, NoThread} \intersect Structs = {}

ASSUME LogAssumption ==
  Positions \subseteq Nat /\ {N, MaxLog} \subseteq Nat /\ UseDevice \in BOOLEAN

VARIABLES
  main,           \* where the main thread is
  retval,         \* retval of main
  signal_caught,
  shut,           \* the listening socket has been shut down
  timer_fired,
  backlog,        \* connections waiting for accept
  accepted,       \* client_fd of the main thread
  head, next,     \* the list: slh_first and each struct's sle_next
  alloc,          \* the structs that are allocated
  thread_ptr, next_thread,
  thread_complete,
  worker,         \* where each worker thread is
  local,          \* the locals of each worker
  log_mutex,
  log, pending,   \* the device, or the records of the file
  stream,         \* bytes of each connection not yet received
  peer            \* state of each client: "none", "up", "eof" or "gone"

list    == <<head, next, alloc, thread_ptr, next_thread>>
control == <<main, retval, accepted>>
signals == <<signal_caught, shut, timer_fired>>
device  == <<log, pending>>
network == <<backlog, stream, peer>>
threads == <<thread_complete, worker, local>>
vars    == <<control, signals, list, threads, log_mutex, device, network>>

(* The locals of handle_client; got is a history of all bytes received.    *)
Fresh(c) ==
  [client_fd |-> c, buf |-> [i \in 1..BufSize |-> NUL], final |-> <<>>,
   total |-> 0, ioctl_found |-> FALSE, pos |-> 0, sent |-> <<>>, got |-> <<>>]

May(fault) == fault \in Faults

(* Main before the socket listens, and when the process has ended.         *)
Starting == {"start", "socket", "daemon", "listen"}
Over     == {"exited", "killed"}

Goto(t, label, frame) ==
  /\ worker' = [worker EXCEPT ![t] = label]
  /\ local' = [local EXCEPT ![t] = frame]
  /\ UNCHANGED thread_complete

-----------------------------------------------------------------------------
(***************************************************************************)
(* Clients.  A client connects with a packet on its way; it may stay       *)
(* connected, end its stream, or vanish.                                   *)
(***************************************************************************)

Connect(c, b) ==
  /\ peer[c] = "none"
  /\ ~shut
  /\ main \notin Starting \union Over
  /\ peer' = [peer EXCEPT ![c] = "up"]
  /\ stream' = [stream EXCEPT ![c] = b]
  /\ backlog' = backlog \union {c}
  /\ UNCHANGED <<control, signals, list, threads, log_mutex, device>>

EndStream(c) ==
  /\ peer[c] = "up"
  /\ peer' = [peer EXCEPT ![c] = "eof"]
  /\ UNCHANGED <<control, signals, list, threads, log_mutex, device, backlog, stream>>

Vanish(c) ==
  /\ May("vanish")
  /\ peer[c] \in {"up", "eof"}
  /\ peer' = [peer EXCEPT ![c] = "gone"]
  /\ UNCHANGED <<control, signals, list, threads, log_mutex, device, backlog, stream>>

(* Mutant: the handler leaves the listening socket alone.                  *)
SignalWithoutShutdown ==
  /\ ~signal_caught
  /\ main \notin Over \union {"start"}
  /\ signal_caught' = TRUE
  /\ UNCHANGED <<shut, timer_fired, control, list, threads, log_mutex, device, network>>

(***************************************************************************)
(* signal_handler.  It may run from register_signals on, before there is a *)
(* socket that listens; shutdown then has no effect.                       *)
(***************************************************************************)
Signal ==
  /\ ~signal_caught
  /\ main \notin Over \union {"start"}
  /\ signal_caught' = TRUE
  /\ shut' = (main \notin Starting)
  /\ UNCHANGED <<timer_fired, control, list, threads, log_mutex, device, network>>

(***************************************************************************)
(* The timer expires and timer_handler runs in some thread.  In the main   *)
(* thread it interrupts accept, for the action has no SA_RESTART; a recv   *)
(* it interrupts is the fault "recv".                                      *)
(***************************************************************************)
Expires ==
  /\ ~UseDevice
  /\ main \notin Starting \union Over
  /\ timer_fired \/ Len(log) < MaxLog
  /\ timer_fired' = TRUE
  /\ UNCHANGED <<signal_caught, shut, retval, accepted, list, threads, log_mutex,
                 device, network>>

(* Mutant: the timer's action has SA_RESTART.                              *)
TimerRestarts == Expires /\ main = "accept" /\ UNCHANGED main

TimerInterrupts == Expires /\ main = "accept" /\ main' = "timer"

TimerElsewhere == Expires /\ UNCHANGED main

-----------------------------------------------------------------------------
(***************************************************************************)
(* The main thread.                                                        *)
(***************************************************************************)

MainStep == UNCHANGED <<log_mutex, device, signals>>

(***************************************************************************)
(* main up to the loop.  An error in a socket call, the mutex or the timer *)
(* sets retval and keeps main from accepting; one in register_signals or   *)
(* in the daemon code exits at once.                                       *)
(***************************************************************************)
Begin(from, to, exits) ==
  /\ main = from
  /\ \/ main' = to /\ UNCHANGED retval
     \/ May("startup") /\ ~exits /\ main' = to /\ retval' = -1
     \/ May("startup") /\ exits /\ main' = "exited" /\ UNCHANGED retval
  /\ UNCHANGED <<accepted, list, threads, network>>
  /\ MainStep

Register   == Begin("start", "socket", TRUE)
OpenSocket == Begin("socket", "daemon", FALSE)
Daemonise  == Begin("daemon", "listen", TRUE)
Listen     == Begin("listen", "loop", FALSE)

(* The condition of the accept loop.                                       *)
Loop ==
  /\ main = "loop"
  /\ main' = IF ~signal_caught /\ retval # -1 THEN "accept" ELSE "stop"
  /\ UNCHANGED <<retval, accepted, list, threads, network>>
  /\ MainStep

(* accept fails once the socket is shut down, and may fail otherwise.      *)
Accept ==
  /\ main = "accept"
  /\ \/ \E c \in backlog :
          /\ ~shut
          /\ backlog' = backlog \ {c}
          /\ accepted' = c
          /\ main' = "create"
          /\ UNCHANGED thread_ptr
     \/ /\ shut \/ May("accept")
        /\ main' = IF UseDevice THEN "reap" ELSE "timer"
        /\ thread_ptr' = head
        /\ UNCHANGED <<backlog, accepted>>
  /\ UNCHANGED <<retval, head, next, alloc, next_thread, threads, stream, peer>>
  /\ MainStep

(* malloc and pthread_create; when one fails the loop is left.             *)
Create ==
  /\ main = "create"
  /\ accepted' = NoConn
  /\ \/ \E t \in Structs \ alloc :
          /\ alloc' = alloc \union {t}
          /\ worker' = [worker EXCEPT ![t] = "recv"]
          /\ local' = [local EXCEPT ![t] = Fresh(accepted)]
          /\ thread_complete' = [thread_complete EXCEPT ![t] = FALSE]
          /\ thread_ptr' = t
          /\ main' = "insert"
          /\ UNCHANGED retval
     \/ /\ May("create") \/ Structs \ alloc = {}
        /\ retval' = -1
        /\ main' = "loop"
        /\ UNCHANGED <<alloc, threads, thread_ptr>>
  /\ UNCHANGED <<head, next, next_thread, network>>
  /\ MainStep

SlistInsertHead(elm) ==
  /\ next' = [next EXCEPT ![elm] = head]
  /\ head' = elm

(* Mutant: SLIST_REMOVE_HEAD where SLIST_REMOVE is meant.                  *)
SlistRemoveAtHead(elm) == head' = next[head] /\ next' = [next EXCEPT ![elm] = Null]

SlistRemoveHead == head' = next[head] /\ next' = [next EXCEPT ![head] = Null]

(* The address of a freed struct is forgotten: its next pointer is Null.   *)
SlistRemove(elm) ==
  IF head = elm THEN SlistRemoveHead
  ELSE LET curelm == CHOOSE t \in alloc : next[t] = elm
       IN  /\ next' = [next EXCEPT ![curelm] = next[elm], ![elm] = Null]
           /\ UNCHANGED head

(* The thread is inserted; SLIST_FOREACH_SAFE will start from it.          *)
Insert ==
  /\ main = "insert"
  /\ SlistInsertHead(thread_ptr)
  /\ main' = IF UseDevice THEN "reap" ELSE "timer"
  /\ UNCHANGED <<retval, accepted, alloc, thread_ptr, next_thread, threads, network>>
  /\ MainStep

(* The file build looks at timer_fired.                                    *)
CheckTimer ==
  /\ main = "timer"
  /\ main' = IF timer_fired THEN "stamp" ELSE "reap"
  /\ thread_ptr' = head
  /\ UNCHANGED <<retval, accepted, head, next, alloc, next_thread, threads, network>>
  /\ MainStep

(* print_timestamp, under log_mutex; when it fails the loop is left.       *)
PrintTimestamp ==
  /\ main = "stamp"
  /\ log_mutex = NoThread
  /\ \/ log' = Append(log, Stamp) /\ main' = "clear" /\ UNCHANGED retval
     \/ May("stamp") /\ UNCHANGED log /\ main' = "loop" /\ retval' = -1
  /\ UNCHANGED <<accepted, pending, log_mutex, signals, list, threads, network>>

(* timer_fired = false, whatever has expired since it was looked at.       *)
ClearTimer ==
  /\ main = "clear"
  /\ timer_fired' = FALSE
  /\ main' = "reap"
  /\ UNCHANGED <<retval, accepted, signal_caught, shut, list, threads, log_mutex,
                 device, network>>

(* pthread_join returns once the thread of t has ended; t is then freed.   *)
Join(t) ==
  /\ worker[t] = "done"
  /\ alloc' = alloc \ {t}
  /\ worker' = [worker EXCEPT ![t] = "none"]
  /\ local' = [local EXCEPT ![t] = Fresh(NoConn)]
  /\ thread_complete' = [thread_complete EXCEPT ![t] = FALSE]

(* An iteration of SLIST_FOREACH_SAFE, up to the join.                     *)
Reap ==
  /\ main = "reap"
  /\ IF thread_ptr = Null THEN main' = "loop" /\ UNCHANGED <<thread_ptr, next_thread>>
     ELSE IF thread_complete[thread_ptr]
     THEN main' = "join" /\ next_thread' = next[thread_ptr] /\ UNCHANGED thread_ptr
     ELSE thread_ptr' = next[thread_ptr] /\ UNCHANGED <<main, next_thread>>
  /\ UNCHANGED <<retval, accepted, head, next, alloc, threads, network>>
  /\ MainStep

ReapJoin ==
  /\ main = "join"
  /\ Join(thread_ptr)
  /\ SlistRemove(thread_ptr)
  /\ thread_ptr' = next_thread
  /\ next_thread' = Null
  /\ main' = "reap"
  /\ UNCHANGED <<retval, accepted, network>>
  /\ MainStep

(* The shutdown loop: join, SLIST_REMOVE_HEAD and free until it is empty.  *)
StopJoin ==
  /\ main = "stop"
  /\ head # Null
  /\ Join(head)
  /\ SlistRemoveHead
  /\ UNCHANGED <<control, thread_ptr, next_thread, network>>
  /\ MainStep

(* Mutant: main returns without joining the threads.                       *)
ExitAtOnce ==
  /\ main = "stop"
  /\ main' = "exited"
  /\ thread_ptr' = Null
  /\ UNCHANGED <<retval, accepted, head, next, alloc, next_thread, threads, network>>
  /\ MainStep

(* The file build removes its file.                                        *)
Exit ==
  /\ main = "stop"
  /\ head = Null
  /\ main' = "exited"
  /\ thread_ptr' = Null
  /\ log' = IF UseDevice THEN log ELSE <<>>
  /\ UNCHANGED <<retval, accepted, head, next, alloc, next_thread, threads, network,
                 log_mutex, pending, signals>>

Main ==
  \/ Register \/ OpenSocket \/ Daemonise \/ Listen
  \/ Loop \/ Accept \/ Create \/ Insert \/ CheckTimer \/ PrintTimestamp \/ ClearTimer
  \/ Reap \/ ReapJoin \/ StopJoin \/ Exit

-----------------------------------------------------------------------------
(***************************************************************************)
(* handle_client.                                                          *)
(***************************************************************************)

At(t, label) == worker[t] = label /\ main \notin Over

WorkerStep == UNCHANGED <<control, signals, list, backlog, peer>>

(* The C string at the start of a buffer.                                  *)
CString(b) == SubSeq(b, 1, SelectInSeq(b, LAMBDA x : x = NUL) - 1)

(* The receive loop is over: on to the ioctl or to the file write.         *)
AfterLoop(frame) == IF frame.ioctl_found THEN "ioctl" ELSE "lock"

(***************************************************************************)
(* An iteration of the receive loop that gets the next k bytes.  strcpy    *)
(* puts the string in buf, with what an earlier recv left behind it, at    *)
(* the start of final_buffer.  memchr searches 512 bytes of final_buffer,  *)
(* however few it has, and so may find a newline that nobody sent.         *)
(***************************************************************************)
Recv(t, k) ==
  LET f     == local[t]
      in    == stream[f.client_fd]
      buf   == [i \in 1..BufSize |-> IF i <= k THEN in[i] ELSE f.buf[i]]
      final == CString(buf)
      ioctl == UseDevice /\ final # <<>> /\ final[1] = Command
      frame == [f EXCEPT !.buf = buf, !.final = final, !.total = @ + k,
                         !.ioctl_found = ioctl, !.got = @ \o SubSeq(in, 1, k)]
      ends  == IsLine(final) \/ (frame.total >= CommandLen /\ ioctl)
  IN  /\ stream' = [stream EXCEPT ![f.client_fd] = SubSeq(@, k + 1, Len(@))]
      /\ \/ Goto(t, IF ends THEN AfterLoop(frame) ELSE "recv", frame)
         \/ May("stray_newline") /\ ~ends /\ Goto(t, AfterLoop(frame), frame)

(* recv returns 0 or -1, or realloc fails: what came before is still used. *)
RecvStops(t) ==
  LET c == local[t].client_fd
  IN  /\ \/ stream[c] = <<>> /\ peer[c] # "up"
         \/ May("recv")
      /\ Goto(t, AfterLoop(local[t]), local[t])
      /\ UNCHANGED stream

Receive(t) ==
  /\ At(t, "recv")
  /\ \/ \E k \in 1..Len(stream[local[t].client_fd]) : Recv(t, k)
     \/ RecvStops(t)
  /\ UNCHANGED <<log_mutex, device>>
  /\ WorkerStep

(***************************************************************************)
(* AESDCHAR_IOCSEEKTO.  Its result is ignored; AesdChar says where it      *)
(* leaves the file.                                                        *)
(***************************************************************************)
Ioctl(t) ==
  /\ At(t, "ioctl")
  /\ \E pos \in Positions :
       Goto(t, "read", [local[t] EXCEPT !.pos = pos])
  /\ UNCHANGED <<log_mutex, device, stream>>
  /\ WorkerStep

(* pthread_mutex_lock; when it fails nothing is written.                   *)
LockLog(t) ==
  /\ At(t, "lock")
  /\ \/ log_mutex = NoThread /\ log_mutex' = t /\ Goto(t, "write", local[t])
     \/ May("mutex_lock") /\ UNCHANGED log_mutex /\ Goto(t, "read", local[t])
  /\ UNCHANGED <<device, stream>>
  /\ WorkerStep

(* The total_bytes_recv bytes of memory that fwrite takes.                 *)
Written(frame) ==
  [i \in 1..frame.total |->
     IF i <= Len(frame.final) THEN frame.final[i]
     ELSE IF i = Len(frame.final) + 1 THEN NUL ELSE Garbage]

(* The log takes the bytes b: the device as CommandLog says, a file whole. *)
AppendLog(b) ==
  IF UseDevice THEN /\ log' = LogAfter(log, pending, b)
                    /\ pending' = PendingAfter(pending, b)
  ELSE log' = Append(log, b) /\ UNCHANGED pending

(* Mutant: log_mutex is not unlocked.                                      *)
WriteLogKeepsMutex(t) ==
  /\ At(t, "write")
  /\ AppendLog(Written(local[t]))
  /\ Goto(t, "read", [local[t] EXCEPT !.pos = 0])
  /\ UNCHANGED <<stream, log_mutex>>
  /\ WorkerStep

WriteLog(t) ==
  /\ At(t, "write")
  /\ AppendLog(Written(local[t]))
  /\ log_mutex' = NoThread
  /\ Goto(t, "read", [local[t] EXCEPT !.pos = 0])
  /\ UNCHANGED stream
  /\ WorkerStep

(* What read(2) returns: a command of the device, or all that a file has.  *)
ReadLog(pos) ==
  IF UseDevice THEN ReadAt(log, pos)
  ELSE SubSeq(FlattenSeq(log), pos + 1, Len(FlattenSeq(log)))

(* Mutant: a short read is taken for the end of the file.                  *)
ReadBackStopsShort(t) ==
  LET f     == local[t]
      bytes == ReadLog(f.pos)
  IN  /\ At(t, "read")
      /\ IF bytes = <<>> \/ f.sent # <<>> THEN Goto(t, "close", f)
         ELSE Goto(t, "read", [f EXCEPT !.pos = @ + Len(bytes), !.sent = @ \o bytes])
      /\ UNCHANGED <<log_mutex, device, stream>>
      /\ WorkerStep

(***************************************************************************)
(* One read(2) of the loop that sends the contents back; the loop ends     *)
(* when it returns nothing.                                                *)
(***************************************************************************)
ReadBack(t) ==
  LET f     == local[t]
      bytes == ReadLog(f.pos)
  IN  /\ At(t, "read")
      /\ IF bytes = <<>> THEN Goto(t, "close", f)
         ELSE Goto(t, "read", [f EXCEPT !.pos = @ + Len(bytes), !.sent = @ \o bytes])
      /\ UNCHANGED <<log_mutex, device, stream>>
      /\ WorkerStep

(***************************************************************************)
(* A worker ends the whole process: it sends to a client that is gone, and *)
(* SIGPIPE is not ignored, or it uses the null pointer of a failed fopen.  *)
(***************************************************************************)
Crash(t) ==
  /\ \/ At(t, "read") /\ peer[local[t].client_fd] = "gone"
     \/ /\ May("fopen")
        /\ \/ At(t, "ioctl") \/ At(t, "write")
           \/ At(t, "read") /\ local[t].sent = <<>>
  /\ main' = "killed"
  /\ UNCHANGED <<retval, accepted, signals, list, threads, log_mutex, device, network>>

CloseClient(t) ==
  /\ At(t, "close")
  /\ Goto(t, "flag", local[t])
  /\ UNCHANGED <<log_mutex, device, stream>>
  /\ WorkerStep

(* thread_func sets the flag, then the thread ends.                        *)
SetComplete(t) ==
  /\ At(t, "flag")
  /\ thread_complete' = [thread_complete EXCEPT ![t] = TRUE]
  /\ worker' = [worker EXCEPT ![t] = "return"]
  /\ UNCHANGED <<local, log_mutex, device, stream>>
  /\ WorkerStep

ThreadReturn(t) ==
  /\ At(t, "return")
  /\ Goto(t, "done", local[t])
  /\ UNCHANGED <<log_mutex, device, stream>>
  /\ WorkerStep

Worker(t) ==
  \/ Receive(t) \/ Ioctl(t) \/ LockLog(t) \/ WriteLog(t) \/ ReadBack(t)
  \/ Crash(t) \/ CloseClient(t) \/ SetComplete(t) \/ ThreadReturn(t)

-----------------------------------------------------------------------------
Init ==
  /\ main = "start"
  /\ retval = 0
  /\ signal_caught = FALSE
  /\ shut = FALSE
  /\ timer_fired = FALSE
  /\ backlog = {}
  /\ accepted = NoConn
  /\ head = Null
  /\ next = [t \in Structs |-> Null]
  /\ alloc = {}
  /\ thread_ptr = Null
  /\ next_thread = Null
  /\ thread_complete = [t \in Structs |-> FALSE]
  /\ worker = [t \in Structs |-> "none"]
  /\ local = [t \in Structs |-> Fresh(NoConn)]
  /\ log_mutex = NoThread
  /\ log = <<>>
  /\ pending = <<>>
  /\ stream = [c \in Conns |-> <<>>]
  /\ peer = [c \in Conns |-> "none"]

Client(c) == EndStream(c) \/ Vanish(c) \/ \E b \in Packets : Connect(c, b)

(* The process has ended.                                                  *)
Ended == main \in Over /\ UNCHANGED vars

Next ==
  \/ Main \/ Signal \/ TimerInterrupts \/ TimerElsewhere \/ Ended
  \/ \E t \in Structs : Worker(t)
  \/ \E c \in Conns : Client(c)

Spec == Init /\ [][Next]_vars

(***************************************************************************)
(* Every thread of the server keeps running.  No strong fairness is needed *)
(* for log_mutex: the connections, and with them its holders, are finite.  *)
(***************************************************************************)
ServerFairness == WF_vars(Main) /\ \A t \in Structs : WF_vars(Worker(t))

(* Nothing is assumed of clients.                                          *)
FairSpec == Spec /\ ServerFairness

(***************************************************************************)
(* Every client ends its stream at last, and the timer keeps expiring, in  *)
(* the main thread too, which the kernel prefers for a process's signals.  *)
(***************************************************************************)
FiniteClientsSpec ==
  /\ FairSpec
  /\ WF_vars(\E c \in Conns : EndStream(c))
  /\ WF_vars(TimerInterrupts)

-----------------------------------------------------------------------------
MainLabels == Starting \union Over \union
  {"loop", "accept", "create", "insert", "timer", "stamp", "clear", "reap", "join", "stop"}
WorkerLabels == {"none", "recv", "ioctl", "lock", "write", "read", "close",
                 "flag", "return", "done"}

(* Type invariant of the server's state.                                   *)
TypeOK ==
  /\ main \in MainLabels
  /\ retval \in {0, -1}
  /\ {signal_caught, shut, timer_fired} \subseteq BOOLEAN
  /\ backlog \subseteq Conns
  /\ accepted \in Conns \union {NoConn}
  /\ {head, thread_ptr, next_thread} \subseteq Structs \union {Null}
  /\ next \in [Structs -> Structs \union {Null}]
  /\ alloc \subseteq Structs
  /\ thread_complete \in [Structs -> BOOLEAN]
  /\ worker \in [Structs -> WorkerLabels]
  /\ log_mutex \in Structs \union {NoThread}
  /\ UseDevice => Len(log) <= N

(***************************************************************************)
(* The structs on a list with first element h and next pointers n: the     *)
(* least set that has h and with each element the next one.                *)
(***************************************************************************)
ClosedList(h, n, S) ==
  /\ h # Null => h \in S
  /\ \A t \in S : n[t] # Null => n[t] \in S

Members(h, n) ==
  {t \in Structs : \A S \in SUBSET Structs : ClosedList(h, n, S) => t \in S}

ListMembers == Members(head, next)

(* Each element of the list is reached in one way only.                    *)
Linear(h, n) ==
  /\ \A t, u \in Members(h, n) : n[t] = n[u] /\ n[t] # Null => t = u
  /\ \A t \in Members(h, n) : n[t] # h

(***************************************************************************)
(* The list and the threads agree: the list holds exactly the allocated    *)
(* structs (but for one that is not inserted yet), each once, and a struct *)
(* is allocated exactly as long as its thread has not been joined.  So no  *)
(* worker and no traversal touches a freed struct, and none is lost.       *)
(***************************************************************************)
ListSound ==
  main # "killed" =>
    /\ ListMembers = alloc \ (IF main = "insert" THEN {thread_ptr} ELSE {})
    /\ alloc = {t \in Structs : worker[t] # "none"}
    /\ Linear(head, next)
    /\ main \in {"timer", "stamp", "clear", "reap", "join"} =>
         {thread_ptr, next_thread} \ {Null} \subseteq ListMembers

(***************************************************************************)
(* When main returns, every worker has ended and been joined, so that the  *)
(* end of the process cuts no request short.                               *)
(***************************************************************************)
ExitIsClean ==
  main = "exited" => alloc = {} /\ log_mutex = NoThread

(***************************************************************************)
(* The inductive invariant behind TypeOK, ListSound and ExitIsClean: where *)
(* the pointers of main are at each place, the exact holder of log_mutex,  *)
(* and that the device build never comes to the timer.                     *)
(***************************************************************************)
Pointers ==
  /\ main \in Starting \union {"exited"} => alloc = {}
  /\ main \in Starting \union {"accept", "create"} => thread_ptr = Null
  /\ main = "loop" => thread_ptr = Null \/ retval = -1
  /\ main = "insert" => thread_ptr \in alloc
  /\ main \notin {"join", "killed"} => next_thread = Null
  /\ main = "join" => thread_ptr # Null /\ next_thread = next[thread_ptr]
  /\ main \in {"timer", "stamp", "clear"} => ~UseDevice

LogMutexHeld == \A t \in Structs : log_mutex = t <=> worker[t] = "write"

IInv == TypeOK /\ log \in Seq(Range(log)) /\ ListSound /\ Pointers /\ LogMutexHeld

(***************************************************************************)
(* A client gets back the contents of the log at the moment its worker saw *)
(* the end of file, what it sent (to a device: its line) included if that  *)
(* came in one recv and log_mutex could be locked.  Of a device, this      *)
(* holds as long as the device has room.                                   *)
(***************************************************************************)
AnswerStep(t) ==
  LET f   == local[t]
      own == IF UseDevice THEN FirstLine(f.got) ELSE f.got
  IN  (worker[t] = "read" /\ worker'[t] = "close" /\ ~f.ioctl_found
       /\ (UseDevice => Len(log) < N)) =>
        /\ f.sent = FlattenSeq(log)
        /\ (UseDevice => IsLine(f.got)) /\ f.got = f.final =>
             \E k \in 1..Len(log) : IsSuffix(own, log[k])
AnswerIsContents == [][\A t \in Structs : AnswerStep(t)]_vars

(* After SIGINT or SIGTERM the server exits, whatever it was doing.        *)
SignalStopsServer == signal_caught ~> (main = "exited")

(***************************************************************************)
(* Every worker thread comes to its end when its client does: no one waits *)
(* for log_mutex or for the log for ever.  The connections are finite, so  *)
(* that from some time on no worker is at work.                            *)
(***************************************************************************)
WorkersFinish == <>[](\A t \in Structs : worker[t] \in {"none", "done"})

(***************************************************************************)
(* A timer that has fired is served, although accept blocks and a period   *)
(* may end while main is anywhere; the log has its timestamp then, unless  *)
(* print_timestamp failed.                                                 *)
(***************************************************************************)
TimerServed == timer_fired ~> (~timer_fired \/ main = "exited")

-----------------------------------------------------------------------------
(***************************************************************************)
(* What a comment of the source says and the code does not do; the run     *)
(* packet_chunks finds a counterexample.                                   *)
(***************************************************************************)

(***************************************************************************)
(* "Create a buffer to store the final packet": what a worker writes to    *)
(* the device is what it received.                                         *)
(***************************************************************************)
PacketIsWhole ==
  \A t \in Structs : worker[t] = "write" => Written(local[t]) = local[t].got

=============================================================================
