--------------------------- MODULE AesdSystemProofs ---------------------------
(***************************************************************************)
(* What the server and the driver promise together, for any number of      *)
(* workers, clients and packets and any size of the ring: a worker has the *)
(* device open only while it works on it, and a server that has returned   *)
(* leaves nothing open or locked.                                          *)
(*                                                                         *)
(* The lemmas of AesdSocketProofs are used for Lists, the server of which  *)
(* only the list and the threads count.                                    *)
(***************************************************************************)
EXTENDS AesdSystem, TLAPS

(* worker as Lists sees it.                                                *)
ListWorker == [t \in Structs |-> IF worker[t] = "fclose" THEN "write" ELSE worker[t]]

L == INSTANCE AesdSocketProofs WITH
  UseDevice <- TRUE, Stamp <- <<>>, log <- <<>>, pending <- <<>>, worker <- ListWorker

(* What the lemmas of AesdSocketProofs assume holds here.                  *)
LEMMA ListAssumptions ==
  /\ \A b \in Packets : Len(b) < BufSize /\ NUL \notin L!Range(b)
  /\ {Null, NoThread} \intersect Structs = {}
  /\ Positions \subseteq Nat /\ {N, MaxLog} \subseteq Nat /\ TRUE \in BOOLEAN
BY ServerAssumption DEF L!Range

(* The two instances say the same.                                         *)
LEMMA SameLists == Lists!IInv <=> L!IInv
BY DEF Lists!IInv, Lists!TypeOK, Lists!ListSound, Lists!Pointers, Lists!LogMutexHeld,
       Lists!ListMembers, Lists!Members, Lists!ClosedList, Lists!Linear, Lists!MainLabels,
       Lists!WorkerLabels, Lists!Starting, Lists!Over, Lists!Range,
       L!IInv, L!TypeOK, L!ListSound, L!Pointers, L!LogMutexHeld,
       L!ListMembers, L!Members, L!ClosedList, L!Linear, L!MainLabels,
       L!WorkerLabels, L!Starting, L!Over, L!Range, ListWorker

LEMMA SameListsNext == (Lists!IInv <=> L!IInv)'
BY SameLists, PTL

-------------------------------------------------------------------------------
(***************************************************************************)
(* The list and the threads.                                               *)
(***************************************************************************)

LEMMA ServerRests ==
  ASSUME L!IInv, UNCHANGED server
  PROVE  L!IInv'
<1>1. UNCHANGED L!vars
  BY DEF server, L!vars, L!control, L!signals, L!list, L!threads, L!device, L!network,
         ListWorker
<1>. QED
  BY <1>1, ListAssumptions, L!StutterStep

LEMMA ListSignalStep ==
  ASSUME L!IInv, Signal
  PROVE  L!IInv'
<1>1. L!Signal
  BY DEF Signal, Srv!Signal, L!Signal, Srv!Over, L!Over, Srv!Starting, L!Starting,
         Srv!control, L!control, Srv!list, L!list, Srv!threads, L!threads,
         L!device, Srv!network, L!network, ListWorker
<1>. QED
  BY <1>1, ListAssumptions, L!SignalStep

LEMMA ListClientStep ==
  ASSUME L!IInv, NEW c \in Conns, Client(c)
  PROVE  L!IInv'
<1>1. L!Client(c)
  BY DEF Client, Srv!Client, L!Client, Srv!EndStream, L!EndStream, Srv!Vanish, L!Vanish,
         Srv!Connect, L!Connect, Srv!Over, L!Over, Srv!Starting, L!Starting, Srv!May, L!May,
         Srv!control, L!control, Srv!signals, L!signals, Srv!list, L!list, Srv!threads,
         L!threads, L!device, ListWorker
<1>. QED
  BY <1>1, ListAssumptions, L!ClientStep

(* The main thread: of workers it only creates and joins.                  *)
LEMMA MainBegins ==
  ASSUME Srv!Register \/ Srv!OpenSocket \/ Srv!Daemonise \/ Srv!Listen \/ Srv!Loop
         \/ Srv!Accept \/ Srv!Insert \/ Srv!CheckTimer
  PROVE  L!Main
<1>. USE DEF Srv!MainStep, L!MainStep, Srv!control, L!control, Srv!signals, L!signals,
             Srv!list, L!list, Srv!threads, L!threads, L!device, Srv!network, L!network,
             Srv!May, L!May, ListWorker
<1>1. CASE Srv!Register \/ Srv!OpenSocket \/ Srv!Daemonise \/ Srv!Listen
  <2>1. L!Register \/ L!OpenSocket \/ L!Daemonise \/ L!Listen
    BY <1>1 DEF Srv!Register, Srv!OpenSocket, Srv!Daemonise, Srv!Listen, Srv!Begin,
                L!Register, L!OpenSocket, L!Daemonise, L!Listen, L!Begin
  <2>. QED
    BY <2>1 DEF L!Main
<1>2. CASE Srv!Loop \/ Srv!Accept \/ Srv!Insert \/ Srv!CheckTimer
  <2>1. L!Loop \/ L!Accept \/ L!Insert \/ L!CheckTimer
    BY <1>2 DEF Srv!Loop, Srv!Accept, Srv!Insert, Srv!CheckTimer, Srv!SlistInsertHead,
                L!Loop, L!Accept, L!Insert, L!CheckTimer, L!SlistInsertHead
  <2>. QED
    BY <2>1 DEF L!Main
<1>. QED
  BY <1>1, <1>2

LEMMA MainCreates ==
  ASSUME SystemTypes, Srv!Create
  PROVE  L!Main
<1>1. worker' \in {worker} \union {[worker EXCEPT ![t] = "recv"] : t \in Structs}
  BY DEF Srv!Create, Srv!threads
<1>2. ASSUME NEW t \in Structs, worker' = [worker EXCEPT ![t] = "recv"]
      PROVE  ListWorker' = [ListWorker EXCEPT ![t] = "recv"]
  <2>1. \A u \in Structs : worker'[u] = IF u = t THEN "recv" ELSE worker[u]
    BY <1>2 DEF SystemTypes
  <2>. QED
    BY <2>1 DEF ListWorker
<1>3. worker' = worker => ListWorker' = ListWorker
  BY DEF ListWorker
<1>4. L!Create
  BY <1>2, <1>3 DEF Srv!Create, L!Create, Srv!MainStep, L!MainStep, Srv!signals, L!signals,
     L!device, Srv!network, L!network, Srv!threads, L!threads, Srv!May, L!May,
     Srv!Fresh, L!Fresh, ListWorker
<1>. QED
  BY <1>4 DEF L!Main

LEMMA MainJoins ==
  ASSUME SystemTypes, NEW t \in Structs, Srv!Join(t)
  PROVE  L!Join(t)
<1>1. worker[t] = "done" /\ worker' = [worker EXCEPT ![t] = "none"]
  BY DEF Srv!Join
<1>2. \A u \in Structs : worker'[u] = IF u = t THEN "none" ELSE worker[u]
  BY <1>1 DEF SystemTypes
<1>3. ListWorker[t] = "done"
  BY <1>1 DEF ListWorker
<1>4. ListWorker' = [ListWorker EXCEPT ![t] = "none"]
  BY <1>2 DEF ListWorker
<1>. QED
  BY <1>3, <1>4 DEF Srv!Join, L!Join, Srv!Fresh, L!Fresh, ListWorker

LEMMA MainReaps ==
  ASSUME L!IInv, SystemTypes, Srv!Reap \/ Srv!ReapJoin \/ Srv!StopJoin \/ Srv!Exit
  PROVE  L!Main
<1>. USE DEF Srv!MainStep, L!MainStep, Srv!control, L!control, Srv!signals, L!signals,
             Srv!threads, L!threads, L!device, Srv!network, L!network
<1>1. CASE Srv!Reap
  BY <1>1 DEF Srv!Reap, L!Reap, L!Main, ListWorker
<1>2. CASE Srv!ReapJoin
  <2>1. thread_ptr \in Structs
    BY <1>2 DEF Srv!ReapJoin, L!IInv, L!TypeOK, L!Pointers
  <2>2. L!Join(thread_ptr)
    BY <1>2, <2>1, MainJoins DEF Srv!ReapJoin
  <2>3. L!SlistRemove(thread_ptr)
    BY <1>2 DEF Srv!ReapJoin, Srv!SlistRemove, L!SlistRemove, Srv!SlistRemoveHead,
                L!SlistRemoveHead
  <2>. QED
    BY <1>2, <2>2, <2>3 DEF Srv!ReapJoin, L!ReapJoin, L!Main
<1>3. CASE Srv!StopJoin
  <2>1. head \in Structs
    BY <1>3 DEF Srv!StopJoin, L!IInv, L!TypeOK
  <2>2. L!Join(head)
    BY <1>3, <2>1, MainJoins DEF Srv!StopJoin
  <2>. QED
    BY <1>3, <2>2 DEF Srv!StopJoin, L!StopJoin, Srv!SlistRemoveHead, L!SlistRemoveHead, L!Main
<1>4. CASE Srv!Exit
  BY <1>4 DEF Srv!Exit, L!Exit, L!Main, ListWorker
<1>. QED
  BY <1>1, <1>2, <1>3, <1>4

(* The device build never comes to the timestamp.                          *)
LEMMA ListMainStep ==
  ASSUME L!IInv, SystemTypes, Main
  PROVE  L!IInv'
<1>1. ~Srv!PrintTimestamp /\ ~Srv!ClearTimer
  BY DEF Srv!PrintTimestamp, Srv!ClearTimer, L!IInv, L!Pointers
<1>2. L!Main
  BY <1>1, MainBegins, MainCreates, MainReaps DEF Main, Srv!Main
<1>. QED
  BY <1>2, ListAssumptions, L!MainThreadStep

(***************************************************************************)
(* A worker's steps.                                                       *)
(***************************************************************************)

LEMMA WorkerFacts ==
  ASSUME L!IInv, SystemTypes, NEW t \in Structs
  PROVE  /\ log_mutex = t <=> worker[t] \in {"write", "fclose"}
         /\ thread_complete \in [Structs -> BOOLEAN]
         /\ log_mutex \in Structs \union {NoThread}
         /\ NoThread \notin Structs
<1>1. log_mutex = t <=> ListWorker[t] = "write"
  BY DEF L!IInv, L!LogMutexHeld
<1>. QED
  BY <1>1, ServerAssumption DEF ListWorker, L!IInv, L!TypeOK

(* The label a worker comes to, and who holds log_mutex then.              *)
LEMMA ListWorkerMoves ==
  ASSUME L!IInv, SystemTypes, NEW t \in Structs,
         NEW label \in (Srv!WorkerLabels \ {"none"}) \union {"fclose"},
         worker[t] # "none",
         worker' = [worker EXCEPT ![t] = label],
         thread_complete' \in [Structs -> BOOLEAN],
         log_mutex' \in Structs \union {NoThread},
         log_mutex' = t <=> label \in {"write", "fclose"},
         \A u \in Structs \ {t} : log_mutex' = u <=> log_mutex = u,
         Srv!WorkerStep
  PROVE  L!IInv'
<1>. DEFINE to == IF label = "fclose" THEN "write" ELSE label
<1>1. ListWorker' = [ListWorker EXCEPT ![t] = to]
  <2>1. \A u \in Structs : worker'[u] = IF u = t THEN label ELSE worker[u]
    BY DEF SystemTypes
  <2>. QED
    BY <2>1 DEF ListWorker
<1>2. ListWorker[t] # "none" /\ to \in L!WorkerLabels \ {"none"}
  BY DEF ListWorker, L!WorkerLabels, Srv!WorkerLabels
<1>3. log_mutex' = t <=> to = "write"
  OBVIOUS
<1>4. L!WorkerStep
  BY DEF L!WorkerStep, Srv!WorkerStep, Srv!control, L!control, Srv!signals, L!signals,
         Srv!list, L!list
<1>5. <<>> \in Seq(L!Range(<<>>)) /\ Len(<<>>) <= N
  BY ListAssumptions
<1>. HIDE DEF to
<1>. QED
  BY <1>1, <1>2, <1>3, <1>4, <1>5, ListAssumptions, L!WorkerMoves

(* A step that leaves log_mutex alone.                                     *)
LEMMA ListWorkerElsewhere ==
  ASSUME L!IInv, SystemTypes, NEW t \in Structs,
         NEW label \in (Srv!WorkerLabels \ {"none"}) \union {"fclose"},
         worker[t] # "none",
         worker[t] \in {"write", "fclose"} <=> label \in {"write", "fclose"},
         worker' = [worker EXCEPT ![t] = label],
         thread_complete' \in [Structs -> BOOLEAN],
         log_mutex' = log_mutex, Srv!WorkerStep
  PROVE  L!IInv'
<1>1. /\ log_mutex' = t <=> label \in {"write", "fclose"}
      /\ log_mutex' \in Structs \union {NoThread}
  BY WorkerFacts
<1>. QED
  BY <1>1, ListWorkerMoves

-------------------------------------------------------------------------------
(***************************************************************************)
(* The driver, as far as its mutex and the files go.                       *)
(***************************************************************************)

Reading == {"read_lock", "read_find", "read_copy"}

(* d is a frame of the call that c is a frame of.                          *)
SameCall(c, d) == DOMAIN d = DOMAIN Drv!NoCall /\ d.op = c.op /\ d.file = c.file

(* Locals change, op and file do not.                                      *)
LEMMA UpdatedCall ==
  ASSUME NEW c, DOMAIN c = DOMAIN Drv!NoCall, NEW a, NEW b
  PROVE  /\ SameCall(c, c)
         /\ SameCall(c, [c EXCEPT !.acc = b])
         /\ SameCall(c, [c EXCEPT !.ret = b])
         /\ SameCall(c, [c EXCEPT !.idx = a, !.acc = b])
<1>1. {"op", "file", "idx", "acc", "ret"} \subseteq DOMAIN c
  BY DEF Drv!NoCall
<1>. QED
  BY <1>1 DEF SameCall

LEMMA NewCall ==
  ASSUME NEW opname, NEW t, NEW a, NEW b
  PROVE  /\ DOMAIN Drv!Frame(opname, t) = DOMAIN Drv!NoCall
         /\ Drv!Frame(opname, t).op = opname /\ Drv!Frame(opname, t).file = t
         /\ SameCall(Drv!Frame(opname, t), [Drv!Frame(opname, t) EXCEPT !.pos = a, !.ret = b])
BY DEF Drv!Frame, Drv!NoCall, SameCall

LEMMA ReturnedCall ==
  ASSUME NEW t, NEW c, NEW r, Drv!Return(t, c, r)
  PROVE  \E new : Drv!Goto(t, "ret", new) /\ SameCall(c, new)
<1>. DEFINE new == [Drv!Frame(c.op, c.file) EXCEPT !.pos = c.pos, !.ret = r]
<1>1. SameCall(Drv!Frame(c.op, c.file), new)
  BY NewCall
<1>2. SameCall(c, new)
  BY <1>1, NewCall DEF SameCall
<1>. HIDE DEF new
<1>3. Drv!Goto(t, "ret", new)
  BY DEF Drv!Return, new
<1>. QED
  BY <1>2, <1>3

(* What a step does to buf_mutex when it takes t from one label to another.*)
MutexMoves(t, from, to) ==
  \/ mutex' = mutex /\ (from \in Drv!Critical <=> to \in Drv!Critical)
  \/ mutex = NoThread /\ mutex' = t /\ to \in Drv!Critical
  \/ mutex' = NoThread /\ from \in Drv!Critical /\ to \notin Drv!Critical

(* A step inside a call.                                                   *)
CallStep(t, c) ==
  \E label \in Drv!Labels \ {"idle"} : \E new :
    /\ Drv!Goto(t, label, new)
    /\ SameCall(c, new)
    /\ MutexMoves(t, pc[t], label)
    /\ label \in Reading => c.op = "read" \/ pc[t] \in Reading

LEMMA CallStepIntro ==
  ASSUME NEW t, NEW c, NEW label \in Drv!Labels \ {"idle"}, NEW new,
         Drv!Goto(t, label, new), SameCall(c, new), MutexMoves(t, pc[t], label),
         label \in Reading => c.op = "read" \/ pc[t] \in Reading
  PROVE  CallStep(t, c)
BY DEF CallStep

LEMMA ReturnStep ==
  ASSUME NEW t, NEW c, NEW r, Drv!Return(t, c, r), MutexMoves(t, pc[t], "ret")
  PROVE  CallStep(t, c)
<1>1. PICK new : Drv!Goto(t, "ret", new) /\ SameCall(c, new)
  BY ReturnedCall
<1>. QED
  BY <1>1, CallStepIntro DEF Drv!Labels, Reading

LEMMA FinishStep ==
  ASSUME NEW t, NEW r, Drv!Finish(t, r), MutexMoves(t, pc[t], "ret")
  PROVE  CallStep(t, call[t])
BY ReturnStep DEF Drv!Finish

(* A step inside a call that leaves the frame or updates its loop.         *)
LEMMA LoopStep ==
  ASSUME SystemTypes, NEW t \in Structs, NEW label \in Drv!Labels \ {"idle"}, NEW a, NEW b,
         \/ Drv!Goto(t, label, call[t])
         \/ Drv!Goto(t, label, [call[t] EXCEPT !.acc = b])
         \/ Drv!Goto(t, label, [call[t] EXCEPT !.ret = b])
         \/ Drv!Goto(t, label, [call[t] EXCEPT !.idx = a, !.acc = b]),
         MutexMoves(t, pc[t], label),
         label \in Reading => pc[t] \in Reading
  PROVE  CallStep(t, call[t])
<1>1. DOMAIN call[t] = DOMAIN Drv!NoCall
  BY DEF SystemTypes
<1>. QED
  BY <1>1, UpdatedCall, CallStepIntro

LEMMA DriverLocks ==
  ASSUME SystemTypes, NEW t \in Structs, Drv!Lock(t)
  PROVE  CallStep(t, call[t]) /\ opened' = opened /\ pc[t] # "idle"
<1>1. /\ pc[t] \in {"read_lock", "write_lock", "seek_lock", "ioctl_lock"}
      /\ opened' = opened
  BY DEF Drv!Lock, Drv!ReadLock, Drv!WriteLock, Drv!LlseekLock, Drv!IoctlLock, Drv!vfs
<1>2. CASE Drv!Interrupted /\ Drv!Finish(t, Drv!ERESTARTSYS)
  <2>1. MutexMoves(t, pc[t], "ret")
    BY <1>1, <1>2 DEF Drv!Interrupted, MutexMoves, Drv!Critical
  <2>. QED
    BY <1>1, <1>2, <2>1, FinishStep
<1>3. ASSUME Drv!MutexLock(t), NEW label \in Drv!Critical
      PROVE  MutexMoves(t, pc[t], label)
  BY <1>3 DEF Drv!MutexLock, MutexMoves
<1>4. CASE Drv!ReadLock(t)
  <2>1. ASSUME Drv!MutexLock(t),
               Drv!Goto(t, "read_find", [call[t] EXCEPT !.idx = buffer.out_offs, !.acc = 0])
        PROVE  CallStep(t, call[t])
    BY <1>3, <1>4, <2>1, LoopStep DEF Drv!ReadLock, Reading, Drv!Critical, Drv!Labels
  <2>. QED
    BY <1>1, <1>2, <1>4, <2>1 DEF Drv!ReadLock
<1>5. CASE Drv!WriteLock(t)
  <2>1. ASSUME Drv!MutexLock(t), Drv!Goto(t, "write_realloc", call[t])
        PROVE  CallStep(t, call[t])
    BY <1>3, <2>1, LoopStep DEF Reading, Drv!Critical, Drv!Labels
  <2>. QED
    BY <1>1, <1>2, <1>5, <2>1 DEF Drv!WriteLock
<1>6. CASE Drv!LlseekLock(t)
  <2>1. ASSUME Drv!MutexLock(t),
               Drv!Goto(t, "seek_sum", [call[t] EXCEPT !.idx = 0, !.acc = 0])
        PROVE  CallStep(t, call[t])
    BY <1>3, <2>1, LoopStep DEF Reading, Drv!Critical, Drv!Labels
  <2>. QED
    BY <1>1, <1>2, <1>6, <2>1 DEF Drv!LlseekLock
<1>7. CASE Drv!IoctlLock(t)
  <2>1. ASSUME Drv!MutexLock(t), Drv!Goto(t, "ioctl_check", call[t])
        PROVE  CallStep(t, call[t])
    BY <1>3, <2>1, LoopStep DEF Reading, Drv!Critical, Drv!Labels
  <2>. QED
    BY <1>1, <1>2, <1>7, <2>1 DEF Drv!IoctlLock
<1>. QED
  BY <1>1, <1>4, <1>5, <1>6, <1>7 DEF Drv!Lock

LEMMA DriverRuns ==
  ASSUME SystemTypes, CallsOfWorker, NEW t \in Structs, Drv!Run(t), pc[t] # "ret"
  PROVE  CallStep(t, call[t]) /\ opened' = opened /\ pc[t] # "idle"
<1>1. ASSUME pc[t] \in Drv!Critical, Drv!MutexUnlock
      PROVE  MutexMoves(t, pc[t], "ret") /\ MutexMoves(t, pc[t], "ioctl_set")
  BY <1>1 DEF Drv!MutexUnlock, MutexMoves, Drv!Critical
<1>2. ASSUME NEW r, pc[t] \in Drv!Critical, Drv!MutexUnlock, Drv!Finish(t, r)
      PROVE  CallStep(t, call[t])
  BY <1>1, <1>2, FinishStep
<1>3. ASSUME NEW label \in Drv!Critical, pc[t] \in Drv!Critical, mutex' = mutex
      PROVE  MutexMoves(t, pc[t], label)
  BY <1>3 DEF MutexMoves
<1>. USE DEF Drv!vfs
<1>4. CASE Drv!ReadFindNext(t) \/ Drv!ReadFindEntry(t)
  BY <1>3, <1>4, LoopStep DEF Drv!ReadFindNext, Drv!ReadFindEntry, Drv!Critical, Drv!Labels,
     Reading
<1>5. CASE Drv!ReadFindNone(t)
  BY <1>2, <1>5 DEF Drv!ReadFindNone, Drv!Critical
<1>6. CASE Drv!ReadCopy(t)
  <2>1. pc[t] = "read_copy" /\ Drv!MutexUnlock /\ opened' = opened
    BY <1>6 DEF Drv!ReadCopy
  <2>2. call[t].op = "read"
    BY <2>1 DEF CallsOfWorker
  <2>3. MutexMoves(t, pc[t], "ret")
    BY <1>1, <2>1 DEF Drv!Critical
  <2>4. ASSUME NEW a, NEW b, NEW d,
               Drv!Goto(t, "ret", [Drv!Frame("read", call[t].file) EXCEPT
                                    !.data = d, !.pos = a, !.ret = b])
        PROVE  CallStep(t, call[t])
    <3>. DEFINE new == [Drv!Frame("read", call[t].file) EXCEPT !.data = d, !.pos = a, !.ret = b]
    <3>1. SameCall(call[t], new)
      BY <2>2 DEF SameCall, Drv!Frame, Drv!NoCall
    <3>. HIDE DEF new
    <3>. QED
      BY <2>3, <2>4, <3>1, CallStepIntro DEF Drv!Labels, Reading, new
  <2>5. CASE Drv!Finish(t, Drv!EFAULT)
    BY <2>1, <2>3, <2>5, FinishStep
  <2>. QED
    BY <1>6, <2>1, <2>4, <2>5 DEF Drv!ReadCopy
<1>7. CASE Drv!WriteRealloc(t)
  BY <1>3, <1>7, LoopStep DEF Drv!WriteRealloc, Drv!Critical, Drv!Labels, Reading
<1>8. CASE Drv!WriteReallocFails(t)
  BY <1>2, <1>8 DEF Drv!WriteReallocFails, Drv!Critical
<1>9. CASE Drv!WriteCopy(t)
  <2>. DEFINE frame == [call[t] EXCEPT !.pos = @ + Len(call[t].data)]
  <2>1. /\ pc[t] = "write_copy" /\ Drv!MutexUnlock /\ opened' = opened
        /\ Drv!Return(t, frame, Len(call[t].data))
    BY <1>9 DEF Drv!WriteCopy
  <2>2. SameCall(call[t], frame)
    <3>1. DOMAIN call[t] = DOMAIN Drv!NoCall
      BY DEF SystemTypes
    <3>2. {"op", "file", "pos"} \subseteq DOMAIN call[t]
      BY <3>1 DEF Drv!NoCall
    <3>. QED
      BY <3>1, <3>2 DEF SameCall
  <2>3. MutexMoves(t, pc[t], "ret")
    BY <1>1, <2>1 DEF Drv!Critical
  <2>. HIDE DEF frame
  <2>4. CallStep(t, frame)
    BY <2>1, <2>3, ReturnStep
  <2>. QED
    BY <2>1, <2>2, <2>4 DEF CallStep, SameCall
<1>10. CASE Drv!LlseekSum(t) \/ Drv!IoctlSum(t)
  BY <1>3, <1>10, LoopStep DEF Drv!LlseekSum, Drv!IoctlSum, Drv!Critical, Drv!Labels, Reading
<1>11. CASE Drv!LlseekTarget(t) \/ Drv!LlseekSet(t)
  <2>1. CASE Drv!LlseekTarget(t)
    <3>. DEFINE pos == Drv!FixedSizeLlseek(fpos[call[t].file], call[t].arg, call[t].whence,
                                           call[t].acc)
    <3>1. /\ pc[t] = "seek_sum" /\ mutex' = mutex /\ opened' = opened
          /\ Drv!Goto(t, "seek_set", [call[t] EXCEPT !.ret = pos])
      BY <2>1 DEF Drv!LlseekTarget
    <3>. HIDE DEF pos
    <3>. QED
      BY <1>3, <3>1, LoopStep DEF Drv!Critical, Drv!Labels, Reading
  <2>2. CASE Drv!LlseekSet(t)
    BY <1>2, <2>2 DEF Drv!LlseekSet, Drv!Critical
  <2>. QED
    BY <1>11, <2>1, <2>2
<1>12. CASE Drv!IoctlCheck(t)
  <2>1. ASSUME mutex' = mutex, Drv!Goto(t, "ioctl_sum", [call[t] EXCEPT !.idx = 0, !.acc = 0])
        PROVE  CallStep(t, call[t])
    BY <1>3, <1>12, <2>1, LoopStep DEF Drv!IoctlCheck, Drv!Critical, Drv!Labels, Reading
  <2>. QED
    BY <1>2, <1>12, <2>1 DEF Drv!IoctlCheck, Drv!Critical
<1>13. CASE Drv!IoctlUnlock(t)
  BY <1>1, <1>13, LoopStep DEF Drv!IoctlUnlock, Drv!Critical, Drv!Labels, Reading
<1>14. CASE Drv!IoctlSet(t)
  <2>1. pc[t] = "ioctl_set" /\ mutex' = mutex /\ opened' = opened /\ Drv!Finish(t, 0)
    BY <1>14 DEF Drv!IoctlSet
  <2>2. MutexMoves(t, pc[t], "ret")
    BY <2>1 DEF MutexMoves, Drv!Critical
  <2>. QED
    BY <2>1, <2>2, FinishStep
<1>15. ~Drv!VfsReturn(t)
  BY DEF Drv!VfsReturn
<1>. QED
  BY <1>4, <1>5, <1>6, <1>7, <1>8, <1>9, <1>10, <1>11, <1>12, <1>13, <1>14, <1>15 DEF Drv!Run

-------------------------------------------------------------------------------
(***************************************************************************)
(* The files.                                                              *)
(***************************************************************************)

Files == SystemTypes /\ DriverMutex /\ CallsOfWorker /\ OpenAtWork

(* What Files says of t.                                                   *)
FilesOf(t) ==
  /\ pc[t] \in Drv!Critical <=> mutex = t
  /\ pc[t] # "idle" =>
       /\ t \in opened
       /\ worker[t] \in {"write", "ioctl", "read"}
       /\ call[t].op = worker[t] /\ call[t].file = t
       /\ pc[t] \in Reading => worker[t] = "read"
  /\ t \in opened => worker[t] \in {"write", "fclose", "ioctl", "read", "close"}

LEMMA FilesParts == Files <=> SystemTypes /\ \A t \in Structs : FilesOf(t)
BY DEF Files, SystemTypes, DriverMutex, CallsOfWorker, OpenAtWork, FilesOf, Reading

LEMMA FilesPartsNext == (Files <=> SystemTypes /\ \A t \in Structs : FilesOf(t))'
BY FilesParts, PTL

(* A step of t, seen from the others.                                      *)
LEMMA OthersFiles ==
  ASSUME Files, NEW t \in Structs, SystemTypes', FilesOf(t)',
         \A u \in Structs \ {t} :
           /\ pc'[u] = pc[u] /\ call'[u] = call[u] /\ worker'[u] = worker[u]
           /\ mutex' = u <=> mutex = u
           /\ u \in opened' <=> u \in opened
  PROVE  Files'
<1>1. \A u \in Structs \ {t} : FilesOf(u)'
  BY FilesParts DEF FilesOf
<1>. QED
  BY <1>1, FilesPartsNext

(* The server moves workers that are not in the driver.                    *)
LEMMA ServerMovesFiles ==
  ASSUME Files, UNCHANGED driver,
         worker' \in [Structs -> Srv!WorkerLabels \union {"fclose"}],
         \A t \in Structs :
           \/ worker'[t] = worker[t]
           \/ t \notin opened
           \/ pc[t] = "idle" /\ worker'[t] \in {"write", "fclose", "ioctl", "read", "close"}
  PROVE  Files'
<1>1. SystemTypes'
  BY DEF Files, SystemTypes, driver
<1>2. ASSUME NEW t \in Structs
      PROVE  FilesOf(t)'
  BY <1>2, FilesParts DEF FilesOf, driver
<1>. QED
  BY <1>1, <1>2, FilesPartsNext

(* Taking or giving back buf_mutex is no concern of the others.            *)
LEMMA MutexOthers ==
  ASSUME Files, NEW t \in Structs, NEW label, MutexMoves(t, pc[t], label)
  PROVE  /\ label \in Drv!Critical <=> mutex' = t
         /\ \A u \in Structs \ {t} : mutex' = u <=> mutex = u
         /\ mutex' \in Structs \union {NoThread}
<1>1. pc[t] \in Drv!Critical <=> mutex = t
  BY DEF Files, DriverMutex
<1>2. mutex \in Structs \union {NoThread} /\ NoThread \notin Structs
  BY ServerAssumption DEF Files, SystemTypes
<1>. QED
  BY <1>1, <1>2 DEF MutexMoves

(* t begins, runs through or ends a call of its worker.                    *)
LEMMA DriverMovesFiles ==
  ASSUME Files, NEW t \in Structs, NEW label \in Drv!Labels, NEW new,
         Drv!Goto(t, label, new), DOMAIN new = DOMAIN Drv!NoCall,
         MutexMoves(t, pc[t], label),
         label # "idle" =>
           /\ worker[t] \in {"write", "ioctl", "read"}
           /\ new.op = worker[t] /\ new.file = t
           /\ label \in Reading => worker[t] = "read",
         t \in opened, opened' = opened, worker' = worker
  PROVE  Files'
<1>1. /\ pc'[t] = label /\ call'[t] = new
      /\ \A u \in Structs \ {t} : pc'[u] = pc[u] /\ call'[u] = call[u]
      /\ pc' \in [Structs -> Drv!Labels] /\ DOMAIN call' = Structs
  BY DEF Drv!Goto, Files, SystemTypes
<1>2. /\ label \in Drv!Critical <=> mutex' = t
      /\ \A u \in Structs \ {t} : mutex' = u <=> mutex = u
      /\ mutex' \in Structs \union {NoThread}
  BY MutexOthers
<1>3. SystemTypes'
  BY <1>1, <1>2 DEF Files, SystemTypes
<1>4. FilesOf(t)'
  BY <1>1, <1>2, FilesParts DEF FilesOf
<1>. QED
  BY <1>1, <1>2, <1>3, <1>4, OthersFiles

LEMMA CallStepFiles ==
  ASSUME Files, NEW t \in Structs, NEW c, CallStep(t, c),
         c.op = worker[t], c.file = t, worker[t] \in {"write", "ioctl", "read"},
         t \in opened, opened' = opened, worker' = worker
  PROVE  Files'
<1>0. PICK label \in Drv!Labels \ {"idle"} : \E new :
        /\ Drv!Goto(t, label, new) /\ SameCall(c, new) /\ MutexMoves(t, pc[t], label)
        /\ label \in Reading => c.op = "read" \/ pc[t] \in Reading
  BY DEF CallStep
<1>1. PICK new :
        /\ Drv!Goto(t, label, new) /\ SameCall(c, new) /\ MutexMoves(t, pc[t], label)
        /\ label \in Reading => c.op = "read" \/ pc[t] \in Reading
  BY <1>0
<1>2. pc[t] \in Reading => worker[t] = "read"
  BY DEF Files, CallsOfWorker, Reading
<1>. QED
  BY <1>1, <1>2, DriverMovesFiles DEF SameCall

(* The steps of the system one by one.                                     *)
LEMMA LoadStep ==
  ASSUME L!IInv, Files, Load
  PROVE  L!IInv' /\ Files'
<1>1. main = "start" /\ UNCHANGED server /\ UNCHANGED <<opened, pc, call>>
      /\ mutex' \in {mutex, NoThread}
  BY DEF Load, Drv!InitModule, Drv!SetupCdev
<1>2. \A t \in Structs : worker[t] = "none"
  <2>1. \A t \in Structs : ListWorker[t] = "none"
    BY <1>1 DEF L!IInv, L!Pointers, L!ListSound, L!Starting
  <2>. QED
    BY <2>1 DEF ListWorker
<1>3. \A t \in Structs : pc[t] \notin Drv!Critical /\ mutex # t
  BY <1>2 DEF Files, CallsOfWorker, DriverMutex, Drv!Critical
<1>4. SystemTypes'
  BY <1>1 DEF Files, SystemTypes, server
<1>5. ASSUME NEW t \in Structs
      PROVE  FilesOf(t)'
  BY <1>1, <1>3, FilesParts, ServerAssumption DEF FilesOf, server
<1>. QED
  BY <1>1, <1>4, <1>5, FilesPartsNext, ServerRests

LEMMA MainStep ==
  ASSUME L!IInv, Files, Main
  PROVE  L!IInv' /\ Files'
<1>1. UNCHANGED driver /\ Srv!Main /\ SystemTypes
  BY DEF Main, Files
<1>2. \/ worker' = worker
      \/ \E t \in Structs : /\ worker[t] \in {"none", "done"}
                            /\ worker' = [worker EXCEPT ![t] = "recv"]
                               \/ worker' = [worker EXCEPT ![t] = "none"]
  <2>. USE DEF Srv!threads
  <2>1. CASE Srv!Create
    <3>1. SUFFICES ASSUME NEW t \in Structs \ alloc, worker' = [worker EXCEPT ![t] = "recv"]
                   PROVE  worker[t] = "none"
      BY <2>1 DEF Srv!Create
    <3>2. main # "killed" /\ main = "create"
      BY <2>1 DEF Srv!Create
    <3>3. ListWorker[t] = "none"
      BY <3>1, <3>2 DEF L!IInv, L!ListSound
    <3>. QED
      BY <3>3 DEF ListWorker
  <2>2. ASSUME NEW t \in Structs, Srv!Join(t)
        PROVE  worker[t] = "done" /\ worker' = [worker EXCEPT ![t] = "none"]
    BY <2>2 DEF Srv!Join
  <2>3. CASE Srv!ReapJoin
    <3>1. thread_ptr \in Structs
      BY <2>3 DEF Srv!ReapJoin, L!IInv, L!TypeOK, L!Pointers
    <3>. QED
      BY <2>2, <2>3, <3>1 DEF Srv!ReapJoin
  <2>4. CASE Srv!StopJoin
    <3>1. head \in Structs
      BY <2>4 DEF Srv!StopJoin, L!IInv, L!TypeOK
    <3>. QED
      BY <2>2, <2>4, <3>1 DEF Srv!StopJoin
  <2>. QED
    BY <1>1, <2>1, <2>3, <2>4
       DEF Srv!Main, Srv!Register, Srv!OpenSocket, Srv!Daemonise, Srv!Listen, Srv!Begin,
           Srv!Loop, Srv!Accept, Srv!Insert, Srv!CheckTimer, Srv!PrintTimestamp,
           Srv!ClearTimer, Srv!Reap, Srv!Exit
<1>3. CASE worker' = worker
  BY <1>1, <1>3, ServerMovesFiles, ListMainStep DEF SystemTypes
<1>4. ASSUME NEW t \in Structs, worker[t] \in {"none", "done"},
             worker' = [worker EXCEPT ![t] = "recv"] \/ worker' = [worker EXCEPT ![t] = "none"]
      PROVE  Files'
  <2>1. t \notin opened
    BY <1>4 DEF Files, OpenAtWork
  <2>2. worker' \in [Structs -> Srv!WorkerLabels \union {"fclose"}]
    BY <1>1, <1>4 DEF SystemTypes, Srv!WorkerLabels
  <2>3. \A u \in Structs : worker'[u] = worker[u] \/ u \notin opened
    BY <1>1, <1>4, <2>1 DEF SystemTypes
  <2>. QED
    BY <1>1, <2>2, <2>3, ServerMovesFiles
<1>. QED
  BY <1>1, <1>2, <1>3, <1>4, ListMainStep

LEMMA RestStep ==
  ASSUME L!IInv, Files, UNCHANGED driver, UNCHANGED server
  PROVE  L!IInv' /\ Files'
BY ServerMovesFiles, ServerRests DEF server, Files, SystemTypes

LEMMA SignalAndClientStep ==
  ASSUME L!IInv, Files, Signal \/ \E c \in Conns : Client(c)
  PROVE  L!IInv' /\ Files'
<1>1. UNCHANGED driver /\ worker' = worker
  BY DEF Signal, Srv!Signal, Client, Srv!Client, Srv!EndStream, Srv!Vanish, Srv!Connect,
         Srv!threads
<1>. QED
  BY <1>1, ServerMovesFiles, ListSignalStep, ListClientStep DEF Files, SystemTypes

(* A worker's step away from the device.                                   *)
LEMMA WorkerGoes ==
  ASSUME L!IInv, Files, NEW t \in Structs, UNCHANGED driver,
         NEW label \in (Srv!WorkerLabels \ {"none"}) \union {"fclose"},
         worker[t] # "none", worker' = [worker EXCEPT ![t] = label],
         \/ t \notin opened
         \/ pc[t] = "idle" /\ label \in {"write", "fclose", "ioctl", "read", "close"}
  PROVE  Files'
<1>1. /\ worker' \in [Structs -> Srv!WorkerLabels \union {"fclose"}]
      /\ \A u \in Structs : worker'[u] = IF u = t THEN label ELSE worker[u]
  BY DEF Files, SystemTypes
<1>. QED
  BY <1>1, ServerMovesFiles

LEMMA AloneStep ==
  ASSUME L!IInv, Files, NEW t \in Structs, WorkerAlone(t) \/ CloseClient(t)
  PROVE  L!IInv' /\ Files'
<1>. SystemTypes
  BY DEF Files
<1>1. UNCHANGED driver /\ worker[t] \in {"recv", "lock", "flag", "return", "close"}
  BY DEF WorkerAlone, CloseClient, Srv!Receive, Srv!LockLog, Srv!SetComplete,
         Srv!ThreadReturn, Srv!CloseClient, Srv!At
<1>2. t \notin opened
  <2>1. CASE WorkerAlone(t)
    <3>1. worker[t] \in {"recv", "lock", "flag", "return"}
      BY <2>1 DEF WorkerAlone, Srv!Receive, Srv!LockLog, Srv!SetComplete,
                  Srv!ThreadReturn, Srv!At
    <3>. QED
      BY <3>1 DEF Files, OpenAtWork
  <2>. QED
    BY <2>1 DEF CloseClient
<1>3. ASSUME NEW label \in {"recv", "ioctl", "lock", "read", "flag", "return", "done"},
             worker' = [worker EXCEPT ![t] = label],
             worker[t] \notin {"write", "fclose", "none"},
             thread_complete' \in [Structs -> BOOLEAN], log_mutex' = log_mutex, Srv!WorkerStep
      PROVE  L!IInv' /\ Files'
  <2>1. L!IInv'
    BY <1>3, ListWorkerElsewhere DEF Srv!WorkerLabels
  <2>2. Files'
    BY <1>1, <1>2, <1>3, WorkerGoes DEF Srv!WorkerLabels
  <2>. QED
    BY <2>1, <2>2
<1>4. CASE Srv!LockLog(t)
  <2>1. /\ worker[t] = "lock" /\ thread_complete' = thread_complete /\ Srv!WorkerStep
        /\ \/ log_mutex = NoThread /\ log_mutex' = t /\ worker' = [worker EXCEPT ![t] = "write"]
           \/ log_mutex' = log_mutex /\ worker' = [worker EXCEPT ![t] = "read"]
    BY <1>4 DEF Srv!LockLog, Srv!At, Srv!Goto
  <2>2. CASE log_mutex' = log_mutex /\ worker' = [worker EXCEPT ![t] = "read"]
    BY <1>3, <2>1, <2>2, WorkerFacts
  <2>3. CASE log_mutex = NoThread /\ log_mutex' = t /\ worker' = [worker EXCEPT ![t] = "write"]
    <3>1. \A u \in Structs \ {t} : log_mutex' = u <=> log_mutex = u
      BY <2>3, ServerAssumption
    <3>2. L!IInv'
      BY <2>1, <2>3, <3>1, WorkerFacts, ListWorkerMoves DEF Srv!WorkerLabels
    <3>3. Files'
      BY <1>1, <1>2, <2>1, <2>3, WorkerGoes DEF Srv!WorkerLabels
    <3>. QED
      BY <3>2, <3>3
  <2>. QED
    BY <2>1, <2>2, <2>3
<1>5. CASE Srv!Receive(t)
  <2>1. worker[t] = "recv" /\ log_mutex' = log_mutex /\ Srv!WorkerStep
    BY <1>5 DEF Srv!Receive, Srv!At
  <2>2. \E label \in {"recv", "ioctl", "lock"} : \E frame : Srv!Goto(t, label, frame)
    <3>1. \A frame : Srv!AfterLoop(frame) \in {"ioctl", "lock"}
      BY DEF Srv!AfterLoop
    <3>2. CASE Srv!RecvStops(t)
      BY <3>1, <3>2 DEF Srv!RecvStops
    <3>3. ASSUME NEW k, Srv!Recv(t, k)
          PROVE  \E label \in {"recv", "ioctl", "lock"} : \E frame : Srv!Goto(t, label, frame)
      <4>1. \E frame, ends : \/ Srv!Goto(t, IF ends THEN Srv!AfterLoop(frame) ELSE "recv", frame)
                             \/ Srv!Goto(t, Srv!AfterLoop(frame), frame)
        BY <3>3, Zenon DEF Srv!Recv
      <4>. QED
        BY <3>1, <4>1
    <3>. QED
      BY <1>5, <3>2, <3>3 DEF Srv!Receive
  <2>3. PICK label \in {"recv", "ioctl", "lock"} :
          worker' = [worker EXCEPT ![t] = label] /\ thread_complete' = thread_complete
    BY <2>2 DEF Srv!Goto
  <2>. QED
    BY <1>3, <2>1, <2>3, WorkerFacts
<1>6. CASE Srv!SetComplete(t)
  <2>1. /\ worker[t] = "flag" /\ log_mutex' = log_mutex /\ Srv!WorkerStep
        /\ worker' = [worker EXCEPT ![t] = "return"]
        /\ thread_complete' = [thread_complete EXCEPT ![t] = TRUE]
    BY <1>6 DEF Srv!SetComplete, Srv!At
  <2>2. thread_complete' \in [Structs -> BOOLEAN]
    BY <2>1, WorkerFacts
  <2>. QED
    BY <1>3, <2>1, <2>2
<1>7. CASE Srv!ThreadReturn(t)
  <2>1. /\ worker[t] = "return" /\ log_mutex' = log_mutex /\ Srv!WorkerStep
        /\ worker' = [worker EXCEPT ![t] = "done"] /\ thread_complete' = thread_complete
    BY <1>7 DEF Srv!ThreadReturn, Srv!At, Srv!Goto
  <2>. QED
    BY <1>3, <2>1, WorkerFacts
<1>8. CASE CloseClient(t)
  <2>1. /\ worker[t] = "close" /\ log_mutex' = log_mutex /\ Srv!WorkerStep
        /\ worker' = [worker EXCEPT ![t] = "flag"] /\ thread_complete' = thread_complete
    BY <1>8 DEF CloseClient, Srv!CloseClient, Srv!At, Srv!Goto
  <2>. QED
    BY <1>3, <2>1, WorkerFacts
<1>. QED
  BY <1>4, <1>5, <1>6, <1>7, <1>8 DEF WorkerAlone

(* The calls a worker makes.                                               *)
LEMMA StartStep ==
  ASSUME L!IInv, Files, NEW t \in Structs, Idle(t, worker[t]), UNCHANGED server,
         opened' = opened, mutex' = mutex, worker[t] \in {"write", "ioctl", "read"},
         NEW c, c.op = worker[t], c.file = t,
         NEW label \in Drv!Labels \ ({"idle"} \union Drv!Critical),
         label \in Reading => worker[t] = "read",
         \E new : Drv!Goto(t, label, new) /\ SameCall(c, new)
  PROVE  L!IInv' /\ Files'
<1>1. pc[t] = "idle" /\ t \in opened /\ worker' = worker
  BY DEF Idle, server
<1>2. MutexMoves(t, pc[t], label)
  BY <1>1 DEF MutexMoves, Drv!Critical
<1>3. CallStep(t, c)
  BY <1>2, CallStepIntro
<1>. QED
  BY <1>1, <1>3, CallStepFiles, ServerRests

(* A call fails at once: it returns as a call that was begun.              *)
LEMMA FailedStart ==
  ASSUME L!IInv, Files, NEW t \in Structs, Idle(t, worker[t]), UNCHANGED server,
         opened' = opened, mutex' = mutex, worker[t] \in {"write", "ioctl", "read"},
         NEW c, c.op = worker[t], c.file = t, NEW r, Drv!Return(t, c, r)
  PROVE  L!IInv' /\ Files'
<1>1. \E new : Drv!Goto(t, "ret", new) /\ SameCall(c, new)
  BY ReturnedCall
<1>. QED
  BY <1>1, StartStep DEF Drv!Labels, Drv!Critical, Reading

LEMMA FopenStep ==
  ASSUME L!IInv, Files, NEW t \in Structs, Fopen(t)
  PROVE  L!IInv' /\ Files'
<1>1. /\ worker[t] \in {"write", "ioctl", "read"} /\ UNCHANGED server
      /\ opened' = opened \union {t} /\ UNCHANGED <<mutex, pc, call>>
  BY DEF Fopen, Srv!At, Drv!Open
<1>2. worker' = worker
  BY <1>1 DEF server
<1>3. SystemTypes'
  BY <1>1, <1>2 DEF Files, SystemTypes
<1>4. FilesOf(t)'
  BY <1>1, <1>2, FilesParts DEF FilesOf
<1>. QED
  BY <1>1, <1>2, <1>3, <1>4, OthersFiles, ServerRests

LEMMA FwriteStep ==
  ASSUME L!IInv, Files, NEW t \in Structs, Fwrite(t)
  PROVE  L!IInv' /\ Files'
<1>. DEFINE bytes == Srv!Written(local[t])
            frame == [Drv!Frame("write", t) EXCEPT !.data = bytes, !.pos = fpos[t]]
<1>1. /\ Idle(t, "write") /\ worker[t] = "write" /\ pc[t] = "idle" /\ t \in opened
      /\ log_mutex' = log_mutex /\ OnlyWorker
  BY DEF Fwrite, Idle, Srv!At
<1>2. CASE bytes = <<>>
  <2>1. UNCHANGED driver /\ worker' = [worker EXCEPT ![t] = "fclose"]
        /\ thread_complete' = thread_complete
    BY <1>2 DEF Fwrite, Srv!Goto
  <2>2. Srv!WorkerStep
    BY <1>1 DEF OnlyWorker, Srv!WorkerStep, Srv!control, Srv!signals, Srv!list
  <2>. SystemTypes
    BY DEF Files
  <2>3. L!IInv'
    BY <1>1, <2>1, <2>2, WorkerFacts, ListWorkerElsewhere
  <2>4. Files'
    BY <1>1, <2>1, WorkerGoes
  <2>. QED
    BY <2>3, <2>4
<1>3. CASE bytes # <<>>
  <2>1. Drv!WriteCall(t, t, bytes) /\ UNCHANGED server
    BY <1>1, <1>3 DEF Fwrite, OnlyWorker, server
  <2>2. opened' = opened /\ mutex' = mutex
    BY <2>1 DEF Drv!WriteCall, Drv!vfs
  <2>3. /\ frame.op = "write" /\ frame.file = t
        /\ \A b : SameCall(frame, [frame EXCEPT !.wbuf = b])
    BY DEF Drv!Frame, Drv!NoCall, SameCall
  <2>. HIDE DEF frame
  <2>4. \/ \E b : Drv!Goto(t, "write_lock", [frame EXCEPT !.wbuf = b])
        \/ \E r : Drv!Return(t, frame, r)
    BY <2>1 DEF Drv!WriteCall, frame
  <2>5. CASE \E b : Drv!Goto(t, "write_lock", [frame EXCEPT !.wbuf = b])
    <3>1. \E new : Drv!Goto(t, "write_lock", new) /\ SameCall(frame, new)
      BY <2>3, <2>5
    <3>. QED
      BY <1>1, <2>1, <2>2, <2>3, <3>1, StartStep DEF Drv!Labels, Drv!Critical, Reading
  <2>6. CASE \E r : Drv!Return(t, frame, r)
    BY <1>1, <2>1, <2>2, <2>3, <2>6, FailedStart
  <2>. QED
    BY <2>4, <2>5, <2>6
<1>. QED
  BY <1>2, <1>3

LEMMA IoctlStep ==
  ASSUME L!IInv, Files, NEW t \in Structs, Ioctl(t)
  PROVE  L!IInv' /\ Files'
<1>1. PICK a \in SeekArgs : Drv!IoctlCall(t, t, a[1], a[2])
  BY DEF Ioctl
<1>. DEFINE frame == [Drv!Frame("ioctl", t) EXCEPT !.count = a[1], !.arg = a[2]]
<1>2. /\ Idle(t, worker[t]) /\ worker[t] = "ioctl" /\ UNCHANGED server
      /\ opened' = opened /\ mutex' = mutex
  BY <1>1 DEF Ioctl, Idle, Srv!At, Drv!IoctlCall, Drv!vfs
<1>3. /\ frame.op = "ioctl" /\ frame.file = t /\ SameCall(frame, frame)
  BY DEF Drv!Frame, Drv!NoCall, SameCall
<1>. HIDE DEF frame
<1>4. Drv!Goto(t, "ioctl_lock", frame) \/ \E r : Drv!Return(t, frame, r)
  BY <1>1 DEF Drv!IoctlCall, frame
<1>5. CASE Drv!Goto(t, "ioctl_lock", frame)
  BY <1>2, <1>3, <1>5, StartStep DEF Drv!Labels, Drv!Critical, Reading
<1>6. CASE \E r : Drv!Return(t, frame, r)
  BY <1>2, <1>3, <1>6, FailedStart
<1>. QED
  BY <1>4, <1>5, <1>6

LEMMA FreadStep ==
  ASSUME L!IInv, Files, NEW t \in Structs, Fread(t)
  PROVE  L!IInv' /\ Files'
<1>. DEFINE frame == [Drv!Frame("read", t) EXCEPT !.count = ReadCount, !.pos = fpos[t]]
<1>1. /\ Idle(t, worker[t]) /\ worker[t] = "read" /\ UNCHANGED server
      /\ opened' = opened /\ mutex' = mutex
  BY DEF Fread, Idle, Srv!At, Drv!ReadCall, Drv!vfs
<1>2. /\ frame.op = "read" /\ frame.file = t /\ SameCall(frame, frame)
  BY DEF Drv!Frame, Drv!NoCall, SameCall
<1>. HIDE DEF frame
<1>3. Drv!Goto(t, "read_lock", frame) \/ \E r : Drv!Return(t, frame, r)
  BY DEF Fread, Drv!ReadCall, frame
<1>4. CASE Drv!Goto(t, "read_lock", frame)
  BY <1>1, <1>2, <1>4, StartStep DEF Drv!Labels, Drv!Critical, Reading
<1>5. CASE \E r : Drv!Return(t, frame, r)
  BY <1>1, <1>2, <1>5, FailedStart
<1>. QED
  BY <1>3, <1>4, <1>5

LEMMA InDriverStep ==
  ASSUME L!IInv, Files, NEW t \in Structs, InDriver(t)
  PROVE  L!IInv' /\ Files'
<1>1. UNCHANGED server /\ worker' = worker /\ SystemTypes /\ CallsOfWorker
  BY DEF InDriver, server, Files
<1>2. CallStep(t, call[t]) /\ opened' = opened /\ pc[t] # "idle"
  BY <1>1, DriverLocks, DriverRuns DEF InDriver
<1>3. /\ call[t].op = worker[t] /\ call[t].file = t /\ t \in opened
      /\ worker[t] \in {"write", "ioctl", "read"}
  BY <1>1, <1>2 DEF CallsOfWorker
<1>. QED
  BY <1>1, <1>2, <1>3, CallStepFiles, ServerRests

(* The result of a call takes the worker on; its file stays open.          *)
LEMMA CallReturnsStep ==
  ASSUME L!IInv, Files, NEW t \in Structs, CallReturns(t)
  PROVE  L!IInv' /\ Files'
<1>. DEFINE label == ResultLabel(t)
<1>. SystemTypes
  BY DEF Files
<1>1. /\ pc[t] = "ret" /\ Drv!Goto(t, "idle", Drv!NoCall) /\ opened' = opened /\ mutex' = mutex
      /\ worker' = [worker EXCEPT ![t] = label] /\ thread_complete' = thread_complete
      /\ log_mutex' = log_mutex /\ OnlyWorker
  BY DEF CallReturns, Drv!VfsReturn, Srv!Goto
<1>2. /\ t \in opened /\ worker[t] \in {"write", "ioctl", "read"} /\ call[t].op = worker[t]
  BY <1>1 DEF Files, CallsOfWorker
<1>3. /\ worker[t] = "write" => label = "fclose"
      /\ worker[t] \in {"ioctl", "read"} => label \in {"read", "close"}
  BY <1>2 DEF ResultLabel
<1>. HIDE DEF label
<1>4. Srv!WorkerStep
  BY <1>1 DEF OnlyWorker, Srv!WorkerStep, Srv!control, Srv!signals, Srv!list
<1>5. L!IInv'
  BY <1>1, <1>2, <1>3, <1>4, WorkerFacts, ListWorkerElsewhere DEF Srv!WorkerLabels
<1>6. /\ pc'[t] = "idle" /\ call'[t] = Drv!NoCall
      /\ \A u \in Structs \ {t} : pc'[u] = pc[u] /\ call'[u] = call[u]
      /\ pc' \in [Structs -> Drv!Labels] /\ DOMAIN call' = Structs
  BY <1>1 DEF Drv!Goto, SystemTypes, Drv!Labels
<1>7. /\ worker'[t] = label /\ \A u \in Structs \ {t} : worker'[u] = worker[u]
      /\ worker' \in [Structs -> Srv!WorkerLabels \union {"fclose"}]
  BY <1>1, <1>2, <1>3 DEF SystemTypes, Srv!WorkerLabels
<1>8. SystemTypes'
  BY <1>1, <1>6, <1>7 DEF SystemTypes
<1>9. FilesOf(t)'
  <2>1. FilesOf(t)
    BY FilesParts
  <2>. QED
    BY <1>1, <1>2, <1>3, <1>6, <1>7, <2>1 DEF FilesOf, Drv!Critical
<1>. QED
  BY <1>1, <1>5, <1>6, <1>7, <1>8, <1>9, OthersFiles

LEMMA FcloseStep ==
  ASSUME L!IInv, Files, NEW t \in Structs, Fclose(t)
  PROVE  L!IInv' /\ Files'
<1>1. /\ pc[t] = "idle" /\ opened' = opened \ {t} /\ UNCHANGED <<mutex, pc, call>>
      /\ UNCHANGED server
  BY DEF Fclose, Idle, Drv!Release
<1>2. worker' = worker
  BY <1>1 DEF server
<1>3. SystemTypes'
  BY <1>1, <1>2 DEF Files, SystemTypes
<1>4. FilesOf(t)'
  BY <1>1, <1>2, FilesParts DEF FilesOf
<1>. QED
  BY <1>1, <1>2, <1>3, <1>4, OthersFiles, ServerRests

LEMMA FcloseUnlockStep ==
  ASSUME L!IInv, Files, NEW t \in Structs, FcloseUnlock(t)
  PROVE  L!IInv' /\ Files'
<1>. SystemTypes
  BY DEF Files
<1>1. /\ worker[t] = "fclose" /\ pc[t] = "idle" /\ opened' = opened \ {t}
      /\ UNCHANGED <<mutex, pc, call>> /\ log_mutex' = NoThread /\ OnlyWorker
      /\ worker' = [worker EXCEPT ![t] = "read"] /\ thread_complete' = thread_complete
  BY DEF FcloseUnlock, Idle, Srv!At, Srv!Goto, Drv!Release
<1>2. Srv!WorkerStep
  BY <1>1 DEF OnlyWorker, Srv!WorkerStep, Srv!control, Srv!signals, Srv!list
<1>3. log_mutex = t /\ NoThread \notin Structs
  BY <1>1, WorkerFacts
<1>4. L!IInv'
  BY <1>1, <1>2, <1>3, WorkerFacts, ListWorkerMoves DEF Srv!WorkerLabels
<1>5. /\ worker'[t] = "read" /\ \A u \in Structs \ {t} : worker'[u] = worker[u]
      /\ worker' \in [Structs -> Srv!WorkerLabels \union {"fclose"}]
  BY <1>1 DEF SystemTypes, Srv!WorkerLabels
<1>6. SystemTypes'
  BY <1>1, <1>5 DEF SystemTypes
<1>7. FilesOf(t)'
  BY <1>1, <1>5, FilesParts DEF FilesOf
<1>. QED
  BY <1>1, <1>4, <1>5, <1>6, <1>7, OthersFiles

-------------------------------------------------------------------------------
(***************************************************************************)
(* The theorems.                                                           *)
(***************************************************************************)

LEMMA InitInv == Init => IInv
<1>. SUFFICES ASSUME Init PROVE IInv
  OBVIOUS
<1>1. Srv!Init /\ Drv!Init
  BY DEF Init
<1>2. \A t \in Structs : worker[t] = "none"
  BY <1>1 DEF Srv!Init
<1>3. L!IInv
  <2>1. ListWorker = [t \in Structs |-> "none"]
    BY <1>2 DEF ListWorker
  <2>2. L!Init
    BY <1>1, <2>1 DEF Srv!Init, L!Init, Srv!Fresh, L!Fresh, ListWorker
  <2>. QED
    BY <2>2, ListAssumptions, L!InitInv
<1>4. SystemTypes
  BY <1>1 DEF SystemTypes, Srv!Init, Drv!Init, Srv!WorkerLabels, Drv!Labels
<1>5. ASSUME NEW t \in Structs
      PROVE  FilesOf(t)
  <2>1. pc[t] = "idle" /\ mutex = NoThread /\ opened = {}
    BY <1>1 DEF Drv!Init
  <2>. QED
    BY <2>1, ServerAssumption DEF FilesOf, Drv!Critical
<1>6. Files
  BY <1>4, <1>5, FilesParts
<1>. QED
  BY <1>3, <1>6, SameLists DEF IInv, Files

LEMMA NextStep == IInv /\ [Next]_vars => IInv'
<1>. SUFFICES ASSUME IInv, [Next]_vars PROVE IInv'
  OBVIOUS
<1>1. L!IInv /\ Files
  BY SameLists DEF IInv, Files
<1>2. ASSUME NEW t \in Structs, Worker(t)
      PROVE  L!IInv' /\ Files'
  BY <1>1, <1>2, AloneStep, FopenStep, FwriteStep, IoctlStep, FreadStep, InDriverStep,
     CallReturnsStep, FcloseUnlockStep, FcloseStep DEF Worker
<1>3. CASE UNCHANGED vars \/ (UNCHANGED driver /\ Srv!Ended)
  <2>1. UNCHANGED driver /\ UNCHANGED server
    BY <1>3 DEF vars, server, Srv!Ended, Srv!vars, Srv!control, Srv!signals, Srv!list,
                Srv!threads, Srv!network
  <2>. QED
    BY <1>1, <2>1, RestStep, SameListsNext DEF IInv, Files
<1>4. L!IInv' /\ Files'
  BY <1>1, <1>2, <1>3, LoadStep, MainStep, SignalAndClientStep, RestStep, SameListsNext
     DEF Next, IInv, Files
<1>. QED
  BY <1>4, SameListsNext DEF IInv, Files

(***************************************************************************)
(* The invariant of server and driver together.                            *)
(***************************************************************************)
THEOREM Invariance == Spec => []IInv
BY InitInv, NextStep, PTL DEF Spec

(***************************************************************************)
(* A worker has its FILE open, and is in a system call on it, only between *)
(* the fopen and the fclose of what it does on the device; when main has   *)
(* returned, no file is open and nobody holds buf_mutex, so that the       *)
(* module can be unloaded.                                                 *)
(***************************************************************************)
THEOREM FilesAreClosed == Spec => []FilesClosed
<1>1. IInv => FilesClosed
  <2>. SUFFICES ASSUME IInv PROVE FilesClosed
    OBVIOUS
  <2>1. /\ \A t \in Structs : t \in opened => worker[t] \in {"write", "fclose", "ioctl", "read", "close"}
        /\ \A t \in Structs : pc[t] # "idle" => t \in opened /\ worker[t] \in {"write", "ioctl", "read"}
    BY DEF IInv, OpenAtWork, CallsOfWorker
  <2>2. ASSUME main = "exited"
        PROVE  opened = {} /\ mutex = NoThread
    <3>1. L!IInv
      BY SameLists DEF IInv
    <3>2. \A t \in Structs : ListWorker[t] = "none"
      BY <2>2, <3>1 DEF L!IInv, L!Pointers, L!ListSound
    <3>3. \A t \in Structs : worker[t] = "none"
      BY <3>2 DEF ListWorker
    <3>4. \A t \in Structs : t \notin opened /\ pc[t] = "idle"
      BY <2>1, <3>3
    <3>5. \A t \in Structs : mutex # t
      BY <3>4 DEF IInv, DriverMutex, Drv!Critical
    <3>. QED
      BY <3>4, <3>5 DEF IInv, SystemTypes
  <2>. QED
    BY <2>1, <2>2 DEF FilesClosed
<1>. QED
  BY <1>1, Invariance, PTL

===============================================================================
