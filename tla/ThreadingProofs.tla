--------------------------- MODULE ThreadingProofs ---------------------------
(***************************************************************************)
(* What Threading promises, for any number of threads, any waits, any      *)
(* length of a second and any set of failing calls.                        *)
(***************************************************************************)
EXTENDS Threading, TLAPS

(* sleep(ms / 1000) sleeps a natural number of ticks.                      *)
LEMMA SleepTimeType ==
  ASSUME NEW ms \in Waits \union {0}
  PROVE  SleepTime(ms) \in Nat
<1>1. ms \in Nat
  BY TimeAssumption
<1>2. ms \div Second \in Nat
  BY <1>1, TimeAssumption
<1>. QED
  BY <1>2, TimeAssumption DEF SleepTime

(* No thread has started: nobody holds the mutex or claims success.        *)
LEMMA InitInv == Init => IInv
<1>. SUFFICES ASSUME Init PROVE IInv
  OBVIOUS
<1>1. Unborn \in ThreadData /\ Covered(Unborn)
  BY DEF Unborn, ThreadData, Covered
<1>2. TypeOK
  BY <1>1 DEF Init, TypeOK
<1>3. MutexHeld
  BY HolderAssumption DEF Init, MutexHeld, Unborn
<1>4. WaitCovered
  BY <1>1 DEF Init, WaitCovered
<1>. QED
  BY <1>2, <1>3, <1>4 DEF IInv

(***************************************************************************)
(* A step of one thread keeps the invariant if it leaves that thread with  *)
(* the mutex exactly when it is at its unlock, takes the mutex from nobody *)
(* else, and keeps its own account of the time.                            *)
(***************************************************************************)
LEMMA ThreadStep ==
  ASSUME IInv, NEW t \in Threads, NEW h \in ThreadData,
         thread' = [thread EXCEPT ![t] = h],
         Covered(h),
         mutex' \in Threads \union {NoOne, Caller, Dead},
         mutex' = t <=> h.pc = "unlock",
         mutex' = mutex \/ {mutex, mutex'} \intersect (Threads \ {t}) = {},
         crashed' \in BOOLEAN
  PROVE  IInv'
<1>1. TypeOK'
  BY DEF IInv, TypeOK
<1>2. ASSUME NEW u \in Threads
      PROVE  thread'[u] = IF u = t THEN h ELSE thread[u]
  BY <1>2 DEF IInv, TypeOK
<1>3. MutexHeld'
  BY <1>2 DEF IInv, MutexHeld
<1>4. WaitCovered'
  <2>. SUFFICES ASSUME NEW u \in Threads PROVE Covered(thread'[u])
    BY DEF WaitCovered, Covered, SleepTime
  <2>. QED
    BY <1>2 DEF IInv, WaitCovered
<1>. QED
  BY <1>1, <1>3, <1>4 DEF IInv

(* What the invariant says of one thread.                                  *)
LEMMA OneThread ==
  ASSUME IInv, NEW t \in Threads
  PROVE  /\ thread[t] \in ThreadData
         /\ Covered(thread[t])
         /\ SleepTime(thread[t].release) \in Nat
         /\ SleepTime(thread[t].obtain) \in Nat
         /\ mutex = t <=> thread[t].pc = "unlock"
<1>1. thread[t] \in ThreadData
  BY DEF IInv, TypeOK
<1>. QED
  BY <1>1, SleepTimeType DEF IInv, MutexHeld, WaitCovered, ThreadData

(* A thread starts with its flag clear, or none does.                      *)
LEMMA StartStep ==
  ASSUME IInv, NEW t \in Threads, NEW obtain \in Waits, NEW release \in Waits,
         Start(t, obtain, release)
  PROVE  IInv'
<1>. DEFINE h == [Unborn EXCEPT !.pc = "lock", !.obtain = obtain, !.release = release,
                                !.asleep = SleepTime(obtain)]
            l == [thread[t] EXCEPT !.pc = "leaked"]
<1>1. /\ h \in ThreadData /\ Covered(h) /\ h.pc = "lock"
  BY SleepTimeType DEF ThreadData, Unborn, Covered
<1>2. /\ l \in ThreadData /\ Covered(l) /\ l.pc = "leaked" /\ mutex # t
  BY OneThread DEF Start, At, ThreadData, Covered
<1>3. mutex' = mutex /\ mutex \in Threads \union {NoOne, Caller, Dead}
      /\ crashed' \in BOOLEAN
  BY DEF IInv, TypeOK, Start
<1>. HIDE DEF h, l
<1>4. CASE thread' = [thread EXCEPT ![t] = h]
  BY <1>1, <1>2, <1>3, <1>4, ThreadStep
<1>5. CASE thread' = [thread EXCEPT ![t] = l]
  BY <1>2, <1>3, <1>5, ThreadStep
<1>6. CASE UNCHANGED thread
  BY <1>3, <1>6 DEF IInv, TypeOK, MutexHeld, WaitCovered
<1>. QED
  BY <1>4, <1>5, <1>6 DEF Start, Goto, h, l

(* The mutex is taken and the second sleep covers the wait.                *)
LEMMA LockStep ==
  ASSUME IInv, NEW t \in Threads, Lock(t)
  PROVE  IInv'
<1>. DEFINE h == [thread[t] EXCEPT !.pc = "unlock",
                                   !.asleep = SleepTime(thread[t].release)]
<1>1. h \in ThreadData /\ Covered(h) /\ h.pc = "unlock"
  <2>1. /\ thread[t] \in ThreadData /\ SleepTime(thread[t].release) \in Nat
        /\ ~thread[t].thread_complete_success
    BY OneThread DEF Lock, At, Covered
  <2>2. /\ h \in ThreadData /\ h.pc = "unlock" /\ h.release = thread[t].release
        /\ h.asleep = SleepTime(thread[t].release) /\ h.held = thread[t].held
        /\ h.thread_complete_success = thread[t].thread_complete_success
    BY <2>1 DEF ThreadData
  <2>3. thread[t].held \in Nat
    BY <2>1 DEF ThreadData
  <2>. HIDE DEF h
  <2>. QED
    BY <2>1, <2>2, <2>3 DEF Covered
<1>2. thread' = [thread EXCEPT ![t] = h] /\ mutex = NoOne /\ mutex' = t
      /\ crashed' \in BOOLEAN
  BY DEF Lock, IInv, TypeOK
<1>. HIDE DEF h
<1>. QED
  BY <1>1, <1>2, HolderAssumption, ThreadStep

LEMMA LockFailsStep ==
  ASSUME IInv, NEW t \in Threads, LockFails(t)
  PROVE  IInv'
<1>. DEFINE h == [thread[t] EXCEPT !.pc = "return"]
<1>1. h \in ThreadData /\ Covered(h) /\ h.pc = "return" /\ mutex # t
  BY OneThread DEF LockFails, At, ThreadData, Covered
<1>2. thread' = [thread EXCEPT ![t] = h] /\ mutex' = mutex
      /\ mutex \in Threads \union {NoOne, Caller, Dead} /\ crashed' \in BOOLEAN
  BY DEF LockFails, Goto, IInv, TypeOK
<1>. HIDE DEF h
<1>. QED
  BY <1>1, <1>2, ThreadStep

(* Only the holder unlocks; by then it has no time left to sleep.          *)
LEMMA UnlockStep ==
  ASSUME IInv, NEW t \in Threads, Unlock(t)
  PROVE  IInv'
<1>. DEFINE h(label) == [thread[t] EXCEPT !.pc = label]
<1>1. ASSUME NEW label \in {"success", "return"}
      PROVE  h(label) \in ThreadData /\ Covered(h(label)) /\ h(label).pc = label
  BY OneThread DEF Unlock, At, ThreadData, Covered
<1>2. mutex = t
  BY OneThread DEF Unlock, At
<1>3. crashed' \in BOOLEAN
  BY DEF Unlock, IInv, TypeOK
<1>4. CASE mutex' = NoOne /\ thread' = [thread EXCEPT ![t] = h("success")]
  <2>. HIDE DEF h
  <2>. QED
    BY <1>1, <1>2, <1>3, <1>4, HolderAssumption, ThreadStep
<1>5. CASE mutex' = Dead /\ thread' = [thread EXCEPT ![t] = h("return")]
  <2>. HIDE DEF h
  <2>. QED
    BY <1>1, <1>2, <1>3, <1>5, HolderAssumption, ThreadStep
<1>. QED
  BY <1>4, <1>5 DEF Unlock, Goto

(* The flag is set by a thread that has earned it.                         *)
LEMMA SuccessStep ==
  ASSUME IInv, NEW t \in Threads, Success(t)
  PROVE  IInv'
<1>. DEFINE h == [thread[t] EXCEPT !.thread_complete_success = TRUE, !.pc = "return"]
<1>1. h \in ThreadData /\ Covered(h) /\ h.pc = "return" /\ mutex # t
  BY OneThread DEF Success, At, ThreadData, Covered
<1>2. thread' = [thread EXCEPT ![t] = h] /\ mutex' = mutex
      /\ mutex \in Threads \union {NoOne, Caller, Dead} /\ crashed' \in BOOLEAN
  BY DEF Success, IInv, TypeOK
<1>. HIDE DEF h
<1>. QED
  BY <1>1, <1>2, ThreadStep

LEMMA JoinStep ==
  ASSUME IInv, NEW t \in Threads, Join(t)
  PROVE  IInv'
<1>. DEFINE h == [thread[t] EXCEPT !.pc = "joined"]
<1>1. h \in ThreadData /\ Covered(h) /\ h.pc = "joined" /\ mutex # t
  BY OneThread DEF Join, At, ThreadData, Covered
<1>2. thread' = [thread EXCEPT ![t] = h] /\ mutex' = mutex
      /\ mutex \in Threads \union {NoOne, Caller, Dead} /\ crashed' \in BOOLEAN
  BY DEF Join, Goto, IInv, TypeOK
<1>. HIDE DEF h
<1>. QED
  BY <1>1, <1>2, ThreadStep

LEMMA CallerUnlocksStep ==
  ASSUME IInv, CallerUnlocks
  PROVE  IInv'
BY HolderAssumption DEF IInv, TypeOK, MutexHeld, WaitCovered, CallerUnlocks

(***************************************************************************)
(* Time passes: for the holder of the mutex a tick that it sleeps is a     *)
(* tick that it holds the mutex.                                           *)
(***************************************************************************)
LEMMA TickStep ==
  ASSUME IInv, Tick
  PROVE  IInv'
<1>. DEFINE asleep(t) == IF thread[t].asleep > 0 THEN thread[t].asleep - 1 ELSE 0
            held(t)   == IF mutex = t THEN thread[t].held + 1 ELSE thread[t].held
            h(t)      == [thread[t] EXCEPT !.asleep = asleep(t), !.held = held(t)]
<1>1. thread' = [t \in Threads |-> h(t)] /\ UNCHANGED <<mutex, crashed>>
  BY DEF Tick
<1>2. ASSUME NEW t \in Threads
      PROVE  h(t) \in ThreadData /\ Covered(h(t)) /\ h(t).pc = thread[t].pc
  <2>1. /\ thread[t] \in ThreadData /\ Covered(thread[t])
        /\ SleepTime(thread[t].release) \in Nat
        /\ mutex = t <=> thread[t].pc = "unlock"
    BY OneThread
  <2>2. /\ thread[t].asleep \in Nat /\ thread[t].held \in Nat
        /\ asleep(t) \in Nat /\ held(t) \in Nat
    <3>1. thread[t].asleep \in Nat /\ thread[t].held \in Nat
      BY <2>1 DEF ThreadData
    <3>. QED
      BY <3>1
  <2>3. /\ h(t) \in ThreadData
        /\ h(t).asleep = asleep(t) /\ h(t).held = held(t)
        /\ h(t).pc = thread[t].pc /\ h(t).release = thread[t].release
        /\ h(t).thread_complete_success = thread[t].thread_complete_success
    <3>. HIDE DEF asleep, held
    <3>. QED
      BY <2>1, <2>2 DEF ThreadData
  <2>4. /\ held(t) >= thread[t].held
        /\ mutex = t => held(t) + asleep(t) >= thread[t].held + thread[t].asleep
    BY <2>2
  <2>5. Covered(h(t))
    <3>. HIDE DEF asleep, held, h
    <3>. QED
      BY <2>1, <2>2, <2>3, <2>4 DEF Covered
  <2>. QED
    BY <2>3, <2>5
<1>. HIDE DEF h
<1>3. TypeOK'
  BY <1>1, <1>2 DEF IInv, TypeOK
<1>4. MutexHeld'
  BY <1>1, <1>2 DEF IInv, MutexHeld
<1>5. WaitCovered'
  <2>. SUFFICES ASSUME NEW t \in Threads PROVE Covered(thread'[t])
    BY DEF WaitCovered, Covered, SleepTime
  <2>. QED
    BY <1>1, <1>2
<1>. QED
  BY <1>3, <1>4, <1>5 DEF IInv

(* Every step keeps the invariant.                                         *)
LEMMA NextStep == IInv /\ [Next]_vars => IInv'
<1>. SUFFICES ASSUME IInv, [Next]_vars PROVE IInv'
  OBVIOUS
<1>1. CASE Tick
  BY <1>1, TickStep
<1>2. CASE CallerUnlocks
  BY <1>2, CallerUnlocksStep
<1>3. ASSUME NEW t \in Threads, ThreadFunc(t) \/ LockFails(t) \/ Join(t)
      PROVE  IInv'
  BY <1>3, LockStep, UnlockStep, SuccessStep, LockFailsStep, JoinStep DEF ThreadFunc
<1>4. ASSUME NEW t \in Threads, NEW obtain \in Waits, NEW release \in Waits,
             Start(t, obtain, release)
      PROVE  IInv'
  BY <1>4, StartStep
<1>5. CASE UNCHANGED vars
  BY <1>5 DEF vars, IInv, TypeOK, MutexHeld, WaitCovered
<1>. QED
  BY <1>1, <1>2, <1>3, <1>4, <1>5 DEF Next

(* IInv holds in every state of the program, whichever calls fail.         *)
THEOREM Invariance == Spec => []IInv
<1>. QED
  BY InitInv, NextStep, PTL DEF Spec

(***************************************************************************)
(* threadfunc holds the mutex exactly from its lock to its unlock, on      *)
(* every path, for any number of threads.                                  *)
(***************************************************************************)
THEOREM MutexIsHeld == Spec => []MutexHeld
<1>1. IInv => MutexHeld
  BY DEF IInv
<1>. QED
  BY <1>1, Invariance, PTL

(* Whole seconds are slept in full, and less than a second of any wait is  *)
(* cut off.                                                                *)
LEMMA SleepTimeShort ==
  ASSUME NEW ms \in Waits \union {0}
  PROVE  /\ ms - SleepTime(ms) < Second
         /\ ms % Second = 0 => SleepTime(ms) = ms
<1>1. ms \in Nat /\ Second \in Nat \ {0}
  BY TimeAssumption
<1>. DEFINE q == ms \div Second
            r == ms % Second
<1>2. ms = Second * q + r /\ r \in 0..(Second - 1) /\ q \in Nat
  BY <1>1
<1>. HIDE DEF q, r
<1>3. SleepTime(ms) = Second * q
  BY DEF SleepTime, q
<1>4. Second * q \in Nat
  BY <1>1, <1>2
<1>5. ms - SleepTime(ms) < Second
  BY <1>1, <1>2, <1>3, <1>4
<1>6. r = 0 => SleepTime(ms) = ms
  BY <1>1, <1>2, <1>3, <1>4
<1>. QED
  BY <1>5, <1>6 DEF r

(***************************************************************************)
(* A thread_data struct with thread_complete_success set belongs to a      *)
(* thread that held the mutex for wait_to_release_ms, but for what exceeds *)
(* whole seconds, and has released it.                                     *)
(***************************************************************************)
THEOREM SuccessIsDeserved == Spec => []SuccessIsEarned
<1>1. IInv => SuccessIsEarned
  <2>. SUFFICES ASSUME IInv, NEW t \in Threads, thread[t].thread_complete_success
                PROVE  /\ thread[t].release % Second = 0
                            => thread[t].held >= thread[t].release
                       /\ thread[t].release - thread[t].held < Second
                       /\ mutex # t
    BY DEF SuccessIsEarned
  <2>. DEFINE h == thread[t]
  <2>1. /\ h \in ThreadData /\ Covered(h) /\ SleepTime(h.release) \in Nat
        /\ mutex = t <=> h.pc = "unlock"
    BY OneThread
  <2>2. /\ h.release \in Waits \union {0} /\ h.release \in Nat /\ h.held \in Nat
        /\ Second \in Nat
    <3>1. h.release \in Waits \union {0} /\ h.held \in Nat
      BY <2>1 DEF ThreadData
    <3>2. ASSUME NEW ms \in Waits \union {0} PROVE ms \in Nat
      BY TimeAssumption
    <3>. HIDE DEF h
    <3>3. h.release \in Nat
      BY <3>1, <3>2
    <3>. QED
      BY <3>1, <3>3, TimeAssumption
  <2>3. /\ h.release - SleepTime(h.release) < Second
        /\ h.release % Second = 0 => SleepTime(h.release) = h.release
    BY <2>2, SleepTimeShort
  <2>4. h.held >= SleepTime(h.release) /\ h.pc # "unlock"
    BY <2>1 DEF Covered
  <2>. HIDE DEF h
  <2>5. h.release - h.held < Second
    BY <2>1, <2>2, <2>3, <2>4
  <2>6. h.release % Second = 0 => h.held >= h.release
    BY <2>3, <2>4
  <2>. QED
    BY <2>1, <2>4, <2>5, <2>6 DEF h
<1>. QED
  BY <1>1, Invariance, PTL

(* The state of the threads and of the mutex keeps its type.               *)
THEOREM TypeCorrect == Spec => []TypeOK
<1>1. IInv => TypeOK
  BY DEF IInv
<1>. QED
  BY <1>1, Invariance, PTL

==============================================================================
