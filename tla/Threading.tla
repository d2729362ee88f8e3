------------------------------ MODULE Threading ------------------------------
(***************************************************************************)
(* examples/threading/threading.c: threads that sleep, take a mutex, hold  *)
(* it and release it, and the caller that starts and joins them.  Time     *)
(* passes in Ticks; Second of them make the second that sleep(3) counts.   *)
(***************************************************************************)
EXTENDS Integers

CONSTANTS
  Threads,              \* threads, each started at most once
  Waits,                \* arguments wait_to_obtain_ms and wait_to_release_ms
  Second,               \* 1000
  NoOne, Caller, Dead,  \* holders of the mutex; Dead: a thread that has ended
  Faults                \* calls that may fail

ASSUME TimeAssumption == Second \in Nat \ {0} /\ Waits \subseteq Nat

ASSUME HolderAssumption == {NoOne, Caller, Dead} \intersect Threads = {}

VARIABLES
  thread,   \* the threads, with their thread_data structs
  mutex,    \* who holds the mutex
  crashed   \* the process has written through a null pointer

vars == <<thread, mutex, crashed>>

(* asleep is the time left to sleep, held the time since the lock.         *)
Unborn == [pc |-> "none", obtain |-> 0, release |-> 0, asleep |-> 0, held |-> 0,
           thread_complete_success |-> FALSE]

May(fault) == fault \in Faults

At(t, label) == ~crashed /\ thread[t].pc = label /\ thread[t].asleep = 0

Goto(t, label) == thread' = [thread EXCEPT ![t].pc = label]

(* Mutant: the seconds are counted from zero.                              *)
SleepTimeOneLess(ms) == Second * ((ms \div Second) - 1)

(* What sleep(ms / 1000) sleeps.                                           *)
SleepTime(ms) == Second * (ms \div Second)

(***************************************************************************)
(* start_thread_obtaining_mutex.  The result of malloc is not looked at,   *)
(* and the struct is leaked when no thread starts.                         *)
(***************************************************************************)
Start(t, obtain, release) ==
  /\ At(t, "none")
  /\ \/ /\ thread' = [thread EXCEPT ![t] =
             [Unborn EXCEPT !.pc = "lock", !.obtain = obtain, !.release = release,
                            !.asleep = SleepTime(obtain)]]
        /\ UNCHANGED crashed
     \/ May("create") /\ Goto(t, "leaked") /\ UNCHANGED crashed
     \/ May("malloc") /\ crashed' = TRUE /\ UNCHANGED thread
  /\ UNCHANGED mutex

(* Mutant: the mutex is not held for wait_to_release_ms.                   *)
LockWithoutSleep(t) ==
  /\ At(t, "lock") /\ mutex = NoOne
  /\ mutex' = t
  /\ Goto(t, "unlock")
  /\ UNCHANGED crashed

(* pthread_mutex_lock, after the first sleep; then the second sleep.       *)
Lock(t) ==
  /\ At(t, "lock") /\ mutex = NoOne
  /\ mutex' = t
  /\ thread' = [thread EXCEPT ![t].pc = "unlock",
                              ![t].asleep = SleepTime(thread[t].release)]
  /\ UNCHANGED crashed

(* Mutant: the thread goes on without the mutex.                           *)
LockUnchecked(t) ==
  /\ At(t, "lock") /\ May("lock")
  /\ Goto(t, "unlock")
  /\ UNCHANGED <<mutex, crashed>>

LockFails(t) ==
  /\ At(t, "lock") /\ May("lock")
  /\ Goto(t, "return")
  /\ UNCHANGED <<mutex, crashed>>

(* Mutant: the mutex is not released.                                      *)
UnlockForgotten(t) ==
  /\ At(t, "unlock")
  /\ Goto(t, "success")
  /\ UNCHANGED <<mutex, crashed>>

(* A mutex that cannot be released stays with a thread that ends.          *)
Unlock(t) ==
  /\ At(t, "unlock")
  /\ \/ mutex' = NoOne /\ Goto(t, "success")
     \/ May("unlock") /\ mutex' = Dead /\ Goto(t, "return")
  /\ UNCHANGED crashed

Success(t) ==
  /\ At(t, "success")
  /\ thread' = [thread EXCEPT ![t].thread_complete_success = TRUE, ![t].pc = "return"]
  /\ UNCHANGED <<mutex, crashed>>

(* The caller joins the thread, looks at its struct and frees it.          *)
Join(t) ==
  /\ At(t, "return")
  /\ Goto(t, "joined")
  /\ UNCHANGED <<mutex, crashed>>

(* The caller may hold the mutex while it starts threads.                  *)
CallerUnlocks ==
  /\ ~crashed
  /\ mutex = Caller
  /\ mutex' = NoOne
  /\ UNCHANGED <<thread, crashed>>

(* Time passes; bound: only while somebody sleeps.                         *)
Tick ==
  /\ ~crashed
  /\ \E t \in Threads : thread[t].asleep > 0
  /\ thread' = [t \in Threads |-> [thread[t] EXCEPT
       !.asleep = IF @ > 0 THEN @ - 1 ELSE 0, !.held = IF mutex = t THEN @ + 1 ELSE @]]
  /\ UNCHANGED <<mutex, crashed>>

Init ==
  /\ thread = [t \in Threads |-> Unborn]
  /\ mutex \in {NoOne, Caller}
  /\ crashed = FALSE

ThreadFunc(t) == Lock(t) \/ Unlock(t) \/ Success(t)

Next ==
  \/ Tick \/ CallerUnlocks
  \/ \E t \in Threads :
       \/ ThreadFunc(t) \/ LockFails(t) \/ Join(t)
       \/ \E obtain, release \in Waits : Start(t, obtain, release)

Spec == Init /\ [][Next]_vars

(***************************************************************************)
(* Time passes, threads run and the caller unlocks its mutex.  Each thread *)
(* locks once, so that weak fairness is enough for the mutex; no lock has  *)
(* to fail.                                                                *)
(***************************************************************************)
FairSpec ==
  /\ Spec
  /\ WF_vars(Tick) /\ WF_vars(CallerUnlocks)
  /\ \A t \in Threads : WF_vars(ThreadFunc(t))

------------------------------------------------------------------------------
ThreadData ==
  [pc : {"none", "leaked", "lock", "unlock", "success", "return", "joined"},
   obtain : Waits \union {0}, release : Waits \union {0},
   asleep : Nat, held : Nat, thread_complete_success : BOOLEAN]

(* Type invariant of the threads and the mutex.                            *)
TypeOK ==
  /\ thread \in [Threads -> ThreadData]
  /\ mutex \in Threads \union {NoOne, Caller, Dead}
  /\ crashed \in BOOLEAN

(***************************************************************************)
(* A thread holds the mutex exactly from its lock to its unlock: no path   *)
(* through threadfunc keeps it, and none goes on or releases without it.   *)
(***************************************************************************)
MutexHeld == \A t \in Threads : (mutex = t) <=> (thread[t].pc = "unlock")

(***************************************************************************)
(* A thread that reports success has released the mutex, after it has held *)
(* it for wait_to_release_ms milliseconds if these are whole seconds, and  *)
(* else for less than a second too short: the header promises the          *)
(* milliseconds, and sleep(3) does not count the rest.                     *)
(***************************************************************************)
SuccessIsEarned ==
  \A t \in Threads : thread[t].thread_complete_success =>
    /\ thread[t].release % Second = 0 => thread[t].held >= thread[t].release
    /\ thread[t].release - thread[t].held < Second
    /\ mutex # t

(***************************************************************************)
(* The inductive invariant behind MutexHeld and SuccessIsEarned: the time  *)
(* a thread has held the mutex and the time it will still sleep with it    *)
(* add up to its wait, and only a thread past its unlock has the flag.     *)
(***************************************************************************)
Covered(h) ==
  /\ h.pc = "unlock" => h.held + h.asleep >= SleepTime(h.release)
  /\ h.pc = "success" => h.held >= SleepTime(h.release)
  /\ h.thread_complete_success =>
       h.pc \in {"return", "joined"} /\ h.held >= SleepTime(h.release)

WaitCovered == \A t \in Threads : Covered(thread[t])

IInv == TypeOK /\ MutexHeld /\ WaitCovered

(***************************************************************************)
(* Every thread returns, unless an unlock has failed: then the threads     *)
(* that have yet to lock are blocked for ever, and only they.              *)
(***************************************************************************)
ThreadsReturn ==
  \A t \in Threads :
    thread[t].pc = "lock" ~> \/ thread[t].pc = "return" \/ crashed
                             \/ thread[t].pc = "lock" /\ mutex = Dead

==============================================================================
