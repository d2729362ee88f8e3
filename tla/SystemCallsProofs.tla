-------------------------- MODULE SystemCallsProofs --------------------------
(***************************************************************************)
(* What SystemCalls promises, for any number of processes and any set of   *)
(* failing system calls.                                                   *)
(***************************************************************************)
EXTENDS SystemCalls, TLAPS

(* A process that does not exist, or has just begun, is nobody's child.    *)
LEMMA NoProcessFacts ==
  /\ NoProcess \in Processes /\ PlaceOK(NoProcess)
  /\ NoProcess.life = "none" /\ NoProcess.parent = NoProc
  /\ NoProcess.pc = "idle"
BY DEF NoProcess, Processes, PlaceOK, EXIT_SUCCESS

LEMMA InitInv == Init => IInv
<1>. SUFFICES ASSUME Init PROVE IInv
  OBVIOUS
<1>. DEFINE root == [NoProcess EXCEPT !.life = "alive"]
<1>1. /\ root \in Processes /\ PlaceOK(root) /\ root.life = "alive"
      /\ root.parent = NoProc /\ root.pc = "idle" /\ root.pid = NoProc /\ ~root.fd
      /\ ~root.redirect
  BY DEF NoProcess, Processes, PlaceOK, EXIT_SUCCESS
<1>2. ASSUME NEW p \in Procs
      PROVE  proc[p] = IF p = Root THEN root ELSE NoProcess
  BY <1>2 DEF Init
<1>. HIDE DEF root
<1>3. TypeOK
  BY <1>1, NoProcessFacts DEF Init, TypeOK, root
<1>4. Orphans
  BY <1>1, <1>2, NoProcessFacts DEF Orphans
<1>5. ChildrenAwaited
  BY <1>1, <1>2, NoProcessFacts, ProcAssumption DEF ChildrenAwaited, Children
<1>6. Family
  BY <1>1, <1>2, NoProcessFacts, ProcAssumption DEF Family
<1>7. \A p \in Procs : PlaceOK(proc[p])
  BY <1>1, <1>2, NoProcessFacts
<1>8. SameCall
  BY <1>1, <1>2, NoProcessFacts DEF SameCall, At
<1>9. Alone
  <2>1. Active \subseteq {Root}
    BY <1>2, NoProcessFacts DEF Active
  <2>2. FileAt(Root, proc[Root], file)
    BY <1>1, <1>2, ProcAssumption DEF FileAt
  <2>. QED
    BY <2>1, <2>2 DEF Alone
<1>. QED
  BY <1>3, <1>4, <1>5, <1>6, <1>7, <1>8, <1>9 DEF IInv

(* What the invariant says of one process.                                 *)
LEMMA OneProcess ==
  ASSUME IInv, NEW p \in Procs
  PROVE  /\ proc[p] \in Processes /\ PlaceOK(proc[p])
         /\ proc[p].parent # p
         /\ proc[p].life # "none" /\ proc[p].parent # NoProc =>
              proc[p].parent \in Procs /\ proc[proc[p].parent].life = "alive"
         /\ proc[p].life = "alive" /\ proc[p].pc # "wait" => proc[p].pid = NoProc
         /\ At(p, "wait") =>
              /\ proc[p].pid \in Procs
              /\ proc[proc[p].pid].life # "none" /\ proc[proc[p].pid].parent = p
<1>1. proc[p] \in Processes
  BY DEF IInv, TypeOK
<1>2. proc[p].parent \in Procs \union {NoProc}
  BY <1>1 DEF Processes
<1>. QED
  BY <1>1, <1>2 DEF IInv, Family, ChildrenAwaited, Children, At

(***************************************************************************)
(* A step of a process that was not waiting and does not wait after it:    *)
(* r is the process after the step.                                        *)
(***************************************************************************)
LEMMA LocalStep ==
  ASSUME IInv, NEW p \in Procs, NEW r \in Processes,
         proc' = [proc EXCEPT ![p] = r],
         proc[p].life = "alive", proc[p].pc # "wait",
         r.life = "alive", r.pc # "wait",
         r.parent = proc[p].parent, r.pid = NoProc,
         PlaceOK(r),
         r.pc \in InChild => proc[p].pc \in InChild /\ r.redirect = proc[p].redirect,
         file' \subseteq Procs,
         lost = {} => FileAt(p, r, file'),
         lost' = lost
  PROVE  IInv'
<1>1. ASSUME NEW q \in Procs
      PROVE  proc'[q] = IF q = p THEN r ELSE proc[q]
  BY <1>1 DEF IInv, TypeOK
<1>2. TypeOK'
  BY DEF IInv, TypeOK
<1>3. Orphans'
  BY <1>1 DEF IInv, Orphans
<1>4. ASSUME NEW q \in Procs
      PROVE  Children(q)' = Children(q)
  BY <1>1 DEF Children
<1>5. ChildrenAwaited'
  <2>1. proc[p].pid = NoProc
    BY OneProcess
  <2>. QED
    BY <1>1, <1>4, <2>1 DEF IInv, ChildrenAwaited
<1>6. Family'
  <2>. SUFFICES ASSUME NEW q \in Procs
                PROVE  LET u == proc'[q].parent
                       IN  /\ u # q
                           /\ proc'[q].life # "none" /\ u # NoProc =>
                                proc'[u].life = "alive"
                           /\ proc'[q].life = "alive" /\ proc'[q].pc # "wait" =>
                                proc'[q].pid = NoProc
    BY DEF Family
  <2>. QED
    BY <1>1, OneProcess
<1>7. \A q \in Procs : PlaceOK(proc'[q])
  BY <1>1, OneProcess
<1>8. SameCall'
  <2>. SUFFICES ASSUME NEW q \in Procs, proc'[q].life = "alive", proc'[q].pc = "wait",
                       proc'[proc'[q].pid].pc \in InChild
                PROVE  proc'[proc'[q].pid].redirect = proc'[q].redirect
    BY DEF SameCall, At, InChild
  <2>1. q # p /\ proc'[q] = proc[q]
    BY <1>1
  <2>2. proc[q].pid \in Procs /\ At(q, "wait")
    BY <2>1, OneProcess DEF At
  <2>. QED
    BY <1>1, <2>1, <2>2 DEF IInv, SameCall
<1>9. Alone'
  <2>1. Active' = Active /\ p \in Active
    BY <1>1 DEF Active
  <2>2. ASSUME lost = {}, NEW q \in Active
        PROVE  FileAt(q, proc'[q], file') /\ Active = {q}
    <3>1. Active = {p}
      BY <2>1, <2>2 DEF IInv, Alone
    <3>. QED
      BY <1>1, <2>2, <3>1
  <2>. QED
    BY <2>1, <2>2 DEF Alone, FileAt
<1>. QED
  BY <1>2, <1>3, <1>5, <1>6, <1>7, <1>8, <1>9 DEF IInv, PlaceOK, SIGNALLED

(***************************************************************************)
(* r is a process that has returned from the library: it closed fd, or had *)
(* none.  Nothing of the call is left but descriptor 1.                    *)
(***************************************************************************)
Returned(p, r, b) ==
  \/ r = Return(Close(proc[p]), b)
  \/ r = Return(proc[p], b) /\ proc[p].pc \in {"idle", "open"}

LEMMA ReturnFacts ==
  ASSUME IInv, NEW p \in Procs, proc[p].life = "alive", proc[p].image = "caller",
         NEW b \in BOOLEAN, NEW r, Returned(p, r, b)
  PROVE  /\ r \in Processes /\ PlaceOK(r)
         /\ r.life = "alive" /\ r.pc = "idle"
         /\ r.parent = proc[p].parent /\ r.pid = NoProc
         /\ ~r.fd /\ ~r.redirect
         /\ r.ret = b
<1>1. proc[p] \in Processes /\ PlaceOK(proc[p])
  BY OneProcess
<1>2. CASE r = Return(Close(proc[p]), b)
  BY <1>1, <1>2 DEF Return, Close, Processes, PlaceOK
<1>3. CASE r = Return(proc[p], b) /\ proc[p].pc \in {"idle", "open"}
  BY <1>1, <1>3 DEF Return, Processes, PlaceOK
<1>. QED
  BY <1>2, <1>3 DEF Returned

(* The steps by which a call that does not wait returns.                   *)
LEMMA ReturnStep ==
  ASSUME IInv, NEW p \in Procs, NEW b \in BOOLEAN, NEW r, Returned(p, r, b),
         proc[p].life = "alive", proc[p].image = "caller", proc[p].pc # "wait",
         proc' = [proc EXCEPT ![p] = r], UNCHANGED <<file, lost>>
  PROVE  IInv'
<1>1. file' \subseteq Procs
  BY DEF IInv, TypeOK
<1>2. FileAt(p, r, file')
  BY ReturnFacts DEF FileAt
<1>. QED
  BY <1>1, <1>2, ReturnFacts, LocalStep DEF InChild

(* Outside the command the image is the caller's.                          *)
LEMMA CallerAt ==
  ASSUME IInv, NEW p \in Procs, proc[p].pc \notin {"run", "ran"}
  PROVE  proc[p].image = "caller"
<1>1. proc[p] \in Processes /\ PlaceOK(proc[p])
  BY OneProcess
<1>. QED
  BY <1>1 DEF PlaceOK, Processes

LEMMA DoSystemStep ==
  ASSUME IInv, NEW p \in Procs, DoSystem(p)
  PROVE  IInv'
BY ReturnStep DEF DoSystem, Returned, At

LEMMA DoExecStep ==
  ASSUME IInv, NEW p \in Procs, NEW redirect \in BOOLEAN, NEW absolute \in BOOLEAN,
         DoExec(p, redirect, absolute)
  PROVE  IInv'
<1>. DEFINE r == [proc[p] EXCEPT !.ret = FALSE, !.redirect = redirect,
                                 !.pc = IF redirect THEN "open" ELSE "fork"]
<1>1. CASE proc' = [proc EXCEPT ![p] = Return(proc[p], FALSE)]
  BY <1>1, ReturnStep DEF DoExec, Returned, At
<1>2. CASE proc' = [proc EXCEPT ![p] = r]
  <2>1. /\ r \in Processes /\ PlaceOK(r) /\ r.life = "alive"
        /\ r.pc = IF redirect THEN "open" ELSE "fork"
        /\ r.parent = proc[p].parent /\ r.pid = NoProc /\ r.redirect = redirect
    <3>1. /\ proc[p] \in Processes /\ proc[p].image = "caller" /\ proc[p].life = "alive"
          /\ proc[p].pid = NoProc /\ PlaceOK(proc[p])
      BY OneProcess, CallerAt DEF DoExec, At
    <3>. QED
      BY <3>1 DEF DoExec, At, Processes, PlaceOK
  <2>. HIDE DEF r
  <2>2. FileAt(p, r, file') /\ file' \subseteq Procs
    BY <2>1 DEF FileAt, DoExec, IInv, TypeOK
  <2>. QED
    BY <1>2, <2>1, <2>2, LocalStep DEF DoExec, At, InChild
<1>. QED
  BY <1>1, <1>2 DEF DoExec

(* From here on the file is empty, and the process is alone.               *)
LEMMA OpenFileStep ==
  ASSUME IInv, NEW p \in Procs, OpenFile(p)
  PROVE  IInv'
<1>. DEFINE r == [proc[p] EXCEPT !.fd = TRUE, !.pc = "fork"]
<1>1. CASE proc' = [proc EXCEPT ![p] = Return(proc[p], FALSE)] /\ UNCHANGED file
  BY <1>1, ReturnStep, CallerAt DEF OpenFile, Returned, At
<1>2. CASE proc' = [proc EXCEPT ![p] = r] /\ file' = {}
  <2>1. /\ r \in Processes /\ PlaceOK(r) /\ r.life = "alive" /\ r.pc = "fork"
        /\ r.parent = proc[p].parent /\ r.pid = NoProc
    <3>1. /\ proc[p] \in Processes /\ proc[p].image = "caller" /\ proc[p].life = "alive"
          /\ proc[p].pid = NoProc /\ PlaceOK(proc[p])
      BY OneProcess, CallerAt DEF OpenFile, At
    <3>. QED
      BY <3>1 DEF OpenFile, At, Processes, PlaceOK
  <2>. HIDE DEF r
  <2>2. FileAt(p, r, file')
    BY <1>2, <2>1 DEF FileAt
  <2>. QED
    BY <1>2, <2>1, <2>2, LocalStep DEF OpenFile, At, InChild
<1>. QED
  BY <1>1, <1>2 DEF OpenFile

(* What Alone says of a process that does not wait.                        *)
LEMMA FileAlone ==
  ASSUME IInv, NEW p \in Procs, proc[p].life # "none", proc[p].pc # "wait", lost = {}
  PROVE  FileAt(p, proc[p], file) /\ Active = {p}
BY DEF IInv, Alone, Active

LEMMA Dup2Step ==
  ASSUME IInv, NEW p \in Procs, Dup2(p)
  PROVE  IInv'
<1>. DEFINE r == [proc[p] EXCEPT !.out = "file", !.pc = "execv"]
<1>1. CASE proc' = [proc EXCEPT ![p] = Return(Close(proc[p]), FALSE)]
  BY <1>1, ReturnStep, CallerAt DEF Dup2, Returned, At
<1>2. CASE proc' = [proc EXCEPT ![p] = r]
  <2>1. /\ r \in Processes /\ PlaceOK(r) /\ r.life = "alive" /\ r.pc = "execv"
        /\ r.parent = proc[p].parent /\ r.pid = NoProc /\ r.out = "file"
        /\ r.redirect = proc[p].redirect
    <3>1. /\ proc[p] \in Processes /\ proc[p].image = "caller" /\ proc[p].life = "alive"
          /\ proc[p].pid = NoProc /\ PlaceOK(proc[p])
      BY OneProcess, CallerAt DEF Dup2, At
    <3>. QED
      BY <3>1 DEF Dup2, At, Processes, PlaceOK
  <2>. HIDE DEF r
  <2>2. lost = {} => FileAt(p, r, file')
    BY <2>1, FileAlone DEF FileAt, Dup2, At
  <2>. QED
    BY <1>2, <2>1, <2>2, LocalStep DEF Dup2, At, InChild, IInv, TypeOK
<1>. QED
  BY <1>1, <1>2 DEF Dup2

LEMMA ExecvStep ==
  ASSUME IInv, NEW p \in Procs, Execv(p)
  PROVE  IInv'
<1>. DEFINE r == [proc[p] EXCEPT !.image = "command", !.pc = "run"]
<1>1. CASE proc' = [proc EXCEPT ![p] = Return(Close(proc[p]), FALSE)]
  BY <1>1, ReturnStep, CallerAt DEF Execv, Returned, At
<1>2. CASE proc' = [proc EXCEPT ![p] = r]
  <2>1. /\ r \in Processes /\ PlaceOK(r) /\ r.life = "alive" /\ r.pc = "run"
        /\ r.parent = proc[p].parent /\ r.pid = NoProc /\ r.out = proc[p].out
        /\ r.redirect = proc[p].redirect
    <3>1. /\ proc[p] \in Processes /\ proc[p].image = "caller" /\ proc[p].life = "alive"
          /\ proc[p].pid = NoProc /\ PlaceOK(proc[p])
      BY OneProcess, CallerAt DEF Execv, At
    <3>. QED
      BY <3>1 DEF Execv, At, Processes, PlaceOK
  <2>. HIDE DEF r
  <2>2. lost = {} => FileAt(p, r, file')
    BY <2>1, FileAlone DEF FileAt, Execv, At
  <2>. QED
    BY <1>2, <2>1, <2>2, LocalStep DEF Execv, At, InChild, IInv, TypeOK
<1>. QED
  BY <1>1, <1>2 DEF Execv

(* The command writes to a file that was empty.                            *)
LEMMA OutputStep ==
  ASSUME IInv, NEW p \in Procs, Output(p)
  PROVE  IInv'
<1>. DEFINE r == [proc[p] EXCEPT !.pc = "ran"]
<1>1. /\ r \in Processes /\ PlaceOK(r) /\ r.life = "alive" /\ r.pc = "ran"
      /\ r.parent = proc[p].parent /\ r.pid = NoProc
      /\ r.redirect = proc[p].redirect
  BY OneProcess DEF Output, At, Processes, PlaceOK
<1>2. proc' = [proc EXCEPT ![p] = r]
  BY DEF Output, Goto
<1>. HIDE DEF r
<1>3. lost = {} => FileAt(p, r, file')
  BY <1>1, FileAlone DEF FileAt, Output, At
<1>4. file' \subseteq Procs
  BY DEF Output, IInv, TypeOK
<1>. QED
  BY <1>1, <1>2, <1>3, <1>4, LocalStep DEF Output, At, InChild

(***************************************************************************)
(* fork: c was no process and becomes a copy of p, which waits for it.     *)
(***************************************************************************)
LEMMA ForkStep ==
  ASSUME IInv, NEW p \in Procs, Fork(p)
  PROVE  IInv'
<1>1. CASE proc' = [proc EXCEPT ![p] = Return(Close(proc[p]), FALSE)]
  BY <1>1, ReturnStep, CallerAt DEF Fork, Returned, At
<1>2. ASSUME NEW c \in Procs, proc[c].life = "none",
             proc' = [proc EXCEPT
                ![p].pid = c, ![p].pc = "wait",
                ![c] = [proc[p] EXCEPT !.parent = p,
                          !.pc = IF proc[p].redirect THEN "dup2" ELSE "execv"]]
      PROVE  IInv'
  <2>. DEFINE a == [proc[p] EXCEPT !.pid = c, !.pc = "wait"]
              k == [proc[p] EXCEPT !.parent = p,
                      !.pc = IF proc[p].redirect THEN "dup2" ELSE "execv"]
  <2>1. /\ proc[p] \in Processes /\ proc[p].life = "alive" /\ proc[p].pc = "fork"
        /\ proc[p].image = "caller" /\ proc[p].pid = NoProc /\ proc[p].parent # p
        /\ p # c /\ UNCHANGED <<file, lost>> /\ PlaceOK(proc[p])
    BY <1>2, OneProcess, CallerAt DEF Fork, At
  <2>2. /\ a \in Processes /\ PlaceOK(a) /\ a.life = "alive" /\ a.pc = "wait"
        /\ a.pid = c /\ a.parent = proc[p].parent /\ a.redirect = proc[p].redirect
    BY <2>1 DEF Processes, PlaceOK
  <2>3. /\ k \in Processes /\ PlaceOK(k) /\ k.life = "alive" /\ k.pid = NoProc
        /\ k.pc = (IF proc[p].redirect THEN "dup2" ELSE "execv")
        /\ k.parent = p /\ k.redirect = proc[p].redirect
    BY <2>1 DEF Processes, PlaceOK
  <2>4. ASSUME NEW q \in Procs
        PROVE  proc'[q] = IF q = c THEN k ELSE IF q = p THEN a ELSE proc[q]
    BY <1>2, <2>1, <2>4 DEF IInv, TypeOK
  <2>5. proc' \in [Procs -> Processes]
    <3>1. DOMAIN proc' = Procs /\ proc' = [q \in DOMAIN proc' |-> proc'[q]]
      BY <1>2 DEF IInv, TypeOK
    <3>2. \A q \in Procs : proc'[q] \in Processes
      <4>. HIDE DEF a, k
      <4>. QED
        BY <2>2, <2>3, <2>4, OneProcess
    <3>. QED
      BY <3>1, <3>2
  <2>. HIDE DEF a, k
  <2>6. TypeOK'
    BY <2>1, <2>5 DEF IInv, TypeOK
  <2>7. Orphans'
    BY <2>1, <2>2, <2>3, <2>4 DEF IInv, Orphans
  <2>8. ASSUME NEW q \in Procs
        PROVE  /\ q # p /\ q # c => Children(q)' = Children(q)
               /\ Children(p)' = Children(p) \union {c}
               /\ Children(c)' = {}
    <3>1. ASSUME NEW u \in Procs, proc[u].life # "none"
          PROVE  proc[u].parent # c
      <4>1. proc[u].parent # NoProc => proc[proc[u].parent].life = "alive"
        BY <3>1, OneProcess
      <4>. QED
        BY <1>2, <4>1, ProcAssumption
    <3>2. ASSUME NEW u \in Procs, NEW v \in Procs
          PROVE  u \in Children(v)' <=> \/ u = c /\ v = p
                                        \/ u # c /\ u \in Children(v)
      <4>1. u \in Children(v)' <=> proc'[u].life # "none" /\ proc'[u].parent = v
        BY DEF Children
      <4>2. u \in Children(v) <=> proc[u].life # "none" /\ proc[u].parent = v
        BY DEF Children
      <4>3. CASE u = c
        BY <2>3, <2>4, <4>1, <4>3
      <4>4. CASE u = p
        BY <2>1, <2>2, <2>4, <4>1, <4>2, <4>4
      <4>5. CASE u # c /\ u # p
        BY <2>4, <4>1, <4>2, <4>5
      <4>. QED
        BY <4>3, <4>4, <4>5
    <3>3. c \notin Children(q) /\ Children(c) = {} /\ c \notin Children(p)
      BY <1>2, <3>1 DEF Children
    <3>4. \A v \in Procs : Children(v) \subseteq Procs /\ Children(v)' \subseteq Procs
      BY DEF Children
    <3>. QED
      BY <2>1, <3>2, <3>3, <3>4
  <2>9. ChildrenAwaited'
    <3>1. Children(p) \subseteq lost
      BY <2>1, ProcAssumption DEF IInv, ChildrenAwaited, Children
    <3>2. ASSUME NEW q \in Procs, proc'[q].life = "alive"
          PROVE  /\ proc'[q].pc = "wait" => proc'[q].pid \in Children(q)'
                 /\ Children(q)' \subseteq lost' \union {proc'[q].pid}
      <4>1. CASE q = p
        BY <2>1, <2>2, <2>4, <2>8, <3>1, <4>1
      <4>2. CASE q = c
        BY <2>3, <2>4, <2>8, <4>2
      <4>3. CASE q # p /\ q # c
        BY <2>1, <2>4, <2>8, <3>2, <4>3 DEF IInv, ChildrenAwaited
      <4>. QED
        BY <4>1, <4>2, <4>3
    <3>. QED
      BY <3>2 DEF ChildrenAwaited
  <2>10. Family'
    <3>. SUFFICES ASSUME NEW q \in Procs
                  PROVE  LET u == proc'[q].parent
                         IN  /\ u # q
                             /\ proc'[q].life # "none" /\ u # NoProc =>
                                  proc'[u].life = "alive"
                             /\ proc'[q].life = "alive" /\ proc'[q].pc # "wait" =>
                                  proc'[q].pid = NoProc
      BY DEF Family
    <3>1. CASE q = c
      BY <2>1, <2>2, <2>3, <2>4, <3>1
    <3>2. CASE q = p
      <4>1. proc[p].parent # NoProc =>
              proc[p].parent \in Procs /\ proc[proc[p].parent].life = "alive"
        BY <2>1, OneProcess
      <4>. QED
        BY <1>2, <2>1, <2>2, <2>4, <3>2, <4>1
    <3>3. CASE q # c /\ q # p
      <4>1. /\ proc[q].parent # q
            /\ proc[q].life # "none" /\ proc[q].parent # NoProc =>
                 proc[q].parent \in Procs /\ proc[proc[q].parent].life = "alive"
            /\ proc[q].life = "alive" /\ proc[q].pc # "wait" => proc[q].pid = NoProc
        BY OneProcess
      <4>. QED
        BY <1>2, <2>1, <2>2, <2>4, <3>3, <4>1
    <3>. QED
      BY <3>1, <3>2, <3>3
  <2>11. \A q \in Procs : PlaceOK(proc'[q])
    BY <2>2, <2>3, <2>4, OneProcess
  <2>12. SameCall'
    <3>. SUFFICES ASSUME NEW q \in Procs, proc'[q].life = "alive", proc'[q].pc = "wait",
                         proc'[proc'[q].pid].pc \in InChild
                  PROVE  proc'[proc'[q].pid].redirect = proc'[q].redirect
      BY DEF SameCall, At, InChild
    <3>1. CASE q = p
      BY <2>1, <2>2, <2>3, <2>4, <3>1
    <3>2. CASE q # p
      <4>1. q # c /\ proc'[q] = proc[q]
        BY <2>3, <2>4, <3>2
      <4>2. /\ proc[q].pid \in Procs /\ At(q, "wait") /\ proc[q].pid # c
        BY <1>2, <4>1, OneProcess DEF At
      <4>3. proc[q].pid # p
        BY <2>1, <2>2, <2>4, <4>1 DEF InChild
      <4>. QED
        BY <2>4, <4>1, <4>2, <4>3 DEF IInv, SameCall
    <3>. QED
      BY <3>1, <3>2
  <2>13. Alone'
    <3>. SUFFICES ASSUME lost = {} PROVE \A q \in Active' : FileAt(q, proc'[q], file') /\ Active' = {q}
      BY <2>1 DEF Alone, FileAt
    <3>1. FileAt(p, proc[p], file) /\ Active = {p}
      BY <2>1, FileAlone
    <3>2. Active' = {c}
      BY <2>1, <2>2, <2>3, <2>4, <3>1 DEF Active
    <3>3. FileAt(c, k, file)
      BY <2>1, <2>3, <3>1 DEF FileAt
    <3>. QED
      BY <2>1, <2>4, <3>2, <3>3
  <2>. QED
    BY <2>6, <2>7, <2>9, <2>10, <2>11, <2>12, <2>13 DEF IInv, PlaceOK, SIGNALLED
<1>. QED
  BY <1>1, <1>2 DEF Fork

(* A process that has a child is alive.                                    *)
LEMMA ParentLives ==
  ASSUME IInv, NEW p \in Procs, NEW q \in Procs, proc[p].life # "none",
         proc[p].parent = q
  PROVE  proc[q].life = "alive"
BY OneProcess, ProcAssumption

(* p returns b, and the processes in gone are no more.                     *)
Returns(p, b, gone) ==
  /\ proc' \in [Procs -> Processes]
  /\ \A q \in Procs : proc'[q] = IF q \in gone THEN NoProcess
                                 ELSE IF q = p THEN Return(Close(proc[p]), b) ELSE proc[q]

(***************************************************************************)
(* A process p stops waiting for c: it returns, and c is reaped (gone) or  *)
(* left to itself, in which case lost remembers it.                        *)
(***************************************************************************)
LEMMA StopWaiting ==
  ASSUME IInv, NEW p \in Procs, At(p, "wait"), NEW c \in Procs, c = proc[p].pid,
         NEW b \in BOOLEAN, NEW gone, Returns(p, b, gone), UNCHANGED file,
         \/ gone = {c} /\ proc[c].life = "zombie" /\ lost' = lost
         \/ gone = {} /\ lost' = lost \union {c}
  PROVE  IInv'
<1>. DEFINE r == Return(Close(proc[p]), b)
<1>1. /\ p # c /\ proc[p].life = "alive" /\ proc[p].pc = "wait"
      /\ proc[c].life # "none" /\ proc[c].parent = p /\ proc[p].image = "caller"
  BY OneProcess, CallerAt DEF At
<1>2. /\ r \in Processes /\ PlaceOK(r) /\ r.life = "alive" /\ r.pc = "idle"
      /\ r.parent = proc[p].parent /\ r.pid = NoProc /\ ~r.fd /\ ~r.redirect
  BY <1>1, ReturnFacts DEF Returned
<1>. HIDE DEF r
<1>3. ASSUME NEW q \in Procs
      PROVE  proc'[q] = IF q \in gone THEN NoProcess
                        ELSE IF q = p THEN r ELSE proc[q]
  BY <1>3 DEF r, Returns
<1>4. TypeOK'
  BY DEF IInv, TypeOK, Returns
<1>5. Orphans'
  BY <1>2, <1>3, NoProcessFacts DEF IInv, Orphans
<1>6. ASSUME NEW q \in Procs
      PROVE  Children(q)' = Children(q) \ gone
  <2>1. ASSUME NEW u \in Procs
        PROVE  /\ u \in Children(q)' <=> proc'[u].life # "none" /\ proc'[u].parent = q
               /\ u \in Children(q) <=> proc[u].life # "none" /\ proc[u].parent = q
    BY DEF Children
  <2>2. ASSUME NEW u \in Procs
        PROVE  u \in Children(q)' <=> u \in Children(q) /\ u \notin gone
    <3>1. CASE u \in gone
      BY <1>3, <2>1, <3>1, NoProcessFacts
    <3>2. CASE u \notin gone /\ u = p
      BY <1>1, <1>2, <1>3, <2>1, <3>2
    <3>3. CASE u \notin gone /\ u # p
      BY <1>3, <2>1, <3>3
    <3>. QED
      BY <3>1, <3>2, <3>3
  <2>3. Children(q) \subseteq Procs /\ Children(q)' \subseteq Procs
    BY DEF Children
  <2>. QED
    BY <2>2, <2>3
<1>7. ChildrenAwaited'
  <2>1. ASSUME NEW q \in Procs, proc'[q].life = "alive"
        PROVE  /\ proc'[q].pc = "wait" => proc'[q].pid \in Children(q)'
               /\ Children(q)' \subseteq lost' \union {proc'[q].pid}
    <3>1. CASE q = p
      <4>1. Children(p) \subseteq lost \union {c}
        BY <1>1 DEF IInv, ChildrenAwaited
      <4>. QED
        BY <1>1, <1>2, <1>3, <1>6, <3>1, <4>1
    <3>2. CASE q # p
      <4>1. proc'[q] = proc[q]
        BY <1>3, <2>1, <3>2, NoProcessFacts
      <4>2. c \notin Children(q)
        BY <1>1, <3>2 DEF Children
      <4>3. Children(q)' = Children(q) /\ lost \subseteq lost'
        BY <1>6, <4>2
      <4>. QED
        BY <2>1, <4>1, <4>3 DEF IInv, ChildrenAwaited
    <3>. QED
      BY <3>1, <3>2
  <2>. QED
    BY <2>1 DEF ChildrenAwaited
<1>8. Family'
  <2>. SUFFICES ASSUME NEW q \in Procs
                PROVE  LET u == proc'[q].parent
                       IN  /\ u # q
                           /\ proc'[q].life # "none" /\ u # NoProc =>
                                proc'[u].life = "alive"
                           /\ proc'[q].life = "alive" /\ proc'[q].pc # "wait" =>
                                proc'[q].pid = NoProc
    BY DEF Family
  <2>1. CASE q \in gone
    BY <1>3, <2>1, NoProcessFacts, ProcAssumption
  <2>2. CASE q \notin gone
    <3>1. /\ proc'[q].life = proc[q].life /\ proc'[q].parent = proc[q].parent
          /\ proc'[q] = proc[q] \/ proc'[q].pid = NoProc
      BY <1>1, <1>2, <1>3, <2>2
    <3>2. /\ proc[q].parent # q
          /\ proc[q].life # "none" /\ proc[q].parent # NoProc =>
               proc[q].parent \in Procs /\ proc[proc[q].parent].life = "alive"
          /\ proc[q].life = "alive" /\ proc[q].pc # "wait" => proc[q].pid = NoProc
      BY OneProcess
    <3>3. ASSUME NEW u \in Procs, proc[u].life = "alive"
          PROVE  proc'[u].life = "alive"
      BY <1>2, <1>3, <3>3
    <3>. QED
      BY <3>1, <3>2, <3>3
  <2>. QED
    BY <2>1, <2>2
<1>9. \A q \in Procs : PlaceOK(proc'[q])
  BY <1>2, <1>3, OneProcess, NoProcessFacts
<1>10. SameCall'
  <2>. SUFFICES ASSUME NEW q \in Procs, proc'[q].life = "alive", proc'[q].pc = "wait",
                       proc'[proc'[q].pid].pc \in InChild
                PROVE  proc'[proc'[q].pid].redirect = proc'[q].redirect
    BY DEF SameCall, At, InChild
  <2>1. q # p /\ proc'[q] = proc[q]
    BY <1>2, <1>3, NoProcessFacts
  <2>2. /\ proc[q].pid \in Procs /\ At(q, "wait") /\ proc[q].pid # c
    BY <1>1, <2>1, OneProcess DEF At
  <2>3. proc[q].pid # p
    BY <1>2, <1>3, <1>1, <2>1 DEF InChild
  <2>. QED
    BY <1>3, <2>1, <2>2, <2>3 DEF IInv, SameCall
<1>11. Alone'
  <2>. SUFFICES ASSUME lost' = {}
                PROVE  \A q \in Active' : FileAt(q, proc'[q], file') /\ Active' = {q}
    BY DEF Alone, FileAt
  <2>1. gone = {c} /\ lost = {} /\ proc[c].life = "zombie"
    OBVIOUS
  <2>2. proc[c].pc # "wait"
    BY <2>1 DEF IInv, Orphans
  <2>3. Active = {c}
    BY <2>1, <2>2, FileAlone
  <2>4. Active' = {p}
    BY <1>1, <1>2, <1>3, <2>1, <2>3, NoProcessFacts DEF Active
  <2>5. FileAt(p, r, file)
    BY <1>2 DEF FileAt
  <2>. QED
    BY <1>1, <1>3, <2>4, <2>5
<1>. QED
  BY <1>4, <1>5, <1>7, <1>8, <1>9, <1>10, <1>11 DEF IInv, PlaceOK, SIGNALLED

LEMMA WaitStep ==
  ASSUME IInv, NEW p \in Procs, Wait(p)
  PROVE  IInv'
<1>. DEFINE c == proc[p].pid
            b == proc[c].status # EXIT_FAILURE
<1>1. /\ At(p, "wait") /\ c \in Procs /\ proc[c].life = "zombie"
      /\ UNCHANGED <<file, lost>> /\ b \in BOOLEAN
      /\ proc[p].life = "alive" /\ proc[p].image = "caller"
  BY OneProcess, CallerAt DEF Wait, At
<1>2. Return(Close(proc[p]), b) \in Processes
  BY <1>1, ReturnFacts DEF Returned
<1>3. proc' = [proc EXCEPT ![p] = Return(Close(proc[p]), b), ![c] = NoProcess]
  BY DEF Wait
<1>. HIDE DEF b, c
<1>4. Returns(p, b, {c})
  BY <1>1, <1>2, <1>3, NoProcessFacts DEF IInv, TypeOK, Returns
<1>. QED
  BY <1>1, <1>4, StopWaiting DEF c

LEMMA WaitFailsStep ==
  ASSUME IInv, NEW p \in Procs, WaitFails(p)
  PROVE  IInv'
<1>. DEFINE c == proc[p].pid
<1>1. /\ At(p, "wait") /\ c \in Procs /\ UNCHANGED file /\ lost' = lost \union {c}
      /\ proc[p].life = "alive" /\ proc[p].image = "caller"
  BY OneProcess, CallerAt DEF WaitFails, At
<1>2. Return(Close(proc[p]), FALSE) \in Processes
  BY <1>1, ReturnFacts DEF Returned
<1>3. proc' = [proc EXCEPT ![p] = Return(Close(proc[p]), FALSE)]
  BY DEF WaitFails
<1>. HIDE DEF c
<1>4. Returns(p, FALSE, {})
  BY <1>1, <1>2, <1>3 DEF IInv, TypeOK, Returns
<1>. QED
  BY <1>1, <1>4, StopWaiting DEF c

(***************************************************************************)
(* A process c ends: it is a zombie, or gone if it had no parent, and its  *)
(* children lose their parent.                                             *)
(***************************************************************************)
LEMMA EndStep ==
  ASSUME IInv, NEW c \in Procs, NEW status \in {EXIT_SUCCESS, EXIT_FAILURE, SIGNALLED},
         proc[c].life = "alive",
         proc[c].pc = "run" => status = SIGNALLED,
         End(c, status)
  PROVE  IInv'
<1>. DEFINE z    == [proc[c] EXCEPT !.life = "zombie", !.status = status]
            o(q) == [proc[q] EXCEPT !.parent = NoProc]
            after(q) ==
              IF q = c THEN IF proc[c].parent = NoProc THEN NoProcess ELSE z
              ELSE IF proc[q].parent = c
              THEN IF proc[q].life = "zombie" THEN NoProcess ELSE o(q)
              ELSE proc[q]
<1>1. /\ proc' = [q \in Procs |-> after(q)]
      /\ file' = file /\ lost' = lost \union Children(c)
  BY DEF End
<1>2. /\ z \in Processes /\ PlaceOK(z) /\ z.life = "zombie" /\ z.pc = proc[c].pc
      /\ z.parent = proc[c].parent /\ z.redirect = proc[c].redirect
      /\ z.out = proc[c].out
  <2>1. proc[c] \in Processes /\ PlaceOK(proc[c])
    BY OneProcess
  <2>. QED
    BY <2>1 DEF Processes, PlaceOK
<1>3. ASSUME NEW q \in Procs
      PROVE  /\ o(q) \in Processes /\ PlaceOK(o(q)) /\ o(q).life = proc[q].life
             /\ o(q).pc = proc[q].pc /\ o(q).parent = NoProc /\ o(q).pid = proc[q].pid
             /\ o(q).redirect = proc[q].redirect /\ o(q).fd = proc[q].fd
             /\ o(q).out = proc[q].out
  <2>1. proc[q] \in Processes /\ PlaceOK(proc[q])
    BY <1>3, OneProcess
  <2>. QED
    BY <2>1 DEF Processes, PlaceOK
<1>. HIDE DEF z, o
<1>4. ASSUME NEW q \in Procs
      PROVE  \/ proc'[q] = NoProcess
             \/ q = c /\ proc'[q] = z /\ proc[c].parent # NoProc
             \/ q # c /\ proc[q].parent = c /\ proc'[q] = o(q)
             \/ q # c /\ proc[q].parent # c /\ proc'[q] = proc[q]
  BY <1>1, <1>4
<1>5. ASSUME NEW q \in Procs
      PROVE  proc'[q] \in Processes /\ PlaceOK(proc'[q])
  BY <1>2, <1>3, <1>4, <1>5, OneProcess, NoProcessFacts
<1>6. TypeOK'
  <2>1. proc' \in [Procs -> Processes]
    <3>. HIDE DEF after
    <3>. QED
      BY <1>1, <1>5
  <2>. QED
    BY <1>1, <2>1 DEF IInv, TypeOK, Children
<1>. HIDE DEF after
(* A process that still lives has kept its place and its child.            *)
<1>7. ASSUME NEW q \in Procs, proc'[q].life = "alive"
      PROVE  /\ q # c /\ proc[q].life = "alive" /\ proc'[q].pc = proc[q].pc
             /\ proc'[q].pid = proc[q].pid /\ proc'[q].fd = proc[q].fd
             /\ proc'[q].redirect = proc[q].redirect
  BY <1>2, <1>3, <1>4, <1>7, NoProcessFacts
(* A process that is left has kept its place, and its parent unless c.     *)
<1>8. ASSUME NEW q \in Procs, proc'[q].life # "none"
      PROVE  /\ proc[q].life # "none" /\ proc'[q].pc = proc[q].pc
             /\ proc'[q].redirect = proc[q].redirect /\ proc'[q].out = proc[q].out
             /\ \/ proc'[q].parent = NoProc
                \/ proc'[q].parent = proc[q].parent /\ proc[q].parent # c
  <2>1. proc[c].parent # c
    BY OneProcess
  <2>. QED
    BY <1>2, <1>3, <1>4, <1>8, <2>1, NoProcessFacts
<1>9. ASSUME NEW q \in Procs, proc[q].life = "alive", q # c
      PROVE  proc'[q].life = "alive"
  BY <1>1, <1>3, <1>9 DEF after
<1>10. Orphans'
  <2>. SUFFICES ASSUME NEW q \in Procs, proc'[q].life = "zombie", proc'[q].pc = "wait"
                PROVE  lost' # {}
    BY DEF Orphans
  <2>1. CASE q = c
    <3>1. proc[c].pc = "wait"
      BY <1>8, <2>1
    <3>2. proc[c].pid \in Children(c)
      BY <3>1 DEF IInv, ChildrenAwaited
    <3>. QED
      BY <1>1, <3>2
  <2>2. CASE q # c
    <3>1. proc[q].life = "zombie" /\ proc[q].pc = "wait"
      BY <1>3, <1>4, <2>2, NoProcessFacts
    <3>. QED
      BY <1>1, <3>1 DEF IInv, Orphans
  <2>. QED
    BY <2>1, <2>2
<1>11. ChildrenAwaited'
  <2>1. ASSUME NEW q \in Procs, proc'[q].life = "alive"
        PROVE  /\ proc'[q].pc = "wait" => proc'[q].pid \in Children(q)'
               /\ Children(q)' \subseteq lost' \union {proc'[q].pid}
    <3>1. /\ q # c /\ proc[q].life = "alive" /\ proc'[q].pc = proc[q].pc
          /\ proc'[q].pid = proc[q].pid
      BY <1>7, <2>1
    <3>2. Children(q)' \subseteq Children(q)
      BY <1>8, ProcAssumption DEF Children
    <3>3. Children(q) \subseteq lost \union {proc[q].pid}
      BY <3>1 DEF IInv, ChildrenAwaited
    <3>4. ASSUME proc[q].pc = "wait"
          PROVE  proc[q].pid \in Children(q)'
      <4>1. /\ proc[q].pid \in Procs /\ proc[proc[q].pid].life # "none"
            /\ proc[proc[q].pid].parent = q
        BY <3>1, <3>4, OneProcess DEF At
      <4>2. CASE proc[q].pid = c
        <5>1. proc'[c] = z
          BY <1>1, <4>1, <4>2, ProcAssumption DEF after
        <5>. QED
          BY <1>2, <4>1, <4>2, <5>1 DEF Children
      <4>3. CASE proc[q].pid # c
        <5>1. proc'[proc[q].pid] = proc[proc[q].pid]
          BY <1>1, <3>1, <4>1, <4>3 DEF after
        <5>. QED
          BY <4>1, <5>1 DEF Children
      <4>. QED
        BY <4>2, <4>3
    <3>. QED
      BY <1>1, <3>1, <3>2, <3>3, <3>4
  <2>. QED
    BY <2>1 DEF ChildrenAwaited
<1>12. Family'
  <2>. SUFFICES ASSUME NEW q \in Procs
                PROVE  LET u == proc'[q].parent
                       IN  /\ u # q
                           /\ proc'[q].life # "none" /\ u # NoProc =>
                                proc'[u].life = "alive"
                           /\ proc'[q].life = "alive" /\ proc'[q].pc # "wait" =>
                                proc'[q].pid = NoProc
    BY DEF Family
  <2>1. proc'[q].parent # q
    BY <1>2, <1>3, <1>4, OneProcess, NoProcessFacts, ProcAssumption
  <2>2. ASSUME proc'[q].life # "none", proc'[q].parent # NoProc
        PROVE  proc'[proc'[q].parent].life = "alive"
    <3>1. proc[q].life # "none" /\ proc'[q].parent = proc[q].parent /\ proc[q].parent # c
      BY <1>8, <2>2
    <3>2. proc[q].parent \in Procs /\ proc[proc[q].parent].life = "alive"
      BY <2>2, <3>1, OneProcess
    <3>. QED
      BY <1>9, <3>1, <3>2
  <2>3. ASSUME proc'[q].life = "alive", proc'[q].pc # "wait"
        PROVE  proc'[q].pid = NoProc
    <3>1. /\ proc[q].life = "alive" /\ proc'[q].pc = proc[q].pc
          /\ proc'[q].pid = proc[q].pid
      BY <1>7, <2>3
    <3>. QED
      BY <2>3, <3>1, OneProcess
  <2>. QED
    BY <2>1, <2>2, <2>3
<1>13. SameCall'
  <2>. SUFFICES ASSUME NEW q \in Procs, proc'[q].life = "alive", proc'[q].pc = "wait",
                       proc'[proc'[q].pid].pc \in InChild
                PROVE  proc'[proc'[q].pid].redirect = proc'[q].redirect
    BY DEF SameCall, At, InChild
  <2>1. /\ proc[q].life = "alive" /\ proc[q].pc = "wait" /\ proc'[q].pid = proc[q].pid
        /\ proc'[q].redirect = proc[q].redirect
    BY <1>7
  <2>2. proc[q].pid \in Procs
    BY <2>1, OneProcess DEF At
  <2>3. /\ proc'[proc[q].pid].pc = proc[proc[q].pid].pc
        /\ proc'[proc[q].pid].redirect = proc[proc[q].pid].redirect
    BY <1>2, <1>3, <1>4, <2>1, <2>2, NoProcessFacts DEF InChild
  <2>. QED
    BY <2>1, <2>2, <2>3 DEF IInv, SameCall, At
<1>14. Alone'
  <2>. SUFFICES ASSUME lost' = {}, NEW q \in Active'
                PROVE  FileAt(q, proc'[q], file') /\ Active' = {q}
    BY DEF Alone, FileAt
  <2>. lost = {}
    BY <1>1
  <2>1. Active' \subseteq Active
    BY <1>8 DEF Active
  <2>2. FileAt(q, proc[q], file) /\ Active = {q}
    BY <2>1 DEF IInv, Alone
  <2>3. /\ proc'[q].pc = proc[q].pc /\ proc'[q].redirect = proc[q].redirect
        /\ proc'[q].out = proc[q].out
    BY <1>8 DEF Active
  <2>. QED
    BY <1>1, <2>1, <2>2, <2>3 DEF FileAt
<1>15. \A q \in Procs : PlaceOK(proc'[q])
  BY <1>5
<1>. QED
  BY <1>6, <1>10, <1>11, <1>12, <1>13, <1>14, <1>15 DEF IInv, PlaceOK, SIGNALLED

LEMMA ExitStep ==
  ASSUME IInv, NEW p \in Procs, Exit(p)
  PROVE  IInv'
<1>1. PICK status \in {EXIT_SUCCESS, EXIT_FAILURE} : End(p, status)
  BY DEF Exit
<1>. QED
  BY <1>1, EndStep DEF Exit, At

LEMMA KilledStep ==
  ASSUME IInv, NEW p \in Procs, Killed(p)
  PROVE  IInv'
BY EndStep DEF Killed

(* Every step keeps the invariant.                                         *)
LEMMA NextStep == IInv /\ [Next]_vars => IInv'
<1>. SUFFICES ASSUME IInv, [Next]_vars PROVE IInv'
  OBVIOUS
<1>1. ASSUME NEW p \in Procs, Caller(p) PROVE IInv'
  BY <1>1, DoSystemStep, DoExecStep DEF Caller
<1>2. ASSUME NEW p \in Procs, Library(p) PROVE IInv'
  BY <1>2, OpenFileStep, ForkStep, Dup2Step, ExecvStep, WaitStep DEF Library
<1>3. ASSUME NEW p \in Procs, WaitFails(p) \/ Output(p) \/ Exit(p) \/ Killed(p)
      PROVE  IInv'
  BY <1>3, WaitFailsStep, OutputStep, ExitStep, KilledStep
<1>4. CASE UNCHANGED vars
  <2>1. UNCHANGED <<proc, file, lost>>
    BY <1>4 DEF vars
  <2>2. Active' = Active
    BY <2>1 DEF Active
  <2>. QED
    BY <2>1, <2>2 DEF IInv, TypeOK, ChildrenAwaited, Children, Family, SameCall,
                      Orphans, Alone, At
<1>. QED
  BY <1>1, <1>2, <1>3, <1>4 DEF Next

(* IInv holds in every state, whichever system calls fail.                 *)
THEOREM Invariance == Spec => []IInv
<1>. QED
  BY InitInv, NextStep, PTL DEF Spec

(* The state of the processes keeps its type.                              *)
THEOREM TypeCorrect == Spec => []TypeOK
<1>1. IInv => TypeOK
  BY DEF IInv
<1>. QED
  BY <1>1, Invariance, PTL

(* The first process stays alive, outside the child's code, on its tty.    *)
LEMMA RootStep == IInv /\ RootOK /\ [Next]_vars => RootOK'
<1>. SUFFICES ASSUME IInv, RootOK, [Next]_vars PROVE RootOK'
  OBVIOUS
<1>. DEFINE root == proc[Root]
<1>0. /\ proc \in [Procs -> Processes] /\ root \in Processes /\ Root \in Procs
      /\ root.life = "alive" /\ root.pc \notin {"dup2", "execv", "run", "ran"}
      /\ root.out = "tty"
  BY ProcAssumption DEF IInv, TypeOK, RootOK, InChild
<1>. SUFFICES /\ proc'[Root].life = "alive" /\ proc'[Root].out = "tty"
              /\ proc'[Root].pc \notin {"dup2", "execv", "run", "ran"}
  BY DEF RootOK, InChild
<1>1. ASSUME NEW r \in {root, Close(root)}, NEW v, proc'[Root] = Return(r, v)
      PROVE  /\ proc'[Root].life = "alive" /\ proc'[Root].out = "tty"
             /\ proc'[Root].pc = "idle"
  BY <1>0, <1>1 DEF Return, Close, Processes
<1>2. CASE UNCHANGED vars
  BY <1>0, <1>2 DEF vars
<1>3. ASSUME NEW p \in Procs, Exit(p) \/ Killed(p)
      PROVE  proc'[Root] = root \/ proc'[Root] = [root EXCEPT !.parent = NoProc]
  BY <1>0, <1>3 DEF Exit, Killed, End
<1>4. ASSUME NEW p \in Procs \ {Root},
             Caller(p) \/ OpenFile(p) \/ Dup2(p) \/ Execv(p) \/ Output(p)
      PROVE  proc'[Root] = root
  BY <1>0, <1>4 DEF Caller, DoSystem, DoExec, OpenFile, Dup2, Execv, Output, Goto
<1>5. ASSUME NEW p \in Procs \ {Root}, Fork(p)
      PROVE  proc'[Root] = root
  <2>1. ASSUME NEW c \in Procs, proc[c].life = "none", NEW k,
               proc' = [proc EXCEPT ![p].pid = c, ![p].pc = "wait", ![c] = k]
        PROVE  proc'[Root] = root
    BY <1>0, <2>1
  <2>2. CASE proc' = [proc EXCEPT ![p] = Return(Close(proc[p]), FALSE)]
    BY <1>0, <2>2
  <2>3. \/ proc' = [proc EXCEPT ![p] = Return(Close(proc[p]), FALSE)]
        \/ \E c \in Procs :
             /\ proc[c].life = "none"
             /\ proc' = [proc EXCEPT
                  ![p].pid = c, ![p].pc = "wait",
                  ![c] = [proc[p] EXCEPT !.parent = p,
                            !.pc = IF proc[p].redirect THEN "dup2" ELSE "execv"]]
    BY <1>5, Zenon DEF Fork
  <2>. QED
    BY <2>1, <2>2, <2>3
<1>6. ASSUME DoSystem(Root) \/ OpenFile(Root)
      PROVE  \/ \E v : proc'[Root] = Return(root, v)
             \/ proc'[Root] = [root EXCEPT !.fd = TRUE, !.pc = "fork"]
  BY <1>0, <1>6 DEF DoSystem, OpenFile
<1>7. ASSUME NEW p \in Procs, Wait(p) \/ WaitFails(p)
      PROVE  proc'[Root] = root \/ \E v : proc'[Root] = Return(Close(root), v)
  <2>1. CASE p # Root
    BY <1>0, <1>7, <2>1 DEF Wait, WaitFails
  <2>2. CASE p = Root /\ WaitFails(Root)
    BY <1>0, <2>2 DEF WaitFails
  <2>3. CASE p = Root /\ Wait(Root)
    <3>1. proc[Root].pid # Root
      BY <1>0, <2>3 DEF Wait
    <3>. QED
      BY <1>0, <2>3, <3>1 DEF Wait
  <2>. QED
    BY <1>7, <2>1, <2>2, <2>3
<1>8. ASSUME Fork(Root)
      PROVE  \/ proc'[Root] = Return(Close(root), FALSE)
             \/ \E c : proc'[Root] = [root EXCEPT !.pid = c, !.pc = "wait"]
  <2>1. ASSUME NEW c \in Procs, proc[c].life = "none", NEW k,
               proc' = [proc EXCEPT ![Root].pid = c, ![Root].pc = "wait", ![c] = k]
        PROVE  proc'[Root] = [root EXCEPT !.pid = c, !.pc = "wait"]
    BY <1>0, <2>1
  <2>. QED
    BY <1>0, <1>8, <2>1 DEF Fork
<1>9. ASSUME NEW redirect, NEW absolute, DoExec(Root, redirect, absolute)
      PROVE  \/ proc'[Root] = Return(root, FALSE)
             \/ \E pc \in {"open", "fork"} :
                  proc'[Root] = [root EXCEPT !.ret = FALSE, !.redirect = redirect, !.pc = pc]
  BY <1>0, <1>9 DEF DoExec
<1>10. ~Dup2(Root) /\ ~Execv(Root) /\ ~Output(Root)
  BY <1>0 DEF Dup2, Execv, Output, At
<1>. HIDE DEF root
<1>11. \/ proc'[Root] = root
       \/ \E r \in {root, Close(root)} : \E v : proc'[Root] = Return(r, v)
       \/ proc'[Root] = [root EXCEPT !.parent = NoProc]
       \/ \E redirect : \E pc \in {"open", "fork"} :
            proc'[Root] = [root EXCEPT !.ret = FALSE, !.redirect = redirect, !.pc = pc]
       \/ proc'[Root] = [root EXCEPT !.fd = TRUE, !.pc = "fork"]
       \/ \E c : proc'[Root] = [root EXCEPT !.pid = c, !.pc = "wait"]
  <2>1. CASE UNCHANGED vars
    BY <2>1 DEF vars, root
  <2>2. ASSUME NEW p \in Procs, Exit(p) \/ Killed(p) \/ Wait(p) \/ WaitFails(p)
        PROVE  <1>11!:
    BY <1>3, <1>7, <2>2
  <2>3. ASSUME NEW p \in Procs \ {Root}, Caller(p) \/ Library(p) \/ Output(p)
        PROVE  <1>11!:
    <3>1. CASE Wait(p)
      BY <2>2, <3>1
    <3>. QED
      BY <1>4, <1>5, <2>3, <3>1 DEF Library
  <2>4. ASSUME Caller(Root) \/ Library(Root) \/ Output(Root)
        PROVE  <1>11!:
    <3>1. CASE DoSystem(Root) \/ OpenFile(Root)
      BY <1>6, <3>1
    <3>2. CASE Fork(Root)
      BY <1>8, <3>2
    <3>3. CASE Wait(Root)
      BY <1>0, <2>2, <3>3
    <3>4. CASE \E redirect, absolute \in BOOLEAN : DoExec(Root, redirect, absolute)
      BY <1>9, <3>4
    <3>. QED
      BY <1>10, <2>4, <3>1, <3>2, <3>3, <3>4 DEF Caller, Library
  <2>. QED
    BY <2>1, <2>2, <2>3, <2>4 DEF Next
<1>12. CASE \E r \in {root, Close(root)} : \E v : proc'[Root] = Return(r, v)
  BY <1>1, <1>12
<1>. QED
  BY <1>0, <1>11, <1>12 DEF Processes

(***************************************************************************)
(* "This file will be closed at completion of the function call": each of  *)
(* the paths through do_exec_redirect, in the parent and in a child that   *)
(* comes back from a failed dup2 or execv, closes fd before it returns.    *)
(* The first caller then has the file open by no other descriptor either;  *)
(* and, unless a child is left to itself, the commands that had the file   *)
(* open have ended, for only calls that wait are under way.                *)
(***************************************************************************)
THEOREM FileAlwaysClosed == Spec => []FileIsClosed
<1>1. IInv /\ RootOK => FileIsClosed
  <2>. SUFFICES ASSUME IInv, RootOK, NEW p \in Procs, At(p, "idle")
                PROVE  /\ ~proc[p].fd
                       /\ HasOpen(p) => p # Root
                       /\ lost = {} =>
                            \A q \in Procs \ {p} : HasOpen(q) => At(q, "wait")
    BY DEF FileIsClosed
  <2>1. ~proc[p].fd
    <3>1. PlaceOK(proc[p])
      BY OneProcess
    <3>. QED
      BY <3>1 DEF PlaceOK, At
  <2>2. HasOpen(p) => p # Root
    BY <2>1 DEF HasOpen, RootOK
  <2>3. ASSUME lost = {}, NEW q \in Procs \ {p}, HasOpen(q)
        PROVE  At(q, "wait")
    <3>1. Active = {p}
      BY <2>3, FileAlone DEF At
    <3>. QED
      BY <2>3, <3>1 DEF Active, HasOpen, At
  <2>. QED
    BY <2>1, <2>2, <2>3
<1>2. Init => RootOK
  BY ProcAssumption DEF Init, RootOK, NoProcess, InChild
<1>. QED
  BY <1>1, <1>2, RootStep, Invariance, PTL DEF Spec

(***************************************************************************)
(* do_exec and do_exec_redirect leave no child behind, running or zombie,  *)
(* but those left to themselves, and wait for no process but their child.  *)
(***************************************************************************)
THEOREM NoChildForgotten == Spec => []ChildrenAwaited
<1>1. IInv => ChildrenAwaited
  BY DEF IInv
<1>. QED
  BY <1>1, Invariance, PTL

(***************************************************************************)
(* The only step that takes a process from its waitpid to a true result is *)
(* the one that reaps its child.                                           *)
(***************************************************************************)
LEMMA TrueByWait ==
  ASSUME IInv, Next, NEW p \in Procs, At(p, "wait"), proc'[p].pc = "idle", proc'[p].ret
  PROVE  Wait(p)
<1>0. /\ proc[p] \in Processes /\ proc[p].life = "alive" /\ proc[p].pc = "wait"
      /\ proc \in [Procs -> Processes]
  BY OneProcess DEF At, IInv, TypeOK
<1>1. PICK q \in Procs : Caller(q) \/ Library(q) \/ WaitFails(q) \/ Output(q)
                          \/ Exit(q) \/ Killed(q)
  BY DEF Next
<1>2. CASE WaitFails(q)
  <2>1. CASE q = p
    <3>1. proc'[p] = Return(Close(proc[p]), FALSE)
      BY <1>0, <1>2, <2>1 DEF WaitFails
    <3>. QED
      BY <1>0, <3>1, CallerAt, ReturnFacts DEF Returned
  <2>2. CASE q # p
    BY <1>0, <1>2, <2>2 DEF WaitFails
  <2>. QED
    BY <2>1, <2>2
<1>3. CASE Exit(q) \/ Killed(q)
  <2>1. PICK status : End(q, status)
    BY <1>3 DEF Exit, Killed
  <2>2. \/ proc'[p] = proc[p]
        \/ proc'[p] = NoProcess
        \/ proc'[p] = [proc[p] EXCEPT !.parent = NoProc]
        \/ proc'[p] = [proc[p] EXCEPT !.life = "zombie", !.status = status]
    BY <1>0, <2>1 DEF End
  <2>3. ~NoProcess.ret
    BY DEF NoProcess
  <2>. QED
    BY <1>0, <2>2, <2>3 DEF Processes
<1>4. CASE q # p /\ (Caller(q) \/ Output(q) \/ OpenFile(q) \/ Dup2(q) \/ Execv(q))
  <2>1. proc'[p] = proc[p]
    BY <1>0, <1>4 DEF Caller, DoSystem, DoExec, Output, Goto, OpenFile, Dup2, Execv
  <2>. QED
    BY <1>0, <2>1
<1>5. CASE q # p /\ Fork(q)
  <2>1. proc'[p] = proc[p]
    BY <1>0, <1>5 DEF Fork
  <2>. QED
    BY <1>0, <2>1
<1>6. CASE q # p /\ Wait(q)
  <2>1. proc[q].pid # p
    BY <1>0, <1>6 DEF Wait
  <2>2. proc'[p] = proc[p]
    BY <1>0, <1>6, <2>1 DEF Wait
  <2>. QED
    BY <1>0, <2>2
<1>7. CASE q = p /\ (Caller(q) \/ Output(q) \/ OpenFile(q) \/ Fork(q) \/ Dup2(q)
                     \/ Execv(q))
  BY <1>0, <1>7 DEF Caller, DoSystem, DoExec, Output, OpenFile, Fork, Dup2, Execv, At
<1>. QED
  BY <1>1, <1>2, <1>3, <1>4, <1>5, <1>6, <1>7 DEF Library

(***************************************************************************)
(* A do_exec_redirect that returns true after its command has run leaves   *)
(* in outputfile the output of that command and of no other process, as    *)
(* long as no child is left to itself, whatever copies of the caller do.   *)
(***************************************************************************)
THEOREM OutputIsRedirected == Spec => RedirectedOutput
<1>1. ASSUME IInv, Next PROVE \A p \in Procs : RedirectStep(p)
  <2>. SUFFICES ASSUME NEW p \in Procs, At(p, "wait"), proc'[p].pc = "idle", proc'[p].ret,
                       proc[p].redirect, proc[proc[p].pid].image = "command", lost = {}
                PROVE  LET c == proc[p].pid
                       IN  /\ file \subseteq {c}
                           /\ proc[c].status = EXIT_SUCCESS => file = {c}
    BY DEF RedirectStep
  <2>. DEFINE c == proc[p].pid
  <2>1. c \in Procs /\ proc[c].life = "zombie" /\ PlaceOK(proc[c])
    BY <1>1, TrueByWait, OneProcess DEF Wait
  <2>2. proc[c].pc \in {"run", "ran"}
    BY <2>1 DEF PlaceOK
  <2>3. proc[c].redirect
    BY <1>1, <2>2 DEF IInv, SameCall, InChild
  <2>4. FileAt(c, proc[c], file)
    BY <1>1, <2>1, <2>2, FileAlone
  <2>5. proc[c].pc = "run" => proc[c].status # EXIT_SUCCESS
    BY <2>1 DEF PlaceOK, SIGNALLED, EXIT_SUCCESS
  <2>. QED
    BY <2>2, <2>3, <2>4, <2>5 DEF FileAt
<1>2. IInv /\ [Next]_vars => [\A p \in Procs : RedirectStep(p)]_vars
  BY <1>1
<1>. QED
  BY <1>2, Invariance, PTL DEF Spec, RedirectedOutput

==============================================================================
