---------------------------- MODULE SystemCalls ----------------------------
(***************************************************************************)
(* examples/systemcalls/systemcalls.c: do_system, do_exec and              *)
(* do_exec_redirect, called by a program that runs in the process Root.    *)
(*                                                                         *)
(* fork makes a copy of the calling process, place in the code included.   *)
(* A copy whose execv (or dup2) fails returns from the function like its   *)
(* parent and goes on in the caller's program; so any number of processes  *)
(* may be in the caller's program, and each may call the functions again.  *)
(***************************************************************************)
EXTENDS Integers, FiniteSets

CONSTANTS
  Procs,   \* process identifiers; fork fails when all are in use
  Root,    \* the process that starts out in the caller's program
  NoProc,  \* no process
  Faults   \* system calls that may fail, and "kill": signals that end a process

ASSUME ProcAssumption == Root \in Procs /\ NoProc \notin Procs

VARIABLES
  proc,    \* the processes
  file,    \* outputfile: the processes that wrote to it since it was truncated
  lost     \* history: processes nobody waits for any more

vars == <<proc, file, lost>>

(***************************************************************************)
(* A process.  image is the program it runs, pc its place in the library   *)
(* or the command, "idle" in the caller's own code; fd says whether the    *)
(* descriptor of outputfile is open, out where descriptor 1 leads.         *)
(***************************************************************************)
NoProcess ==
  [life |-> "none", image |-> "caller", parent |-> NoProc, pc |-> "idle",
   redirect |-> FALSE, pid |-> NoProc, fd |-> FALSE, out |-> "tty",
   status |-> 0, ret |-> FALSE]

EXIT_SUCCESS == 0
EXIT_FAILURE == 1
SIGNALLED    == -1

May(fault) == fault \in Faults

At(p, label) == proc[p].life = "alive" /\ proc[p].pc = label

Goto(p, label) == proc' = [proc EXCEPT ![p].pc = label]

(* close(fd), which only do_exec_redirect has to call.                     *)
Close(r) == [r EXCEPT !.fd = @ /\ ~r.redirect]

(* A process after its call has returned v.                                *)
Return(r, v) ==
  [r EXCEPT !.pc = "idle", !.ret = v, !.pid = NoProc, !.redirect = FALSE]

-----------------------------------------------------------------------------
(* do_system: true whatever the command's status, unless system gives -1.  *)
DoSystem(p) ==
  /\ At(p, "idle") /\ proc[p].image = "caller"
  /\ \/ proc' = [proc EXCEPT ![p] = Return(@, TRUE)]
     \/ May("system") /\ proc' = [proc EXCEPT ![p] = Return(@, FALSE)]
  /\ UNCHANGED <<file, lost>>

(* do_exec or do_exec_redirect is called; a relative path is refused.      *)
DoExec(p, redirect, absolute) ==
  /\ At(p, "idle") /\ proc[p].image = "caller"
  /\ proc' = [proc EXCEPT ![p] =
                IF ~absolute THEN Return(@, FALSE)
                ELSE [@ EXCEPT !.ret = FALSE, !.redirect = redirect,
                               !.pc = IF redirect THEN "open" ELSE "fork"]]
  /\ UNCHANGED <<file, lost>>

(* Mutant: outputfile is opened without O_TRUNC.                           *)
OpenWithoutTrunc(p) ==
  /\ At(p, "open")
  /\ proc' = [proc EXCEPT ![p].fd = TRUE, ![p].pc = "fork"]
  /\ UNCHANGED <<file, lost>>

OpenFile(p) ==
  /\ At(p, "open")
  /\ \/ /\ proc' = [proc EXCEPT ![p].fd = TRUE, ![p].pc = "fork"]
        /\ file' = {}
     \/ /\ May("open")
        /\ proc' = [proc EXCEPT ![p] = Return(@, FALSE)]
        /\ UNCHANGED file
  /\ UNCHANGED lost

Fork(p) ==
  LET free == {c \in Procs : proc[c].life = "none"}
  IN  /\ At(p, "fork")
      /\ \/ \E c \in free :
              proc' = [proc EXCEPT
                ![p].pid = c, ![p].pc = "wait",
                ![c] = [proc[p] EXCEPT !.parent = p,
                          !.pc = IF proc[p].redirect THEN "dup2" ELSE "execv"]]
         \/ /\ May("fork") \/ free = {}
            /\ proc' = [proc EXCEPT ![p] = Return(Close(@), FALSE)]
      /\ UNCHANGED <<file, lost>>

(* Mutant: the descriptor stays open when dup2 fails.                      *)
Dup2WithoutClose(c) ==
  /\ At(c, "dup2")
  /\ \/ proc' = [proc EXCEPT ![c].out = "file", ![c].pc = "execv"]
     \/ May("dup2") /\ proc' = [proc EXCEPT ![c] = Return(@, FALSE)]
  /\ UNCHANGED <<file, lost>>

(* The child redirects its standard output; on failure it returns.         *)
Dup2(c) ==
  /\ At(c, "dup2")
  /\ \/ proc' = [proc EXCEPT ![c].out = "file", ![c].pc = "execv"]
     \/ May("dup2") /\ proc' = [proc EXCEPT ![c] = Return(Close(@), FALSE)]
  /\ UNCHANGED <<file, lost>>

(* The child becomes the command, or returns false to the caller's code;   *)
(* close(fd) leaves descriptor 1 where dup2 has put it.                    *)
Execv(c) ==
  /\ At(c, "execv")
  /\ \/ proc' = [proc EXCEPT ![c].image = "command", ![c].pc = "run"]
     \/ May("execv") /\ proc' = [proc EXCEPT ![c] = Return(Close(@), FALSE)]
  /\ UNCHANGED <<file, lost>>

(* Mutant: waitpid is called with WNOHANG.                                 *)
WaitNoHang(p) ==
  /\ At(p, "wait")
  /\ proc' = [proc EXCEPT ![p] = Return(Close(@), TRUE)]
  /\ UNCHANGED <<file, lost>>

(* Mutant: waitpid is asked again and again for another process.           *)
WaitForOther(p) == At(p, "wait") /\ UNCHANGED vars

(* The parent blocks in waitpid until its child has ended.                 *)
Wait(p) ==
  LET c == proc[p].pid
  IN  /\ At(p, "wait")
      /\ proc[c].life = "zombie"
      /\ proc' = [proc EXCEPT ![p] = Return(Close(@), proc[c].status # EXIT_FAILURE),
                              ![c] = NoProcess]
      /\ UNCHANGED <<file, lost>>

(* A signal interrupts waitpid, say: the child is left to itself.          *)
WaitFails(p) ==
  /\ At(p, "wait")
  /\ May("waitpid")
  /\ proc' = [proc EXCEPT ![p] = Return(Close(@), FALSE)]
  /\ lost' = lost \union {proc[p].pid}
  /\ UNCHANGED file

-----------------------------------------------------------------------------
(***************************************************************************)
(* The programs around the library.  A command writes to its standard      *)
(* output and exits; a copy of the caller exits when its program ends.     *)
(***************************************************************************)

Output(c) ==
  /\ At(c, "run")
  /\ Goto(c, "ran")
  /\ file' = IF proc[c].out = "file" THEN file \union {c} ELSE file
  /\ UNCHANGED lost

Children(p) == {c \in Procs : proc[c].life # "none" /\ proc[c].parent = p}

(***************************************************************************)
(* c ends.  Its children go to init, which reaps them, as it does c when   *)
(* its parent is gone.                                                     *)
(***************************************************************************)
End(c, status) ==
  LET orphan(q) == proc[q].parent = c
  IN  /\ c # Root
      /\ proc' = [q \in Procs |->
           IF q = c THEN IF proc[c].parent = NoProc THEN NoProcess
                         ELSE [proc[c] EXCEPT !.life = "zombie", !.status = status]
           ELSE IF orphan(q) THEN IF proc[q].life = "zombie" THEN NoProcess
                                  ELSE [proc[q] EXCEPT !.parent = NoProc]
           ELSE proc[q]]
      /\ lost' = lost \union Children(c)
      /\ UNCHANGED file

(* Mutant: the status of waitpid is used without WEXITSTATUS.              *)
ExitRawStatus(c) ==
  /\ At(c, "ran") \/ At(c, "idle")
  /\ \E status \in {EXIT_SUCCESS, 256 * EXIT_FAILURE} : End(c, status)

Exit(c) ==
  /\ At(c, "ran") \/ At(c, "idle")
  /\ \E status \in {EXIT_SUCCESS, EXIT_FAILURE} : End(c, status)

(* A signal ends a command, or a copy of the caller wherever it is.        *)
Killed(c) ==
  /\ May("kill")
  /\ proc[c].life = "alive"
  /\ End(c, SIGNALLED)

-----------------------------------------------------------------------------
Init ==
  /\ proc = [p \in Procs |->
               IF p = Root THEN [NoProcess EXCEPT !.life = "alive"] ELSE NoProcess]
  /\ file = {}
  /\ lost = {}

Library(p) ==
  OpenFile(p) \/ Fork(p) \/ Dup2(p) \/ Execv(p) \/ Wait(p)

Caller(p) ==
  DoSystem(p) \/ \E redirect, absolute \in BOOLEAN : DoExec(p, redirect, absolute)

Next ==
  \E p \in Procs :
    Caller(p) \/ Library(p) \/ WaitFails(p) \/ Output(p) \/ Exit(p) \/ Killed(p)

Spec == Init /\ [][Next]_vars

(***************************************************************************)
(* Processes in the library and commands keep running, and every program   *)
(* ends: a copy of the caller that keeps coming back to its own code exits *)
(* at last.  Nobody has to call the library, and no waitpid has to fail.   *)
(***************************************************************************)
FairSpec ==
  /\ Spec
  /\ \A p \in Procs : WF_vars(Library(p) \/ Output(p)) /\ SF_vars(Exit(p))

-----------------------------------------------------------------------------
Processes ==
  [life : {"none", "alive", "zombie"}, image : {"caller", "command"},
   parent : Procs \union {NoProc}, pid : Procs \union {NoProc},
   pc : {"idle", "open", "fork", "dup2", "execv", "wait", "run", "ran"},
   redirect : BOOLEAN, fd : BOOLEAN, out : {"tty", "file"},
   status : {EXIT_SUCCESS, EXIT_FAILURE, SIGNALLED}, ret : BOOLEAN]

(* Type invariant of the processes and of outputfile.                      *)
TypeOK ==
  /\ proc \in [Procs -> Processes]
  /\ file \subseteq Procs
  /\ lost \subseteq Procs

(* The process has outputfile open, as fd or as its standard output.       *)
HasOpen(p) ==
  proc[p].life = "alive" /\ (proc[p].fd \/ proc[p].out = "file")

(***************************************************************************)
(* "This file will be closed at completion of the function call": whatever *)
(* path a call takes, in parent or child, no process is back in the        *)
(* caller's program with fd open, and the one that made the first call     *)
(* does not have the file open at all.  Unless a child has been left to    *)
(* itself, nobody else has it open by then, neither the command nor what a *)
(* copy of the caller has started, but calls that still wait.  A copy      *)
(* whose execv failed is the exception: its descriptor 1 stays the file.   *)
(***************************************************************************)
FileIsClosed ==
  \A p \in Procs : At(p, "idle") =>
    /\ ~proc[p].fd
    /\ HasOpen(p) => p # Root
    /\ lost = {} => \A q \in Procs \ {p} : HasOpen(q) => At(q, "wait")

(***************************************************************************)
(* A process has no child, running or zombie, but the one it waits for and *)
(* those left to themselves; and that child is its own.                    *)
(***************************************************************************)
ChildrenAwaited ==
  \A p \in Procs : proc[p].life = "alive" =>
    /\ proc[p].pc = "wait" => proc[p].pid \in Children(p)
    /\ Children(p) \subseteq lost \union {proc[p].pid}

(***************************************************************************)
(* When do_exec_redirect returns true after its command has run, and no    *)
(* child was left to itself, outputfile holds the output of that command   *)
(* alone, although copies of the caller may use the same file.             *)
(***************************************************************************)
RedirectStep(p) ==
  LET c == proc[p].pid
  IN  (/\ At(p, "wait") /\ proc'[p].pc = "idle" /\ proc'[p].ret
       /\ proc[p].redirect /\ proc[c].image = "command" /\ lost = {}) =>
        /\ file \subseteq {c}
        /\ proc[c].status = EXIT_SUCCESS => file = {c}
RedirectedOutput == [][\A p \in Procs : RedirectStep(p)]_vars

(***************************************************************************)
(* The inductive invariant behind the properties above.                    *)
(*   Family : a process that is not reaped has a parent that lives, or     *)
(*            none, and only a process that waits has a pid to wait for;   *)
(*   PlaceOK: what is known of a process at each place in its code;        *)
(*   Orphans: a process that ended while it waited has left its child;     *)
(*   Alone  : as long as no child is left to itself, at most one process   *)
(*            does not wait, so that nobody else writes outputfile from    *)
(*            the open to the end of the command.                          *)
(***************************************************************************)
Family ==
  \A p \in Procs :
    LET q == proc[p].parent
    IN  /\ q # p
        /\ proc[p].life # "none" /\ q # NoProc => proc[q].life = "alive"
        /\ proc[p].life = "alive" /\ proc[p].pc # "wait" => proc[p].pid = NoProc

PlaceOK(r) ==
  /\ r.image = "command" <=> r.pc \in {"run", "ran"}
  /\ r.fd => r.redirect /\ r.pc \notin {"idle", "open"}
  /\ r.life = "zombie" /\ r.pc = "run" => r.status = SIGNALLED
  /\ r.pc \in {"open", "dup2"} => r.redirect

InChild == {"dup2", "execv", "run", "ran"}

SameCall ==
  \A p \in Procs :
    LET c == proc[proc[p].pid]
    IN  At(p, "wait") /\ c.pc \in InChild => c.redirect = proc[p].redirect

(* Root is nobody's child.                                                 *)
RootOK ==
  /\ proc[Root].life = "alive"
  /\ proc[Root].pc \notin InChild
  /\ proc[Root].out = "tty"

FileAt(p, r, f) ==
  r.redirect =>
    /\ r.pc \in {"fork", "dup2", "execv", "run"} => f = {}
    /\ r.pc \in {"execv", "run"} => r.out = "file"
    /\ r.pc = "ran" => f = {p}

Orphans ==
  \A p \in Procs : proc[p].life = "zombie" /\ proc[p].pc = "wait" => lost # {}

Active == {p \in Procs : proc[p].life # "none" /\ proc[p].pc # "wait"}

Alone ==
  lost = {} => \A p \in Active : FileAt(p, proc[p], file) /\ Active = {p}

IInv ==
  /\ TypeOK /\ ChildrenAwaited
  /\ Family /\ (\A p \in Procs : PlaceOK(proc[p])) /\ SameCall /\ Orphans /\ Alone

(***************************************************************************)
(* Every call returns, in whichever process made it, provided that the     *)
(* programs it runs end: no process waits for a child that is not there.   *)
(***************************************************************************)
ExecReturns == \A p \in Procs : At(p, "wait") ~> ~At(p, "wait")

-----------------------------------------------------------------------------
(***************************************************************************)
(* What a comment promises and the code does not do; the run exec_child    *)
(* finds a counterexample.                                                 *)
(***************************************************************************)

(***************************************************************************)
(* The comment of do_exec promises false for an error in execv.  The copy  *)
(* goes on with the caller's program, and its parent takes the exit of     *)
(* that program for the command's.                                         *)
(***************************************************************************)
TrueStep(p) ==
  (At(p, "wait") /\ proc'[p].pc = "idle" /\ proc'[p].ret) =>
    proc[proc[p].pid].image = "command"
TrueMeansExecuted == [][\A p \in Procs : TrueStep(p)]_vars

============================================================================
