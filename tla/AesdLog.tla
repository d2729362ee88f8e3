------------------------------ MODULE AesdLog -------------------------------
(***************************************************************************)
(* What the aesdchar device promises its writers, without a ring, a heap   *)
(* or a mutex: a write either takes effect once, in one step between its   *)
(* call and its return, and succeeds, or takes no effect and fails.        *)
(***************************************************************************)
EXTENDS CommandLog

CONSTANTS
  Procs,     \* processes that write
  UserBufs   \* buffers user space writes

VARIABLES
  log,       \* the commands, oldest first
  pending,   \* the bytes written since the last newline
  request    \* the write of each process

logVars == <<log, pending, request>>

NoRequest == [status |-> "none", data |-> <<>>]
Called(b) == [status |-> "called", data |-> b]
Succeeded == [status |-> "succeeded", data |-> <<>>]
Failed    == [status |-> "failed", data |-> <<>>]

LogInit ==
  /\ log = <<>>
  /\ pending = <<>>
  /\ request = [p \in Procs |-> NoRequest]

Begin(p, b) ==
  /\ request[p] = NoRequest
  /\ request' = [request EXCEPT ![p] = Called(b)]
  /\ UNCHANGED <<log, pending>>

Apply(p) ==
  /\ request[p].status = "called"
  /\ request' = [request EXCEPT ![p] = Succeeded]
  /\ log' = LogAfter(log, pending, request[p].data)
  /\ pending' = PendingAfter(pending, request[p].data)

(* A write may fail at its call or later, without effect.                  *)
Fail(p) ==
  /\ request[p].status \in {"none", "called"}
  /\ request' = [request EXCEPT ![p] = Failed]
  /\ UNCHANGED <<log, pending>>

End(p) ==
  /\ request[p].status \in {"succeeded", "failed"}
  /\ request' = [request EXCEPT ![p] = NoRequest]
  /\ UNCHANGED <<log, pending>>

(* The module is unloaded: the device forgets everything.                  *)
Forget ==
  /\ log' = <<>>
  /\ pending' = <<>>
  /\ UNCHANGED request

LogNext ==
  \/ \E p \in Procs :
       \/ \E b \in UserBufs : Begin(p, b)
       \/ Apply(p) \/ Fail(p) \/ End(p)
  \/ Forget

LogSpec == LogInit /\ [][LogNext]_logVars

=============================================================================
