----------------------------- MODULE CommandLog -----------------------------
(***************************************************************************)
(* The log of write commands that the aesdchar device offers, as values: a *)
(* sequence of at most N commands, oldest first, and the bytes of the      *)
(* command that is still incomplete.  AesdLog is the state machine over    *)
(* them; AesdSocket uses them for its view of the device.                  *)
(***************************************************************************)
EXTENDS Integers, Sequences, SequencesExt

CONSTANTS
  N,         \* commands kept
  Newline    \* the byte that ends a command

IsLine(b) == \E i \in 1..Len(b) : b[i] = Newline

(* The part of b that a write uses: up to and including the first newline. *)
FirstLine(b) ==
  CHOOSE l \in {SubSeq(b, 1, i) : i \in 0..Len(b)} :
    /\ IsLine(l) <=> IsLine(b)
    /\ IF IsLine(b) THEN ~IsLine(SubSeq(l, 1, Len(l) - 1)) ELSE l = b

(* Mutant: nothing is ever dropped.                                        *)
LastAll(s) == s

LastN(s) == IF Len(s) <= N THEN s ELSE SubSeq(s, Len(s) - N + 1, Len(s))

(* The log and the incomplete command after a write of b.                  *)
LogAfter(log, pending, b) ==
  IF IsLine(b) THEN LastN(Append(log, pending \o FirstLine(b))) ELSE log

PendingAfter(pending, b) == IF IsLine(b) THEN <<>> ELSE pending \o b

(***************************************************************************)
(* What one read at position pos returns: the rest of the command that     *)
(* holds byte pos, nothing at the end.                                     *)
(***************************************************************************)
ReadAt(log, pos) ==
  LET ends == {Len(FlattenSeq(SubSeq(log, 1, k))) : k \in 1..Len(log)}
      past == {e \in ends : e > pos}
  IN  IF past = {} THEN <<>> ELSE SubSeq(FlattenSeq(log), pos + 1, Min(past))

=============================================================================
