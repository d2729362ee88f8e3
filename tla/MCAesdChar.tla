----------------------------- MODULE MCAesdChar -----------------------------
(***************************************************************************)
(* Values of the constants of AesdChar for TLC.                            *)
(***************************************************************************)
EXTENDS AesdChar, TLC

(***************************************************************************)
(* Processes are alike, and so are the blocks of the allocator, which may  *)
(* hand out any free one.  No liveness property is checked with symmetry.  *)
(***************************************************************************)
Symmetry == Permutations(Procs) \union Permutations(Blocks)

MCByte == {"x", "n", "?"}

(* A part of a line, its end, and a line with a byte after it.             *)
PartOrEnd == {<<"x">>, <<"n">>}
AllShapes == {<<"x">>, <<"n">>, <<"n", "x">>}
Lines     == {<<"n">>, <<"x", "n">>}

(* Past the ring: one write_cmd that the bounds check accepts or not,      *)
(* depending on the state, and one that it never accepts.                  *)
PastTheRing == {<<N, 0>>, <<N + 1, 0>>}

(* The first byte of slot 0, the second of slot 1, and one past the ring.  *)
MCSeekArgs == {<<0, 0>>, <<1, 1>>, <<N, 0>>}

MCSeekOffsets == {-1, 0, 1}
=============================================================================
