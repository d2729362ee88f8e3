---------------------------- MODULE MCAesdSystem ----------------------------
(***************************************************************************)
(* Values of the constants of AesdSystem for TLC.                          *)
(***************************************************************************)
EXTENDS AesdSystem, TLC

Symmetry ==
  Permutations(Structs) \union Permutations(Conns) \union Permutations(Blocks)

MCByte == {"x", "n", "k", "a", "0", "?"}

(* A line and a seek command; the seek goes to the start of a command or   *)
(* one past the ring.                                                      *)
LineOrSeek == {<<"x", "n">>, <<"k", "a">>}
MCSeekArgs == {<<0, 1>>, <<N, 0>>}
=============================================================================
