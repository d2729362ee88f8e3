---------------------------- MODULE MCAesdSocket ----------------------------
(***************************************************************************)
(* Values of the constants of AesdSocket for TLC.                          *)
(***************************************************************************)
EXTENDS AesdSocket, TLC

Symmetry == Permutations(Structs) \union Permutations(Conns)

(* A line, a part of one that never ends, and a seek command.              *)
MCPackets  == {<<"x", "n">>, <<"x">>, <<"k", "a">>}
MCStamp    == <<"t", "n">>
OneLine    == {<<"n">>}
Unfinished == {<<"x">>}
=============================================================================
