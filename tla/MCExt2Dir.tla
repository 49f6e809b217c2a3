------------------------------ MODULE MCExt2Dir ------------------------------
(***************************************************************************)
(* Ext2Dir with two inodes besides the root, three blocks of four units,    *)
(* a name that takes one unit and one that takes two.                      *)
(***************************************************************************)
EXTENDS Ext2Dir

CONSTANTS a, bb

MCNeeded == [n \in {a, bb, Dot, DotDot} |-> IF n = bb THEN 2 ELSE 1]
MCPath == {<<>>, <<a>>, <<bb, a>>, <<a, DotDot>>}

=============================================================================
