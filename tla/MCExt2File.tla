----------------------------- MODULE MCExt2File -----------------------------
(***************************************************************************)
(* Instances of Ext2File: one direct block and two words in a block, so    *)
(* that a file of seven blocks uses every kind of index.  Data words and   *)
(* the contents of unwritten blocks are block numbers, too.                *)
(***************************************************************************)
EXTENDS Ext2File, TLC

CONSTANTS f1, f2

\* The inodes are interchangeable, and all properties are safety properties.
MCSymmetry == Permutations({f1, f2})

=============================================================================
