----------------------------- MODULE MCExt2Meta -----------------------------
(***************************************************************************)
(* The metadata of the file system: the instance MCExt2Dir of Ext2Dir, and *)
(* beside it Ext2Alloc, with which it shares no state (Ext2MetaProofs has  *)
(* what Ext2Dir takes from it).  One of them moves while the other is in   *)
(* its initial state.                                                      *)
(*                                                                         *)
(* Ext2Alloc has numbers that start at 1, as inodes do and the blocks of a *)
(* device with blocks of 1 KiB, three groups the last of which is short,   *)
(* and table blocks of two descriptors.                                    *)
(***************************************************************************)
EXTENDS MCExt2Dir, Ext2Alloc

\* Metadata in the first group and in a later one.
Metadata == {1, 4}

MetaInit == Init /\ AllocInit
MetaNext ==
    \/ Next /\ AllocInit /\ UNCHANGED allocVars
    \/ AllocNext /\ Init /\ UNCHANGED vars
MetaSpec == MetaInit /\ [][MetaNext]_<<vars, allocVars>>

=============================================================================
