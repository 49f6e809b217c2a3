----------------------------- MODULE Ext2Alloc ------------------------------
(***************************************************************************)
(* The bitmap allocators of fs/ext2: balloc.c (blocks) and ialloc.c        *)
(* (inodes), which differ only in their parameters:                        *)
(*    blocks: First = s_first_data_block, End = s_blocks_count,            *)
(*    inodes: First = 1,                  End = s_inode_count + 1.         *)
(* A unit is a block or an inode.  Group g has the units First + g*PerGroup*)
(* up to End; its bitmap block has PerGroup bits, those past End set by    *)
(* mkfs.  The free count of a group is kept twice, in gb_table and, through*)
(* the block cache, in the group descriptor table, and once more summed in *)
(* the superblock.  Calls do not overlap, so each is one step.             *)
(***************************************************************************)
EXTENDS Integers, FiniteSets

CONSTANTS First, End,   \* numbers of the units: First .. End - 1
          PerGroup,     \* s_blocks_per_group or s_inodes_per_group
          NGroup,       \* group_count
          DescPerBlock, \* group descriptors in a block of the table
          Reserved      \* units mkfs gave to metadata

ASSUME FirstAssumption    == First \in {0, 1}
ASSUME PerGroupAssumption == PerGroup \in Nat \ {0}
ASSUME DescAssumption     == DescPerBlock \in Nat \ {0}
\* group_count is the number of groups rounded up: the last may be short.
ASSUME NGroupAssumption   ==
    /\ NGroup \in Nat \ {0} /\ End \in Nat
    /\ First + (NGroup - 1) * PerGroup < End
    /\ End <= First + NGroup * PerGroup
\* mkfs reserves unit 0 where it is one: the boot block.
ASSUME ReservedAssumption == Reserved \subseteq First .. (End - 1) /\ (First = 0 => 0 \in Reserved)

Group == 0 .. (NGroup - 1)
Bit   == 0 .. (PerGroup - 1)
Unit  == First .. (End - 1)
NoUnit == 0

VARIABLES bitmap,   \* bitmap[g]: the bits set in the group's bitmap block
          gbTable,  \* gb_table[g].bg_free_..._count
          gdt,      \* gdt[b][o]: the same field in the cached table blocks
          sbFree,   \* raw_sb->s_free_..._count
          owned,    \* units handed out and not freed since
          result    \* the last call: its name, argument or result

counts == <<gbTable, gdt, sbFree>>
allocVars == <<bitmap, counts, owned, result>>

(***************************************************************************)
(* Numbers to bits and back.  (X_Mut... is a mistaken variant of X that a  *)
(* mutation run puts in its place.)                                        *)
(***************************************************************************)
Base(g) == First + g * PerGroup

\* The number of units of group g, the last of which may be short.
Size_MutFull(g) == PerGroup
Size(g) == IF Base(g) + PerGroup > End THEN End - Base(g) ELSE PerGroup

GroupOf(u) == (u - First) \div PerGroup
BitOf(u)   == (u - First) % PerGroup

Zeros(g) == {k \in 0 .. (Size(g) - 1) : k \notin bitmap[g]}

\* The descriptor's place in the table blocks after the superblock.
TableBlock(g)  == g \div DescPerBlock
TableOffset(g) == g % DescPerBlock

AllocInit ==
    /\ bitmap = [g \in Group |-> {k \in Bit : k >= Size(g) \/ Base(g) + k \in Reserved}]
    /\ gbTable = [g \in Group |-> Cardinality(Zeros(g))]
    /\ gdt = [b \in 0 .. TableBlock(NGroup - 1) |-> [o \in 0 .. (DescPerBlock - 1) |->
                 IF b * DescPerBlock + o \in Group THEN gbTable[b * DescPerBlock + o] ELSE 0]]
    /\ sbFree = Cardinality(Unit \ Reserved)
    /\ owned = {}
    /\ result = [op |-> "none", unit |-> NoUnit]

(***************************************************************************)
(* The tail of every successful call: the descriptor, its copy on disk and *)
(* the superblock, with the free counts changed by d.                      *)
(***************************************************************************)
Account_MutNoCopy(g, d) ==
    /\ gbTable' = [gbTable EXCEPT ![g] = @ + d]
    /\ sbFree' = sbFree + d
    /\ UNCHANGED gdt
Account(g, d) ==
    /\ gbTable' = [gbTable EXCEPT ![g] = @ + d]
    /\ gdt' = [gdt EXCEPT ![TableBlock(g)][TableOffset(g)] = gbTable'[g]]
    /\ sbFree' = sbFree + d

(***************************************************************************)
(* ext2_alloc_block, ext2_alloc_inode                                      *)
(***************************************************************************)
\* A group is skipped if its count is 0, or if its bitmap has no zero after all.
Usable_MutCountOnly(g) == gbTable[g] > 1 /\ Zeros(g) # {}
Usable(g) == gbTable[g] # 0 /\ Zeros(g) # {}

Mark(g, k) == bitmap' = [bitmap EXCEPT ![g] = @ \cup {k}]

Alloc(g, k) ==
    /\ Usable(g) /\ \A f \in Group : f < g => ~Usable(f)
    /\ k \in Zeros(g) /\ \A j \in Zeros(g) : k <= j
    /\ Mark(g, k)
    /\ Account(g, -1)
    /\ owned' = owned \cup {Base(g) + k}
    /\ result' = [op |-> "alloc", unit |-> Base(g) + k]

AllocFails ==
    /\ \A g \in Group : ~Usable(g)
    /\ result' = [op |-> "alloc", unit |-> NoUnit]
    /\ UNCHANGED <<bitmap, counts, owned>>

(***************************************************************************)
(* ext2_free_block, ext2_free_inode                                        *)
(***************************************************************************)
Ignored(u) == u = 0 \/ u < First \/ GroupOf(u) >= NGroup

Free(u) ==
    /\ ~Ignored(u)
    /\ bitmap' = [bitmap EXCEPT ![GroupOf(u)] = @ \ {BitOf(u)}]
    /\ Account(GroupOf(u), 1)
    /\ owned' = owned \ {u}
    /\ result' = [op |-> "free", unit |-> u]

FreeIgnored(u) ==
    /\ Ignored(u)
    /\ result' = [op |-> "free", unit |-> u]
    /\ UNCHANGED <<bitmap, counts, owned>>

\* ext2_truncate_inode, ext2_create, ... free what they were given, and pass on
\* the 0 of an empty block pointer.
AllocNext ==
    \/ \E g \in Group, k \in Bit : Alloc(g, k)
    \/ AllocFails
    \/ \E u \in owned : Free(u)
    \/ \E u \in {NoUnit, Base(NGroup)} : FreeIgnored(u)

AllocSpec == AllocInit /\ [][AllocNext]_allocVars

(***************************************************************************)
(* Properties                                                              *)
(***************************************************************************)
\* The type invariant of the allocator.
AllocTypeOK ==
    /\ bitmap \in [Group -> SUBSET Bit]
    /\ gbTable \in [Group -> 0 .. PerGroup]
    /\ sbFree \in 0 .. (End - First)
    /\ owned \subseteq Unit
    /\ result \in [op : {"none", "alloc", "free"}, unit : Nat]

\* The three copies of the free counts agree with the bitmap, whatever sequence of
\* calls went before: gb_table, so that a non-zero count always finds a bit and no
\* free unit hides behind a zero; the descriptor's place in the cached table blocks,
\* where nothing else changes; and the sum in the superblock.
CountsMatchBitmap ==
    /\ \A g \in Group : gbTable[g] = Cardinality(Zeros(g))
    /\ \A b \in DOMAIN gdt : \A o \in DOMAIN gdt[b] :
          gdt[b][o] = IF b * DescPerBlock + o \in Group
                      THEN gbTable[b * DescPerBlock + o] ELSE 0
    /\ sbFree = Cardinality(Unit \ (Reserved \cup owned))

\* A bit is set exactly for metadata, units handed out and the padding behind the
\* end.
BitmapMatchesOwners ==
    \A g \in Group, k \in Bit :
        k \in bitmap[g] <=> k >= Size(g) \/ Base(g) + k \in Reserved \cup owned

\* All records of one fact, who owns what, agree after every sequence of calls: no
\* unit is handed out twice, none is lost when it is freed, and no copy of a count
\* drifts from the bitmap.
RecordsAgree == CountsMatchBitmap /\ BitmapMatchesOwners

\* An allocation fails only when every unit is taken, and otherwise hands out the
\* lowest free one.
FirstFit ==
    [][result'.op = "alloc" /\ result' # result =>
          LET free == Unit \ (Reserved \cup owned)
          IN  IF free = {} THEN result'.unit = NoUnit
              ELSE result'.unit \in free /\ \A u \in free : result'.unit <= u]_allocVars

=============================================================================
