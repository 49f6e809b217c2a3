------------------------------ MODULE Ext2File ------------------------------
(***************************************************************************)
(* The contents of files in fs/ext2: the block map (ext2_read_block,       *)
(* ext2_write_block), ext2_file_read and ext2_file_write on top of it,     *)
(* ext2_write_inode, and ext2_truncate_inode with ext2_free_branch.        *)
(*                                                                         *)
(* A block is P = block_size / 4 words, and a word is file data or a block *)
(* number: a block does not say which.  Offsets and lengths are in words.  *)
(* Blocks are read and written through the block cache, which BlkCache     *)
(* shows to be a plain array of blocks; ext2_alloc_block is what Ext2Alloc *)
(* shows: the lowest free block, or 0.  Calls do not overlap (one hart,    *)
(* interrupts off), so each is one step.                                   *)
(***************************************************************************)
EXTENDS Integers, Sequences, FiniteSets

CONSTANTS NBLK,     \* data blocks, numbered 1 .. NBLK
          NDIR,     \* EXT2_NDIR_BLOCKS
          P,        \* block_size / 4
          File,     \* inodes
          Data,     \* words written by callers
          Stale,    \* what the words of a block hold that was never written
          Offset, Length   \* arguments of the calls

ASSUME SizeAssumption ==
    /\ NBLK \in Nat /\ NDIR \in Nat \ {0} /\ P \in Nat \ {0}
ASSUME DataAssumption == Data \subseteq Nat /\ Stale \in Nat
ASSUME CallAssumption == Offset \subseteq Nat /\ Length \subseteq Nat \ {0}

Blk   == 1 .. NBLK
Index == 0 .. (P - 1)
IND   == NDIR                   \* EXT2_IND_BLOCK, ..._DIND_BLOCK, ..._TIND_BLOCK
DIND  == NDIR + 1
TIND  == NDIR + 2
MaxBlocks == NDIR + P + P * P
MaxLen    == MaxBlocks * P
Zeros == [k \in Index |-> 0]

VARIABLES free,     \* blocks whose bit in the bitmap is clear
          block,    \* block[b][k]: word k of block b
          iblock,   \* iblock[f]: i_block of the inode in memory
          size,     \* its size
          dirty,    \* its dirty flag
          raw,      \* raw[f]: the inode on disk
          last      \* the result of the last call

vars == <<free, block, iblock, size, dirty, raw, last>>

NoBlocks == [k \in 0 .. TIND |-> 0]

Init ==
    /\ free = Blk
    /\ block = [b \in Blk |-> [k \in Index |-> Stale]]
    /\ iblock = [f \in File |-> NoBlocks]
    /\ size = [f \in File |-> 0]
    /\ dirty = [f \in File |-> FALSE]
    /\ raw = [f \in File |-> [iblock |-> NoBlocks, size |-> 0]]
    /\ last = <<>>

(***************************************************************************)
(* The state as a record, for helpers that change it; at is the block the  *)
(* walk along the map has reached, total the words written.                *)
(* (X_Mut... is a mistaken variant of X that a mutation run puts in its    *)
(* place.)                                                                 *)
(***************************************************************************)
Root    == -1       \* at the inode itself
NoSpace == -2       \* ext2_alloc_block returned 0

FS == [free |-> free, block |-> block, iblock |-> iblock, size |-> size,
       dirty |-> dirty, raw |-> raw, at |-> Root, total |-> 0]

Becomes(m) ==
    /\ free' = m.free /\ block' = m.block /\ iblock' = m.iblock
    /\ size' = m.size /\ dirty' = m.dirty /\ raw' = m.raw

\* The slots to follow from the inode to logical block lbk.
Path(lbk) ==
    LET k == lbk - NDIR
        j == k - P
    IN  IF lbk < NDIR THEN <<lbk>>
        ELSE IF k < P THEN <<IND, k>>
        ELSE <<DIND, j \div P, j % P>>

Ptr(m, f, at, k) == IF at = Root THEN m.iblock[f][k] ELSE m.block[at][k]

\* The block that holds logical block lbk of f, 0 for a hole.
Lookup(m, f, lbk) ==
    LET path == Path(lbk)
        at[i \in 0 .. Len(path)] ==
            IF i = 0 THEN Root
            ELSE LET b == at[i - 1] IN IF b = 0 THEN 0 ELSE Ptr(m, f, b, path[i])
    IN  at[Len(path)]

\* ext2_read_block.  It fails for the logical blocks of the triple index only.
Mapped(lbk) == lbk < MaxBlocks
ext2_read_block(m, f, lbk) ==
    LET b == Lookup(m, f, lbk) IN IF b = 0 THEN Zeros ELSE m.block[b]

\* A new block nb in slot k of m.at; a new index block is cleared.
Cleared(m, nb, isIndex) == IF isIndex THEN [m.block EXCEPT ![nb] = Zeros] ELSE m.block

Attach(m, f, k, nb, isIndex) ==
    LET c == [m EXCEPT !.free = @ \ {nb}, !.block = Cleared(m, nb, isIndex), !.at = nb]
    IN  IF m.at = Root
        THEN [c EXCEPT !.iblock[f][k] = nb, !.dirty[f] = TRUE]
        ELSE [c EXCEPT !.block[m.at][k] = nb]

Lowest(S) == CHOOSE b \in S : \A c \in S : b <= c

\* One level down: follow the slot, filling it first if it is empty.
Descend(m, f, k, isIndex) ==
    IF m.at = NoSpace THEN m
    ELSE IF Ptr(m, f, m.at, k) # 0 THEN [m EXCEPT !.at = Ptr(m, f, m.at, k)]
    ELSE IF m.free = {} THEN [m EXCEPT !.at = NoSpace]
    ELSE Attach(m, f, k, Lowest(m.free), isIndex)

\* ext2_write_block; at = NoSpace is its -1.
ext2_write_block(m, f, lbk, buf) ==
    LET path == Path(lbk)
        walk[i \in 0 .. Len(path)] ==
            IF i = 0 THEN [m EXCEPT !.at = Root]
            ELSE Descend(walk[i - 1], f, path[i], i < Len(path))
        down == walk[Len(path)]
    IN  IF down.at = NoSpace THEN down ELSE [down EXCEPT !.block[down.at] = buf]

\* ext2_write_inode.  (i_blocks, which nothing reads, is left out.)
ext2_write_inode(m, f) ==
    [m EXCEPT !.raw[f] = [iblock |-> m.iblock[f], size |-> m.size[f]],
              !.dirty[f] = FALSE]

(***************************************************************************)
(* ext2_file_read                                                          *)
(***************************************************************************)
ReadLen(f, off, len) ==
    IF off >= size[f] THEN 0 ELSE IF off + len > size[f] THEN size[f] - off ELSE len

FileRead(f, off, len) ==
    /\ last' = [i \in 1 .. ReadLen(f, off, len) |->
                  ext2_read_block(FS, f, (off + i - 1) \div P)[(off + i - 1) % P]]
    /\ UNCHANGED <<free, block, iblock, size, dirty, raw>>

(***************************************************************************)
(* ext2_file_write of len words d: read, modify and write back one logical *)
(* block after the other; the first that fails ends the call.              *)
(***************************************************************************)
Old_MutZero(m, f, lbk) == Zeros
Old(m, f, lbk) == ext2_read_block(m, f, lbk)

WriteChunk(m, f, lbk, off, len, d) ==
    IF m.at = NoSpace THEN m
    ELSE IF ~Mapped(lbk) THEN [m EXCEPT !.at = NoSpace]
    ELSE LET inside == {k \in Index : lbk * P + k >= off /\ lbk * P + k < off + len}
             buf == [k \in Index |-> IF k \in inside THEN d ELSE Old(m, f, lbk)[k]]
             w == ext2_write_block(m, f, lbk, buf)
         IN  IF w.at = NoSpace THEN w ELSE [w EXCEPT !.total = @ + Cardinality(inside)]

Finish(m, f, end) ==
    LET grown == IF end > m.size[f] THEN [m EXCEPT !.size[f] = end, !.dirty[f] = TRUE] ELSE m
    IN  IF grown.dirty[f] THEN ext2_write_inode(grown, f) ELSE grown

FileWrite(f, off, len, d) ==
    LET first == off \div P
        n == (off + len - 1) \div P - first + 1
        loop[i \in 0 .. n] ==
            IF i = 0 THEN FS ELSE WriteChunk(loop[i - 1], f, first + i - 1, off, len, d)
        m == loop[n]
    IN  /\ Becomes(IF m.at = NoSpace THEN m ELSE Finish(m, f, off + len))
        /\ last' = IF m.total > 0 THEN <<m.total>> ELSE <<-1>>

(***************************************************************************)
(* iput of the last reference, and ext2_iget when the inode is used again: *)
(* the inode in memory is written back if dirty and read anew.             *)
(***************************************************************************)
Reload(f) ==
    LET m == IF dirty[f] THEN ext2_write_inode(FS, f) ELSE FS
    IN  Becomes([m EXCEPT !.iblock[f] = m.raw[f].iblock, !.size[f] = m.raw[f].size,
                          !.dirty[f] = FALSE])
        /\ UNCHANGED last

(***************************************************************************)
(* iput of an unlinked file: ext2_truncate_inode frees every block of the  *)
(* tree.  ext2_create finds the same empty inode when the number is reused.*)
(***************************************************************************)
Children(S) == {block[b][k] : b \in S, k \in Index} \ {0}
Top(f, K) == {iblock[f][k] : k \in K} \ {0}

Branch_MutTopOnly(S, level) == S
Branch(S, level) ==
    LET s1 == IF level > 0 THEN Children(S) ELSE {}
        s2 == IF level > 1 THEN Children(s1) ELSE {}
        s3 == IF level > 2 THEN Children(s2) ELSE {}
    IN  S \cup s1 \cup s2 \cup s3

Tree(f) ==
    Top(f, 0 .. (NDIR - 1)) \cup Branch(Top(f, {IND}), 1)
        \cup Branch(Top(f, {DIND}), 2) \cup Branch(Top(f, {TIND}), 3)

\* A slot of 0 is skipped.
Freed_MutZero(f) == Tree(f) \cup {iblock[f][k] : k \in 0 .. TIND}
Freed(f) == Tree(f)

Truncate(f) ==
    /\ Becomes(ext2_write_inode([FS EXCEPT !.free = @ \cup Freed(f), !.iblock[f] = NoBlocks,
                                           !.size[f] = 0, !.dirty[f] = TRUE], f))
    /\ UNCHANGED last

Next ==
    \E f \in File :
        \/ \E off \in Offset, len \in Length :
              \/ FileRead(f, off, len)
              \/ \E d \in Data : FileWrite(f, off, len, d)
        \/ Reload(f)
        \/ Truncate(f)

Spec == Init /\ [][Next]_vars

(***************************************************************************)
(* Properties                                                              *)
(***************************************************************************)
\* The type invariant of blocks and inodes.
TypeOK ==
    /\ free \subseteq Blk
    /\ block \in [Blk -> [Index -> Nat]]
    /\ iblock \in [File -> [0 .. TIND -> Blk \cup {0}]]
    /\ size \in [File -> 0 .. MaxLen]
    /\ dirty \in [File -> BOOLEAN]
    /\ raw \in [File -> [iblock : [0 .. TIND -> Blk \cup {0}], size : 0 .. MaxLen]]

\* The index blocks of f.
Indexes(f) ==
    Top(f, {IND, DIND}) \cup Children(Top(f, {DIND}))

\* Every block is free or named by exactly one slot of one file's tree: writing a
\* file never reaches a block of another, and no block is lost, also when a call
\* runs out of space between an index block and the block below it.
OneOwner ==
    /\ \A b \in Blk :
          Cardinality({s \in File \X (0 .. TIND) : iblock[s[1]][s[2]] = b})
          + Cardinality({s \in (UNION {Indexes(f) : f \in File}) \X Index : block[s[1]][s[2]] = b})
          = (IF b \in free THEN 0 ELSE 1)
    /\ \A f \in File : Tree(f) \subseteq Blk

\* The words of every file as the block map has them, those behind its end included.
Contents ==
    [f \in File |-> [p \in 0 .. (MaxLen - 1) |-> ext2_read_block(FS, f, p \div P)[p % P]]]

Files == INSTANCE FileStore WITH content <- Contents, Word <- Data

\* The one step that is none of a file store's: a write that ends early behind the
\* end reports n words and leaves the size, so that the words cannot be read.
ShortWrite(f, off, ws, n) ==
    /\ 0 < n /\ n < Len(ws) /\ size[f] < off + n /\ off + n <= MaxLen
    /\ last' = <<n>> /\ size' = size /\ Files!Stored(f, off, ws, n)

ShortWrites ==
    \E f \in File, off \in Offset, len \in Length, d \in Data : \E n \in 1 .. len :
        ShortWrite(f, off, [k \in 1 .. len |-> d], n)

\* A file is an array of words with holes of zeros, whatever way its blocks are
\* reached, allocated, freed and reused: file_read returns what file_write stored,
\* unless the write ended early behind the end of the file.
ImplementsFileStore == Files!Init /\ [][Files!Next \/ ShortWrites]_(Files!vars)

\* dir.c:385 and 394: a write past the end moves the end, and the result is the number
\* of bytes written. What a write reports as written lies within the file.
WrittenIsInFile ==
    [][\A f \in File, off \in Offset, len \in Length, d \in Data :
          FileWrite(f, off, len, d) /\ last' # <<-1>> => off + last'[1] <= size'[f]]_vars

=============================================================================
