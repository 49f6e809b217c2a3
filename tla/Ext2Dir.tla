------------------------------- MODULE Ext2Dir -------------------------------
(***************************************************************************)
(* Names and inodes: ext2_lookup, ext2_dir_add_entry, ext2_create,         *)
(* ext2_mkdir and ext2_unlink (fs/ext2/dir.c), the inode cache (ext2_iget, *)
(* iput) and path resolution (namex in fs/vfs.c).                          *)
(*                                                                         *)
(* A directory block is a chain of entries whose rec_len leads to the      *)
(* next, kept here as the sequence of the entries the chain visits.        *)
(* Lengths are in units of the smallest entry.  The allocators hand out    *)
(* the lowest free number (Ext2Alloc); directories use direct blocks only  *)
(* and regular files are empty (Ext2File has their contents).  Calls do    *)
(* not overlap, so each is one step.  The iops are called on directories,  *)
(* with ordinary names; nothing checks either.                             *)
(***************************************************************************)
EXTENDS Integers, Sequences, FiniteSets, SequencesExt

CONSTANTS NINO, NBLK,   \* inode numbers 1 .. NINO, data blocks 1 .. NBLK
          BS,           \* the length of a block
          Name,         \* the names callers use
          Dot, DotDot,
          Needed,       \* Needed[n]: the smallest rec_len of an entry for n
          Path,         \* the paths callers resolve, sequences of names
          MaxRef        \* references callers hold at a time

Ino  == 1 .. NINO
Blk  == 1 .. NBLK
Root == 1
Null == 0
AnyName == Name \cup {Dot, DotDot}

ASSUME SizeAssumption == NINO \in Nat \ {0} /\ NBLK \in Nat \ {0} /\ BS \in Nat /\ MaxRef \in Nat \ {0}
ASSUME NameAssumption ==
    /\ Dot # DotDot /\ {Dot, DotDot} \cap Name = {}
    /\ Needed \in [AnyName -> 1 .. BS] /\ Needed[Dot] + Needed[DotDot] <= BS
ASSUME PathAssumption == Path \subseteq Seq(AnyName)

VARIABLES freeIno, freeBlk,   \* clear bits of the two bitmaps
          entries,            \* entries[b]: the chain of directory block b
          raw,                \* raw[i]: inode i in the inode table
          mem,                \* mem[i]: the cached struct inode of i
          ref,                \* its reference count, 0 if i is not cached
          last                \* the last call: operation, directory, name, result,
                              \* and whether ext2_iget ran out of memory

vars == <<freeIno, freeBlk, entries, raw, mem, ref, last>>

Inode(type, nlinks, blocks) == [type |-> type, nlinks |-> nlinks, blocks |-> blocks]
Entry(i, n, len) == [ino |-> i, name |-> n, rec |-> len]
Dots(i, parent) == <<Entry(i, Dot, Needed[Dot]), Entry(parent, DotDot, BS - Needed[Dot])>>
NotCached == Inode("file", 0, <<>>)
Call(op, d, n, r, oom) == [op |-> op, dir |-> d, name |-> n, result |-> r, oom |-> oom]

Init ==
    /\ freeIno = Ino \ {Root} /\ freeBlk = Blk \ {1}
    /\ entries = [b \in Blk |-> IF b = 1 THEN Dots(Root, Root) ELSE <<>>]
    /\ raw = [i \in Ino |-> IF i = Root THEN Inode("dir", 2, <<1>>) ELSE Inode("file", 0, <<>>)]
    /\ mem = [i \in Ino |-> IF i = Root THEN raw[Root] ELSE NotCached]
    /\ ref = [i \in Ino |-> IF i = Root THEN 1 ELSE 0]     \* fs.root
    /\ last = Call("mount", Null, Dot, Root, FALSE)

(***************************************************************************)
(* The state as a record, and the functions that change it.                *)
(* (X_Mut... is a mistaken variant of X that a mutation run puts in its    *)
(* place.)                                                                 *)
(***************************************************************************)
FS == [freeIno |-> freeIno, freeBlk |-> freeBlk, entries |-> entries, raw |-> raw, mem |-> mem,
       ref |-> ref]

Becomes(m) ==
    /\ freeIno' = m.freeIno /\ freeBlk' = m.freeBlk /\ entries' = m.entries
    /\ raw' = m.raw /\ mem' = m.mem /\ ref' = m.ref

Lowest(S) == CHOOSE k \in S : \A j \in S : k <= j

\* The allocators, seen through Ext2Alloc.
AllocIno(m)     == [m EXCEPT !.freeIno = @ \ {Lowest(@)}]
AllocBlk(m)     == [m EXCEPT !.freeBlk = @ \ {Lowest(@)}]
FreeIno(m, i)   == [m EXCEPT !.freeIno = @ \cup {i}]
FreeBlks(m, B)  == [m EXCEPT !.freeBlk = @ \cup B]
WriteInode(m, i) == [m EXCEPT !.raw[i] = m.mem[i]]

\* ext2_iget and iput.
iget(m, i) ==
    IF m.ref[i] > 0 THEN [m EXCEPT !.ref[i] = @ + 1]
    ELSE [m EXCEPT !.ref[i] = 1, !.mem[i] = m.raw[i]]

Blocks(m, i) == {m.mem[i].blocks[k] : k \in 1 .. Len(m.mem[i].blocks)}

Dropped(m, i) == [m EXCEPT !.mem[i] = NotCached]

iput_MutEager(m, i) ==
    IF m.mem[i].nlinks = 0 THEN FreeIno(FreeBlks([m EXCEPT !.ref[i] = @ - 1], Blocks(m, i)), i)
    ELSE IF m.ref[i] > 1 \/ i = Root THEN [m EXCEPT !.ref[i] = @ - 1]
    ELSE Dropped([m EXCEPT !.ref[i] = 0], i)
iput(m, i) ==
    LET p == [m EXCEPT !.ref[i] = @ - 1]
        empty == [p EXCEPT !.mem[i].blocks = <<>>]
    IN  IF p.ref[i] > 0 THEN p
        ELSE IF i = Root THEN [p EXCEPT !.ref[i] = 1]
        ELSE Dropped(IF p.mem[i].nlinks = 0
                     THEN FreeIno(FreeBlks(WriteInode(empty, i), Blocks(p, i)), i)
                     ELSE p, i)

(***************************************************************************)
(* The entries of a directory, in the order of the chain of each block.    *)
(***************************************************************************)
At(m, d, p) == m.entries[m.mem[d].blocks[p[1]]][p[2]]

Places(m, d) ==
    {p \in (1 .. Len(m.mem[d].blocks)) \X (1 .. BS) :
        p[2] <= Len(m.entries[m.mem[d].blocks[p[1]]])}

FirstOf(S) == CHOOSE p \in S : \A q \in S : p[1] < q[1] \/ (p[1] = q[1] /\ p[2] <= q[2])

Found(m, d, n) == {p \in Places(m, d) : At(m, d, p).ino # 0 /\ At(m, d, p).name = n}

\* The number ext2_lookup passes to ext2_iget, 0 if there is none.
Number(m, d, n) ==
    IF m.mem[d].type # "dir" \/ Found(m, d, n) = {} THEN 0
    ELSE At(m, d, FirstOf(Found(m, d, n))).ino

(***************************************************************************)
(* ext2_dir_add_entry: in the slack behind the first entry that has        *)
(* enough, or in a new block.  It fails, and changes nothing, when there   *)
(* is no block.                                                            *)
(***************************************************************************)
Slack_MutWhole(e) == e.rec
Slack(e) == e.rec - Needed[e.name]

Roomy(m, d, n) == {p \in Places(m, d) : Slack(At(m, d, p)) >= Needed[n]}
CanAdd(m, d, n) == Roomy(m, d, n) # {} \/ m.freeBlk # {}

Split(m, d, p, n, i) ==
    LET e == At(m, d, p)
        b == m.mem[d].blocks[p[1]]
    IN  [m EXCEPT !.entries[b] = InsertAt([@ EXCEPT ![p[2]].rec = e.rec - Slack(e)],
                                          p[2] + 1, Entry(i, n, Slack(e)))]

add_entry(m, d, n, i) ==
    IF Roomy(m, d, n) # {} THEN Split(m, d, FirstOf(Roomy(m, d, n)), n, i)
    ELSE LET b == Lowest(m.freeBlk)
         IN  WriteInode([AllocBlk(m) EXCEPT !.entries[b] = <<Entry(i, n, BS)>>,
                                            !.mem[d].blocks = Append(@, b)], d)

\* References callers have; fs.root is the kernel's own.
Held(i) == IF i = Root THEN ref[i] - 1 ELSE ref[i]
Open(d) == ref[d] > 0 /\ mem[d].type = "dir"

\* ext2_iget of i in m needs memory, and there is none.
NoMemory(m, i, oom) == oom /\ m.ref[i] = 0

\* The call returns inode i with a reference, or nullptr if ext2_iget does.
Returns(m, op, d, n, i, oom) ==
    LET none == NoMemory(m, i, oom)
    IN  /\ Becomes(IF none THEN m ELSE iget(m, i))
        /\ last' = Call(op, d, n, IF none THEN Null ELSE i, none)

Fails(m, op, d, n) == Becomes(m) /\ last' = Call(op, d, n, Null, FALSE)

(***************************************************************************)
(* ext2_create                                                             *)
(***************************************************************************)
Undo(m, i) == FreeIno(m, i)

Create(d, n, oom) ==
    /\ Open(d)
    /\ IF freeIno = {} THEN Fails(FS, "create", d, n)
       ELSE LET i == Lowest(freeIno)
                m == [AllocIno(FS) EXCEPT !.raw[i] = Inode("file", 1, <<>>)]
            IN  IF CanAdd(m, d, n) THEN Returns(add_entry(m, d, n, i), "create", d, n, i, oom)
                ELSE Fails(Undo(m, i), "create", d, n)

(***************************************************************************)
(* ext2_mkdir.  (bg_used_dirs_count, which nothing reads, is left out.)    *)
(***************************************************************************)
Linked_MutNoParent(m, d) == m
Linked(m, d) == WriteInode([m EXCEPT !.mem[d].nlinks = @ + 1], d)

Mkdir(d, n, oom) ==
    /\ Open(d)
    /\ IF freeIno = {} THEN Fails(FS, "mkdir", d, n)
       ELSE LET i == Lowest(freeIno)
                m == [AllocIno(FS) EXCEPT !.raw[i] = Inode("dir", 2, <<>>)]
            IN  IF freeBlk = {} THEN Fails(Undo(m, i), "mkdir", d, n)
                ELSE LET b == Lowest(freeBlk)
                         new == [AllocBlk(m) EXCEPT !.raw[i] = Inode("dir", 2, <<b>>),
                                                    !.entries[b] = Dots(i, d)]
                     IN  IF CanAdd(new, d, n)
                         THEN Returns(Linked(add_entry(new, d, n, i), d), "mkdir", d, n, i, oom)
                         ELSE Fails(Undo(FreeBlks(new, {b}), i), "mkdir", d, n)

(***************************************************************************)
(* ext2_unlink: the entry's room goes to the one before it in its block;   *)
(* the first of a block only loses its inode number.                       *)
(***************************************************************************)
Merged_MutDropsRoom(chain, k) == RemoveAt(chain, k)
Merged_MutWrongOne(chain, k) == RemoveAt([chain EXCEPT ![k].rec = @ + chain[k - 1].rec], k - 1)
Merged(chain, k) == RemoveAt([chain EXCEPT ![k - 1].rec = @ + chain[k].rec], k)

Removed(m, d, p) ==
    LET b == m.mem[d].blocks[p[1]]
    IN  [m EXCEPT !.entries[b] = IF p[2] > 1 THEN Merged(@, p[2]) ELSE [@ EXCEPT ![1].ino = 0]]

Unlinked(m, i) ==
    LET g == iget(m, i)
    IN  iput(WriteInode([g EXCEPT !.mem[i].nlinks = IF @ > 0 THEN @ - 1 ELSE @], i), i)

Unlink(d, n, oom) ==
    /\ Open(d)
    /\ IF Found(FS, d, n) = {} THEN Fails(FS, "unlink", d, n)
       ELSE LET p == FirstOf(Found(FS, d, n))
                i == At(FS, d, p).ino
                m == Removed(FS, d, p)
                none == NoMemory(m, i, oom)
            IN  /\ Becomes(IF none THEN m ELSE Unlinked(m, i))
                /\ last' = Call("unlink", d, n, i, none)

(***************************************************************************)
(* namex: follow the path from the root, holding one inode at a time.      *)
(* nameiparent stops before the last name, whatever it has reached.        *)
(***************************************************************************)
Inodes == [FS EXCEPT !.mem = [i \in Ino |-> IF ref[i] > 0 THEN mem[i] ELSE raw[i]]]

Reached(path) ==
    LET at[k \in 0 .. Len(path)] ==
            IF k = 0 THEN Root
            ELSE IF at[k - 1] = 0 THEN 0 ELSE Number(Inodes, at[k - 1], path[k])
    IN  at

Resolve(op, path, len, oom) ==
    LET at == Reached(path)
        i == at[len]
        none == \E k \in 0 .. len : at[k] # 0 /\ NoMemory(FS, at[k], oom)
    IN  IF i = 0 \/ none THEN Fails(FS, op, Null, Dot)
        ELSE Becomes(iget(FS, i)) /\ last' = Call(op, Null, Dot, i, FALSE)

Namei(path, oom) == Resolve("namei", path, Len(path), oom)
NameiParent(path, oom) == path # <<>> /\ Resolve("nameiparent", path, Len(path) - 1, oom)

\* A caller gives back a reference.
Iput(i) ==
    /\ Held(i) > 0
    /\ Becomes(iput(FS, i))
    /\ last' = Call("iput", Null, Dot, Null, FALSE)

Next ==
    \/ /\ MapThenSumSet(Held, Ino) < MaxRef
       /\ \E oom \in BOOLEAN :
            \/ \E d \in Ino, n \in Name : Create(d, n, oom) \/ Mkdir(d, n, oom)
            \/ \E path \in Path : Namei(path, oom) \/ NameiParent(path, oom)
    \/ \E d \in Ino, n \in Name, oom \in BOOLEAN : Unlink(d, n, oom)
    \/ \E i \in Ino : Iput(i)

Spec == Init /\ [][Next]_vars

(***************************************************************************)
(* Properties                                                              *)
(***************************************************************************)
\* The type invariant of directories and inodes.
InodeType == [type : {"file", "dir"}, nlinks : Nat, blocks : Seq(Blk)]
TypeOK ==
    /\ freeIno \subseteq Ino /\ freeBlk \subseteq Blk
    /\ entries \in [Blk -> Seq([ino : Ino \cup {0}, name : AnyName, rec : 1 .. BS])]
    /\ raw \in [Ino -> InodeType] /\ mem \in [Ino -> InodeType]
    /\ ref \in [Ino -> Nat] /\ ref[Root] > 0
    /\ last.result \in Ino \cup {Null} /\ last.oom \in BOOLEAN

Allocated   == Ino \ freeIno
Directories == {d \in Allocated : raw[d].type = "dir"}
Links       == {x \in Directories \X Blk \X (1 .. BS) :
                  /\ x[2] \in {raw[x[1]].blocks[k] : k \in 1 .. Len(raw[x[1]].blocks)}
                  /\ x[3] <= Len(entries[x[2]])
                  /\ entries[x[2]][x[3]].ino # 0}
Target(x)   == entries[x[2]][x[3]].ino
Names       == {<<x[1], entries[x[2]][x[3]].name, Target(x)>> : x \in Links}

\* Where the entries of a chain end.
Ends(chain) ==
    LET end[k \in 0 .. Len(chain)] == IF k = 0 THEN 0 ELSE end[k - 1] + chain[k].rec
    IN  end

\* Every block of a directory is tiled by its entries, each long enough for its name:
\* neither splitting nor merging loses room or lets two entries overlap.
EntriesTile ==
    \A b \in {x[2] : x \in Links} :
        /\ Ends(entries[b])[Len(entries[b])] = BS
        /\ \A k \in 1 .. Len(entries[b]) : entries[b][k].rec >= Needed[entries[b][k].name]

\* The entries that name i, "." and ".." included.
NamesOf(i) == {x \in Links : Target(x) = i}

\* No inode has fewer links than entries that name it, whatever fails half way: a file
\* somebody can look up is never freed.  And an inode without links is freed with its
\* last reference.
LinksCovered ==
    \A i \in Allocated :
        /\ raw[i].nlinks >= Cardinality(NamesOf(i))
        /\ raw[i].nlinks = 0 => ref[i] > 0

\* A free inode number is named by no entry and cached nowhere, so whoever gets it
\* next neither appears under an old name nor shares an old struct inode; a block is
\* free or belongs to one inode; and between calls the cached struct inode agrees
\* with the inode table, which ext2_create and ext2_mkdir write behind its back.
InodesConsistent ==
    /\ \A i \in Ino : ref[i] > 0 => mem[i] = raw[i]
    /\ \A i \in freeIno : ref[i] = 0 /\ \A x \in Links : Target(x) # i
    /\ \A b \in Blk :
          Cardinality({x \in Allocated \X (1 .. NBLK) :
                         x[2] <= Len(raw[x[1]].blocks) /\ raw[x[1]].blocks[x[2]] = b})
          = (IF b \in freeBlk THEN 0 ELSE 1)

\* A call that returns an inode, or unlinks one, changes the names of its directory by
\* exactly that entry.  A call that fails changes none, unless ext2_iget had no memory
\* for a new inode: then an entry with the name it was called with is there.  No other
\* call changes a name.
ProperNames == {t \in Names : t[2] \in Name}
CallsChangeOneName ==
    [][LET new == ProperNames' \ ProperNames
           gone == ProperNames \ ProperNames'
           done == last'.result # Null
           it == <<last'.dir, last'.name, last'.result>>
       IN  CASE last'.op \in {"create", "mkdir"} /\ (done \/ last'.oom) ->
                    /\ gone = {} /\ Cardinality(new) = 1
                    /\ \A t \in new : IF done THEN t = it ELSE t[1] = it[1] /\ t[2] = it[2]
             [] last'.op = "unlink" /\ done -> new = {} /\ gone = {it}
             [] OTHER -> new = {} /\ gone = {}]_vars

\* dir.c:609 and 669, fs.h:245 and 258: ext2_create and ext2_mkdir return the new inode,
\* or nullptr for failure. A call that failed has created nothing.
FailedCallsCreateNothing ==
    [][last'.op \in {"create", "mkdir"} /\ last'.result = Null =>
          ProperNames' \subseteq ProperNames]_vars

\* dir.c:791 and fs.h:130: nlinks counts the entries that name an inode, and an inode
\* whose count ext2_unlink takes to 0 is freed. So is one that no name leads to any more.
UnnamedIsFreed ==
    \A i \in Allocated \ {Root} :
        ref[i] = 0 => \E x \in NamesOf(i) : entries[x[2]][x[3]].name \in Name

=============================================================================
