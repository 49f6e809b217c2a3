------------------------------ MODULE BlkCache ------------------------------
(***************************************************************************)
(* The block cache of block/blk_cache.c: NSLOT slots in front of a device  *)
(* of NBLK blocks.                                                         *)
(*                                                                         *)
(* The kernel runs on one hart with interrupts off, so calls do not        *)
(* overlap, but callers nest: a caller keeps several references (Handle),  *)
(* the superblock buffer of ext2_fs_init for ever, and makes other calls   *)
(* between two uses of one.  A call that reaches the device more than once *)
(* (an evicting bread, bsync) takes one step per block transferred, so     *)
(* that power can be lost between them.                                    *)
(***************************************************************************)
EXTENDS Integers, FiniteSets

CONSTANTS NSLOT,    \* NBLKNUM
          NBLK,     \* blocks of the device
          Handle,   \* struct blk_cache * variables of the callers
          Data,     \* contents of a block
          Zero,     \* the contents of a slot that was never filled (.bss)
          Torn      \* Torn[<<old, new>>]: what a block can hold after a power
                    \* loss among the 512-byte transfers of one blkwrite

ASSUME NSLOTAssumption  == NSLOT \in Nat \ {0}
ASSUME NBLKAssumption   == NBLK \in Nat \ {0}
ASSUME HandleAssumption == IsFiniteSet(Handle)
ASSUME ZeroAssumption   == Zero \in Data
ASSUME TornAssumption   == Torn \in [Data \X Data -> SUBSET Data]

VARIABLES disk,     \* disk[b]: contents of block b on the device
          blkNo,    \* the fields of blk_caches[i]
          valid,
          dirty,
          refcnt,
          data,
          handle,   \* handle[h]: the slot h points to, or NoSlot (nullptr)
          want,     \* want[h]: the block number h was obtained with (0 if free)
          announced,\* announced[b]: what bwrite last announced of block b, and
                    \* what went to the device with it since (not in the code)
          pc,       \* where the call in progress is
          cur,      \* the slot that call works on
          req       \* <<handle, block>> of the bread in progress

cache == <<blkNo, valid, dirty, refcnt, data>>
callers == <<handle, want>>
vars == <<disk, cache, callers, announced, pc, cur, req>>

Slot == 0 .. (NSLOT - 1)
Block == 0 .. (NBLK - 1)
NoSlot == -1
NoReq == <<>>

\* The contents of a .bss field, the same for every slot.
All(v) == [i \in Slot |-> v]

Init ==
    /\ disk \in [Block -> Data]
    /\ blkNo = All(0) /\ valid = All(FALSE) /\ dirty = All(FALSE)
    /\ refcnt = All(0) /\ data = All(Zero)
    /\ handle = [h \in Handle |-> NoSlot]
    /\ want = [h \in Handle |-> 0]
    /\ announced = disk
    /\ pc = "idle" /\ cur = 0 /\ req = NoReq

(***************************************************************************)
(* bread                                                                   *)
(***************************************************************************)
Holds(i, b) == valid[i] /\ blkNo[i] = b

\* X_Mut... is a mistaken variant of X that a mutation run puts in its place.

\* The first slot in array order that satisfies P, for the two scans of bread.
IsFirst(i, P) == i \in P /\ \A j \in P : i <= j

Free_MutSteal == {i \in Slot : ~dirty[i]}
Free == {i \in Slot : refcnt[i] = 0}

NeedsWriteBack_MutHeldOnly(i) == valid[i] /\ dirty[i] /\ refcnt[i] > 0
NeedsWriteBack(i) == valid[i] /\ dirty[i]

AddRef_MutNone(i) == UNCHANGED refcnt
AddRef(i) == refcnt' = [refcnt EXCEPT ![i] = @ + 1]

BreadHit(h, b) ==
    /\ pc = "idle" /\ handle[h] = NoSlot
    /\ \E i \in Slot :
          /\ IsFirst(i, {j \in Slot : Holds(j, b)})
          /\ AddRef(i)
          /\ handle' = [handle EXCEPT ![h] = i]
    /\ want' = [want EXCEPT ![h] = b]
    /\ UNCHANGED <<disk, blkNo, valid, dirty, data, announced, pc, cur, req>>

\* No slot holds b: take the first unreferenced one, writing it back if dirty.
BreadMiss(h, b) ==
    /\ pc = "idle" /\ handle[h] = NoSlot
    /\ \A j \in Slot : ~Holds(j, b)
    /\ \E i \in Slot :
          /\ IsFirst(i, Free)
          /\ cur' = i
          /\ pc' = IF NeedsWriteBack(i) THEN "evict" ELSE "fill"
    /\ req' = <<h, b>>
    /\ UNCHANGED <<disk, cache, callers, announced>>

\* Every slot is referenced: panic("no free block cache").
BreadPanic(h, b) ==
    /\ pc = "idle" /\ handle[h] = NoSlot
    /\ \A j \in Slot : ~Holds(j, b)
    /\ Free = {}
    /\ pc' = "panic"
    /\ UNCHANGED <<disk, cache, callers, announced, cur, req>>

\* blkwrite(blk_no, data): stores nobody has announced yet go along.
WriteBack(i) ==
    /\ disk' = [disk EXCEPT ![blkNo[i]] = data[i]]
    /\ announced' = [announced EXCEPT ![blkNo[i]] = data[i]]

Evict ==
    /\ pc = "evict"
    /\ WriteBack(cur)
    /\ pc' = "fill"
    /\ UNCHANGED <<cache, callers, cur, req>>

\* blkread(no, bcache->data), the new header, and bread returns the slot.
Fill ==
    /\ pc = "fill"
    /\ data'   = [data   EXCEPT ![cur] = disk[req[2]]]
    /\ blkNo'  = [blkNo  EXCEPT ![cur] = req[2]]
    /\ valid'  = [valid  EXCEPT ![cur] = TRUE]
    /\ dirty'  = [dirty  EXCEPT ![cur] = FALSE]
    /\ refcnt' = [refcnt EXCEPT ![cur] = 1]
    /\ handle' = [handle EXCEPT ![req[1]] = cur]
    /\ want'   = [want   EXCEPT ![req[1]] = req[2]]
    /\ pc' = "idle" /\ cur' = 0 /\ req' = NoReq
    /\ UNCHANGED <<disk, announced>>

(***************************************************************************)
(* The callers.  fs/ext2 stores into blk->data, calls bwrite and then      *)
(* brelse, with one exception: ext2_mkdir releases the inode it has filled *)
(* in without bwrite when there is no block for the directory.  A caller   *)
(* here does any of the three at any time.                                 *)
(***************************************************************************)
Store(h, d) ==
    /\ pc = "idle" /\ handle[h] # NoSlot
    /\ data' = [data EXCEPT ![handle[h]] = d]
    /\ UNCHANGED <<disk, blkNo, valid, dirty, refcnt, callers, announced, pc, cur, req>>

Mark_MutInverted(i) == dirty' = [dirty EXCEPT ![i] = @ \/ ~valid[i]]
Mark(i) == dirty' = [dirty EXCEPT ![i] = @ \/ valid[i]]

Bwrite(h) ==
    /\ pc = "idle" /\ handle[h] # NoSlot
    /\ Mark(handle[h])
    /\ announced' = [announced EXCEPT ![want[h]] = data[handle[h]]]
    /\ UNCHANGED <<disk, blkNo, valid, refcnt, data, callers, pc, cur, req>>

DropRef_MutTwice(i) == refcnt' = [refcnt EXCEPT ![i] = @ - 2]
DropRef(i) == refcnt' = [refcnt EXCEPT ![i] = @ - 1]

Brelse(h) ==
    /\ pc = "idle" /\ handle[h] # NoSlot
    /\ IF refcnt[handle[h]] <= 0
       THEN pc' = "panic" /\ UNCHANGED <<refcnt, handle, want>>
       ELSE /\ DropRef(handle[h])
            /\ handle' = [handle EXCEPT ![h] = NoSlot]
            /\ want' = [want EXCEPT ![h] = 0]
            /\ UNCHANGED pc
    /\ UNCHANGED <<disk, blkNo, valid, dirty, data, announced, cur, req>>

(***************************************************************************)
(* bsync.  One step per slot.                                              *)
(***************************************************************************)
BsyncCall ==
    /\ pc = "idle"
    /\ pc' = "sync" /\ cur' = 0
    /\ UNCHANGED <<disk, cache, callers, announced, req>>

LastSlot_MutOffByOne == IF NSLOT > 1 THEN NSLOT - 2 ELSE 0
LastSlot == NSLOT - 1

BsyncSlot ==
    /\ pc = "sync"
    /\ IF NeedsWriteBack(cur)
       THEN WriteBack(cur) /\ dirty' = [dirty EXCEPT ![cur] = FALSE]
       ELSE UNCHANGED <<disk, announced, dirty>>
    /\ IF cur = LastSlot
       THEN pc' = "idle" /\ cur' = 0
       ELSE cur' = cur + 1 /\ UNCHANGED pc
    /\ UNCHANGED <<blkNo, valid, refcnt, data, callers, req>>

(***************************************************************************)
(* Power is lost, or the machine is switched off by panic, and boots       *)
(* again: the cache is .bss, which entry.S clears; the device keeps what   *)
(* it has.                                                                 *)
(***************************************************************************)
Boot ==
    /\ blkNo' = All(0) /\ valid' = All(FALSE) /\ dirty' = All(FALSE)
    /\ refcnt' = All(0) /\ data' = All(Zero)
    /\ handle' = [h \in Handle |-> NoSlot]
    /\ want' = [h \in Handle |-> 0]
    /\ announced' = disk'
    /\ pc' = "idle" /\ cur' = 0 /\ req' = NoReq

Crash == UNCHANGED disk /\ Boot

\* ... in the middle of a blkwrite.
TornCrash ==
    /\ pc = "evict" \/ (pc = "sync" /\ NeedsWriteBack(cur))
    /\ \E d \in Torn[<<disk[blkNo[cur]], data[cur]>>] :
          disk' = [disk EXCEPT ![blkNo[cur]] = d]
    /\ Boot

Next ==
    \/ \E h \in Handle, b \in Block :
          BreadHit(h, b) \/ BreadMiss(h, b) \/ BreadPanic(h, b)
    \/ Evict
    \/ Fill
    \/ \E h \in Handle, d \in Data : Store(h, d)
    \/ \E h \in Handle : Bwrite(h) \/ Brelse(h)
    \/ BsyncCall
    \/ BsyncSlot
    \/ Crash
    \/ TornCrash

Spec == Init /\ [][Next]_vars

(***************************************************************************)
(* Properties                                                              *)
(***************************************************************************)
\* The type invariant of the cache, its callers and the call in progress.
TypeOK ==
    /\ disk \in [Block -> Data]
    /\ blkNo \in [Slot -> Block]
    /\ valid \in [Slot -> BOOLEAN]
    /\ dirty \in [Slot -> BOOLEAN]
    /\ refcnt \in [Slot -> Nat]
    /\ data \in [Slot -> Data]
    /\ handle \in [Handle -> Slot \cup {NoSlot}]
    /\ want \in [Handle -> Block]
    /\ announced \in [Block -> Data]
    /\ pc \in {"idle", "evict", "fill", "sync", "panic"}
    /\ cur \in Slot
    /\ req \in (Handle \X Block) \cup {NoReq}
    /\ pc \in {"evict", "fill"} <=> req # NoReq

\* Two slots never hold the same block: bread scans the whole array for a hit
\* before it fills a slot, and nothing runs between the scan and the fill.
UniqueBlock ==
    \A i, j \in Slot : valid[i] /\ valid[j] /\ blkNo[i] = blkNo[j] => i = j

\* A referenced slot keeps holding the block it was obtained for: eviction
\* never takes a slot somebody still points into, however calls nest.
HandlePinsBlock ==
    \A h \in Handle : handle[h] # NoSlot => Holds(handle[h], want[h])

\* Both together: whoever holds a pointer reads and writes the one cached copy of
\* the block it asked for, whatever was evicted, nested or lost in between.
Coherent == UniqueBlock /\ HandlePinsBlock

Pointers(f, i) == {h \in Handle : f[h] = i}

\* refcnt is the number of pointers to the slot, so a slot is reused exactly
\* when nobody points to it and the panic of brelse is never reached.
RefcntExact ==
    \A i \in Slot : refcnt[i] = Cardinality(Pointers(handle, i))

\* What bwrite announced is on the device, or a slot still holds the block and is
\* marked dirty: whatever is stored, released, evicted and read back in between, no
\* write-back is ever skipped.  (A store that was never announced may be lost.)
NoWriteLost ==
    \A b \in Block : disk[b] # announced[b] => \E i \in Slot : Holds(i, b) /\ dirty[i]

\* The panic of bread is reached only with every slot referenced.
PanicOnlyWhenPinned ==
    pc = "panic" => \A i \in Slot : \E h \in Handle : handle[h] = i

\* Callers that hold at most as many references as there are slots never meet
\* a panic.  (fs/ext2 holds four at once: the superblock, two index blocks and
\* one of the allocator; NBLKNUM is 64.)
NoPanicWithinLimit == Cardinality(Handle) <= NSLOT => pc # "panic"

\* What readers of a block see: the slot that holds it, or else the device.
View == [b \in Block |->
            IF \E i \in Slot : Holds(i, b)
            THEN data[CHOOSE i \in Slot : Holds(i, b)]
            ELSE disk[b]]

\* When bsync returns, everything announced so far is on the device, in whatever
\* state evictions, nested references and earlier write-backs left the slots.
SyncMakesDurable ==
    [][pc = "sync" /\ pc' = "idle" => disk' = announced']_vars

\* The cache implements the block store without a cache: a reference reads and
\* writes the block it was obtained for, and fills and evictions are invisible but
\* for a store that was never announced, which the block may lose when its last
\* reference is gone.
Ref == [h \in Handle |-> IF handle[h] = NoSlot THEN -1 ELSE want[h]]

BS == INSTANCE BlockStore WITH view <- View, durable <- disk, ref <- Ref

ImplementsBlockStore == BS!Spec

=============================================================================
