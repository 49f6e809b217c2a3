--------------------------- MODULE BlkCacheProofs ---------------------------
(***************************************************************************)
(* Proofs about BlkCache for every number of slots, blocks and handles.    *)
(***************************************************************************)
EXTENDS BlkCache, FiniteSetTheorems, TLAPS

-----------------------------------------------------------------------------
(***************************************************************************)
(* The inductive invariant.  CallInv is what a bread or a bsync that has   *)
(* reached the device relies on: its victim is unreferenced, no slot holds *)
(* the block it asks for, and the victim has been written back by the time *)
(* it is overwritten.                                                      *)
(***************************************************************************)
CallInv ==
    /\ pc \in {"evict", "fill"} =>
          /\ refcnt[cur] = 0
          /\ handle[req[1]] = NoSlot
          /\ \A j \in Slot : ~Holds(j, req[2])
    /\ pc = "evict" => valid[cur]
    /\ pc = "fill" /\ valid[cur] => disk[blkNo[cur]] = announced[blkNo[cur]]
    /\ pc = "panic" => \E h \in Handle : handle[h] = NoSlot
    /\ pc = "sync" => \A j \in Slot : j < cur => ~(valid[j] /\ dirty[j])

IInv ==
    /\ TypeOK
    /\ UniqueBlock
    /\ HandlePinsBlock
    /\ RefcntExact
    /\ NoWriteLost
    /\ PanicOnlyWhenPinned
    /\ CallInv

-----------------------------------------------------------------------------
(***************************************************************************)
(* Counting pointers                                                       *)
(***************************************************************************)
Target == Slot \cup {NoSlot}

\* A slot's count is 0 exactly when nobody points to it.
LEMMA CountZero ==
    ASSUME NEW f \in [Handle -> Target], NEW i \in Slot
    PROVE  /\ Cardinality(Pointers(f, i)) \in Nat
           /\ Cardinality(Pointers(f, i)) = 0 <=> \A h \in Handle : f[h] # i
<1>1. IsFiniteSet(Pointers(f, i))
  BY FS_Subset, HandleAssumption DEF Pointers
<1>2. Cardinality(Pointers(f, i)) = 0 <=> Pointers(f, i) = {}
  BY <1>1, FS_EmptySet
<1> QED
  BY <1>1, <1>2, FS_CardinalityType DEF Pointers

\* A null pointer set to slot i adds one to i's count and to no other.
LEMMA CountAcquire ==
    ASSUME NEW f \in [Handle -> Target], NEW h \in Handle, NEW i \in Slot,
           f[h] = NoSlot
    PROVE  \A j \in Slot :
              Cardinality(Pointers([f EXCEPT ![h] = i], j)) =
                 IF j = i THEN Cardinality(Pointers(f, j)) + 1
                          ELSE Cardinality(Pointers(f, j))
<1> DEFINE g == [f EXCEPT ![h] = i]
<1> TAKE j \in Slot
<1>1. CASE j = i
  <2>1. /\ IsFiniteSet(Pointers(f, i))
    BY FS_Subset, HandleAssumption DEF Pointers
  <2>2. h \notin Pointers(f, i)
    BY DEF Pointers, Slot, NoSlot
  <2>3. Pointers(g, i) = Pointers(f, i) \cup {h}
    BY DEF Pointers
  <2> QED
    BY <1>1, <2>1, <2>2, <2>3, FS_AddElement
<1>2. CASE j # i
  <2>1. Pointers(g, j) = Pointers(f, j)
    BY <1>2 DEF Pointers, Slot, NoSlot
  <2> QED
    BY <1>2, <2>1
<1> QED
  BY <1>1, <1>2

\* A pointer to slot i set to null takes one from i's count and from no other.
LEMMA CountRelease ==
    ASSUME NEW f \in [Handle -> Target], NEW h \in Handle, f[h] \in Slot
    PROVE  \A j \in Slot :
              Cardinality(Pointers([f EXCEPT ![h] = NoSlot], j)) =
                 IF j = f[h] THEN Cardinality(Pointers(f, j)) - 1
                             ELSE Cardinality(Pointers(f, j))
<1> DEFINE g == [f EXCEPT ![h] = NoSlot]
<1> TAKE j \in Slot
<1>1. CASE j = f[h]
  <2>1. IsFiniteSet(Pointers(f, j))
    BY FS_Subset, HandleAssumption DEF Pointers
  <2>2. h \in Pointers(f, j)
    BY <1>1 DEF Pointers
  <2>3. Pointers(g, j) = Pointers(f, j) \ {h}
    BY <1>1 DEF Pointers, Slot, NoSlot
  <2> QED
    BY <1>1, <2>1, <2>2, <2>3, FS_RemoveElement
<1>2. CASE j # f[h]
  <2>1. Pointers(g, j) = Pointers(f, j)
    BY <1>2 DEF Pointers, Slot, NoSlot
  <2> QED
    BY <1>2, <2>1
<1> QED
  BY <1>1, <1>2

\* RefcntExact, put as the steps of the proof use it.
LEMMA RefcntZero ==
    ASSUME TypeOK, RefcntExact
    PROVE  \A i \in Slot : refcnt[i] = 0 <=> \A h \in Handle : handle[h] # i
BY CountZero DEF TypeOK, RefcntExact, Target

-----------------------------------------------------------------------------
LEMMA InitIInv == Init => IInv
<1> SUFFICES ASSUME Init PROVE IInv
  OBVIOUS
<1> USE DEF Init, All
<1>1. TypeOK
  BY NSLOTAssumption, NBLKAssumption, ZeroAssumption
  DEF TypeOK, Slot, Block, NoSlot, NoReq
<1>2. UniqueBlock /\ HandlePinsBlock /\ NoWriteLost /\ PanicOnlyWhenPinned
  BY DEF UniqueBlock, HandlePinsBlock, NoWriteLost, PanicOnlyWhenPinned
<1>3. RefcntExact
  <2>1. \A i \in Slot, h \in Handle : handle[h] # i
    BY DEF Slot, NoSlot
  <2> QED
    BY <1>1, <2>1, CountZero DEF RefcntExact, TypeOK, Target
<1>4. CallInv
  BY DEF CallInv
<1> QED
  BY <1>1, <1>2, <1>3, <1>4 DEF IInv

-----------------------------------------------------------------------------
(***************************************************************************)
(* One lemma per action.                                                   *)
(***************************************************************************)
LEMMA BreadHitStep ==
    ASSUME IInv, NEW h \in Handle, NEW b \in Block, BreadHit(h, b)
    PROVE  IInv'
<1> USE DEF IInv
<1>1. PICK i \in Slot : /\ Holds(i, b)
                        /\ refcnt' = [refcnt EXCEPT ![i] = @ + 1]
                        /\ handle' = [handle EXCEPT ![h] = i]
  BY DEF BreadHit, IsFirst, AddRef
<1>2. TypeOK'
  BY <1>1 DEF TypeOK, BreadHit, Slot
<1>3. UniqueBlock'
  BY DEF UniqueBlock, BreadHit
<1>4. HandlePinsBlock'
  BY <1>1 DEF HandlePinsBlock, BreadHit, Holds, TypeOK
<1>5. RefcntExact'
  <2>1. \A j \in Slot : refcnt'[j] = IF j = i THEN refcnt[j] + 1 ELSE refcnt[j]
    BY <1>1 DEF TypeOK
  <2>2. /\ handle \in [Handle -> Target] /\ handle[h] = NoSlot
    BY DEF TypeOK, Target, BreadHit
  <2>3. \A j \in Slot : Cardinality(Pointers(handle', j)) =
           IF j = i THEN Cardinality(Pointers(handle, j)) + 1
                    ELSE Cardinality(Pointers(handle, j))
    BY <1>1, <2>2, CountAcquire
  <2> QED
    BY <2>1, <2>3 DEF RefcntExact, Pointers
<1>6. NoWriteLost'
  BY DEF NoWriteLost, BreadHit, Holds
<1>7. PanicOnlyWhenPinned' /\ CallInv'
  BY <1>1 DEF PanicOnlyWhenPinned, CallInv, BreadHit, TypeOK, Slot, NoSlot
<1> QED
  BY <1>2, <1>3, <1>4, <1>5, <1>6, <1>7

LEMMA BreadMissStep ==
    ASSUME IInv, NEW h \in Handle, NEW b \in Block, BreadMiss(h, b)
    PROVE  IInv'
<1> USE DEF IInv, BreadMiss, cache, callers
<1>1. PICK i \in Slot : /\ refcnt[i] = 0
                        /\ cur' = i
                        /\ pc' = IF valid[i] /\ dirty[i] THEN "evict" ELSE "fill"
  BY DEF IsFirst, Free, NeedsWriteBack
<1>2. TypeOK'
  BY <1>1 DEF TypeOK, NoReq
<1>3. UniqueBlock' /\ HandlePinsBlock' /\ RefcntExact' /\ NoWriteLost'
  BY DEF UniqueBlock, HandlePinsBlock, RefcntExact, NoWriteLost, Holds, Pointers
<1>4. PanicOnlyWhenPinned'
  BY <1>1 DEF PanicOnlyWhenPinned
<1>5. CallInv'
  \* all that was announced of a clean victim is on the device
  <2>2. valid[i] /\ ~dirty[i] => disk[blkNo[i]] = announced[blkNo[i]]
    BY DEF NoWriteLost, UniqueBlock, Holds, TypeOK
  <2>3. req'[1] = h /\ req'[2] = b
    OBVIOUS
  <2> QED
    BY <1>1, <2>2, <2>3 DEF CallInv, Holds
<1> QED
  BY <1>2, <1>3, <1>4, <1>5

LEMMA BreadPanicStep ==
    ASSUME IInv, NEW h \in Handle, NEW b \in Block, BreadPanic(h, b)
    PROVE  IInv'
<1> USE DEF IInv, BreadPanic, cache, callers
<1>1. TypeOK'
  BY DEF TypeOK
<1>2. UniqueBlock' /\ HandlePinsBlock' /\ RefcntExact' /\ NoWriteLost'
  BY DEF UniqueBlock, HandlePinsBlock, RefcntExact, NoWriteLost, Holds, Pointers
<1>3. PanicOnlyWhenPinned'
  BY RefcntZero DEF PanicOnlyWhenPinned, Free
<1>4. CallInv'
  BY DEF CallInv
<1> QED
  BY <1>1, <1>2, <1>3, <1>4

LEMMA EvictStep ==
    ASSUME IInv, Evict
    PROVE  IInv'
<1> USE DEF IInv, Evict, cache, callers
<1>1. TypeOK'
  BY DEF TypeOK, WriteBack
<1>2. UniqueBlock' /\ HandlePinsBlock' /\ RefcntExact' /\ PanicOnlyWhenPinned'
  BY DEF UniqueBlock, HandlePinsBlock, RefcntExact, PanicOnlyWhenPinned, Holds, Pointers
<1>3. NoWriteLost'
  BY DEF NoWriteLost, WriteBack, CallInv, TypeOK, Holds
<1>4. CallInv'
  BY DEF CallInv, WriteBack, TypeOK, Holds
<1> QED
  BY <1>1, <1>2, <1>3, <1>4

LEMMA FillStep ==
    ASSUME IInv, Fill
    PROVE  IInv'
<1> USE DEF IInv, Fill
<1>1. /\ req \in Handle \X Block
      /\ req[1] \in Handle /\ req[2] \in Block
      /\ cur \in Slot /\ refcnt[cur] = 0
      /\ handle[req[1]] = NoSlot
      /\ \A j \in Slot : ~Holds(j, req[2])
      /\ \A x \in Handle : handle[x] # cur
  BY RefcntZero DEF TypeOK, CallInv
<1>2. TypeOK'
  BY <1>1, NSLOTAssumption DEF TypeOK, Slot
<1>3. UniqueBlock'
  BY <1>1 DEF UniqueBlock, Holds, TypeOK
<1>4. HandlePinsBlock'
  BY <1>1 DEF HandlePinsBlock, Holds, TypeOK, Slot, NoSlot
<1>5. RefcntExact'
  <2>1. \A j \in Slot : refcnt'[j] = IF j = cur THEN refcnt[j] + 1 ELSE refcnt[j]
    BY <1>1 DEF TypeOK
  <2>2. /\ handle \in [Handle -> Target]
        /\ handle' = [handle EXCEPT ![req[1]] = cur]
    BY DEF TypeOK, Target
  <2> HIDE DEF IInv, Fill
  <2>3. \A j \in Slot : Cardinality(Pointers([handle EXCEPT ![req[1]] = cur], j)) =
           IF j = cur THEN Cardinality(Pointers(handle, j)) + 1
                      ELSE Cardinality(Pointers(handle, j))
    BY <1>1, <2>2, CountAcquire
  <2> QED
    BY <2>1, <2>2, <2>3 DEF IInv, RefcntExact, Pointers
<1>6. NoWriteLost'
  <2> SUFFICES ASSUME NEW b \in Block, disk'[b] # announced'[b]
               PROVE  \E i \in Slot : Holds(i, b)' /\ dirty'[i]
    BY DEF NoWriteLost
  <2>1. PICK i \in Slot : Holds(i, b) /\ dirty[i]
    BY DEF NoWriteLost
  <2>2. i # cur
    BY <2>1 DEF CallInv, Holds
  <2>3. Holds(i, b)' /\ dirty'[i]
    BY <2>1, <2>2 DEF Holds, TypeOK
  <2> QED
    BY <2>3
<1>7. PanicOnlyWhenPinned' /\ CallInv'
  BY <1>1 DEF PanicOnlyWhenPinned, CallInv, TypeOK, Slot, NoSlot
<1> QED
  BY <1>2, <1>3, <1>4, <1>5, <1>6, <1>7

LEMMA StoreStep ==
    ASSUME IInv, NEW h \in Handle, NEW d \in Data, Store(h, d)
    PROVE  IInv'
<1> USE DEF IInv, Store, callers
<1>1. TypeOK'
  BY DEF TypeOK
<1>2. UniqueBlock' /\ HandlePinsBlock' /\ RefcntExact' /\ PanicOnlyWhenPinned'
  BY DEF UniqueBlock, HandlePinsBlock, RefcntExact, PanicOnlyWhenPinned, Holds, Pointers
<1>3. NoWriteLost'
  BY DEF NoWriteLost, Holds
<1>4. CallInv'
  BY DEF CallInv, Holds
<1> QED
  BY <1>1, <1>2, <1>3, <1>4

\* A pointer is to a valid slot (HandlePinsBlock), so bwrite does mark it.
LEMMA BwriteStep ==
    ASSUME IInv, NEW h \in Handle, Bwrite(h)
    PROVE  IInv'
<1> USE DEF IInv, Bwrite, Mark, callers
<1>1. /\ handle[h] \in Slot /\ want[h] \in Block
      /\ valid[handle[h]] /\ blkNo[handle[h]] = want[h]
  BY DEF TypeOK, HandlePinsBlock, Holds
<1>2. TypeOK'
  BY <1>1 DEF TypeOK
<1>3. UniqueBlock' /\ HandlePinsBlock' /\ RefcntExact' /\ PanicOnlyWhenPinned'
  BY DEF UniqueBlock, HandlePinsBlock, RefcntExact, PanicOnlyWhenPinned, Holds, Pointers
<1>4. NoWriteLost'
  BY <1>1 DEF NoWriteLost, TypeOK, Holds
<1>5. CallInv'
  BY DEF CallInv, Holds
<1> QED
  BY <1>2, <1>3, <1>4, <1>5

LEMMA BrelseStep ==
    ASSUME IInv, NEW h \in Handle, Brelse(h)
    PROVE  IInv'
<1> USE DEF IInv
<1>1. handle[h] \in Slot /\ refcnt[handle[h]] # 0 /\ refcnt[handle[h]] \in Nat
  BY RefcntZero DEF TypeOK, Brelse
<1>2. /\ refcnt' = [refcnt EXCEPT ![handle[h]] = @ - 1]
      /\ handle' = [handle EXCEPT ![h] = NoSlot]
      /\ want' = [want EXCEPT ![h] = 0]
      /\ pc' = "idle" /\ pc = "idle"
      /\ UNCHANGED <<disk, blkNo, valid, dirty, data, announced, cur, req>>
  BY <1>1 DEF Brelse, DropRef
<1>3. TypeOK'
  BY <1>1, <1>2, NBLKAssumption DEF TypeOK, Block
<1>4. UniqueBlock' /\ HandlePinsBlock' /\ PanicOnlyWhenPinned' /\ CallInv'
  BY <1>2 DEF UniqueBlock, HandlePinsBlock, PanicOnlyWhenPinned, CallInv, Holds, TypeOK
<1>5. RefcntExact'
  <2>1. \A j \in Slot : refcnt'[j] = IF j = handle[h] THEN refcnt[j] - 1 ELSE refcnt[j]
    BY <1>1, <1>2 DEF TypeOK
  <2>2. handle \in [Handle -> Target]
    BY DEF TypeOK, Target
  <2>3. \A j \in Slot : Cardinality(Pointers(handle', j)) =
           IF j = handle[h] THEN Cardinality(Pointers(handle, j)) - 1
                            ELSE Cardinality(Pointers(handle, j))
    BY <1>1, <1>2, <2>2, CountRelease
  <2> QED
    BY <2>1, <2>3 DEF RefcntExact, Pointers
<1>6. NoWriteLost'
  BY <1>2 DEF NoWriteLost, Holds
<1> QED
  BY <1>3, <1>4, <1>5, <1>6

LEMMA BsyncCallStep ==
    ASSUME IInv, BsyncCall
    PROVE  IInv'
<1> USE DEF IInv, BsyncCall, cache, callers
<1>1. TypeOK'
  BY NSLOTAssumption DEF TypeOK, Slot
<1>2. UniqueBlock' /\ HandlePinsBlock' /\ RefcntExact' /\ NoWriteLost'
  BY DEF UniqueBlock, HandlePinsBlock, RefcntExact, NoWriteLost, Holds, Pointers
<1>3. PanicOnlyWhenPinned' /\ CallInv'
  BY DEF PanicOnlyWhenPinned, CallInv, Slot
<1> QED
  BY <1>1, <1>2, <1>3

LEMMA BsyncSlotStep ==
    ASSUME IInv, BsyncSlot
    PROVE  IInv'
<1> USE DEF IInv, BsyncSlot, callers, NeedsWriteBack, LastSlot, WriteBack
<1>1. TypeOK'
  <2>1. cur' \in Slot /\ pc' \in {"idle", "sync"}
    BY NSLOTAssumption DEF TypeOK, Slot
  <2>2. /\ disk' \in [Block -> Data] /\ announced' \in [Block -> Data]
        /\ dirty' \in [Slot -> BOOLEAN]
    BY DEF TypeOK
  <2> QED
    BY <2>1, <2>2 DEF TypeOK
<1>2. UniqueBlock' /\ HandlePinsBlock' /\ RefcntExact'
  BY DEF UniqueBlock, HandlePinsBlock, RefcntExact, Holds, Pointers
<1>3. NoWriteLost'
  <2>1. CASE valid[cur] /\ dirty[cur]
    BY <2>1 DEF NoWriteLost, Holds, TypeOK
  <2>2. CASE ~(valid[cur] /\ dirty[cur])
    BY <2>2 DEF NoWriteLost, Holds
  <2> QED
    BY <2>1, <2>2
<1>4. PanicOnlyWhenPinned'
  BY DEF PanicOnlyWhenPinned
<1>5. CallInv'
  <2>1. ~(valid'[cur] /\ dirty'[cur])
    BY DEF TypeOK
  <2>2. \A j \in Slot : j < cur => ~(valid'[j] /\ dirty'[j])
    BY DEF CallInv, TypeOK
  <2>3. \A j \in Slot : j < cur + 1 => j = cur \/ j < cur
    BY DEF TypeOK, Slot
  <2> QED
    BY <2>1, <2>2, <2>3 DEF CallInv, TypeOK
<1> QED
  BY <1>1, <1>2, <1>3, <1>4, <1>5

LEMMA BootStep ==
    ASSUME IInv, Boot, disk' \in [Block -> Data]
    PROVE  IInv'
<1> USE DEF IInv, Boot, All
<1>1. TypeOK'
  BY NSLOTAssumption, NBLKAssumption, ZeroAssumption
  DEF TypeOK, Slot, Block, NoSlot, NoReq
<1>2. UniqueBlock' /\ HandlePinsBlock' /\ NoWriteLost' /\ PanicOnlyWhenPinned' /\ CallInv'
  BY DEF UniqueBlock, HandlePinsBlock, NoWriteLost, PanicOnlyWhenPinned, CallInv
<1>3. RefcntExact'
  <2>1. \A i \in Slot, h \in Handle : handle'[h] # i
    BY DEF Slot, NoSlot
  <2>2. handle' \in [Handle -> Target] /\ \A i \in Slot : refcnt'[i] = 0
    BY DEF Target
  <2>3. \A i \in Slot : Cardinality(Pointers(handle', i)) = 0
    BY <2>1, <2>2, CountZero
  <2> QED
    BY <2>2, <2>3 DEF RefcntExact, Pointers
<1> QED
  BY <1>1, <1>2, <1>3

\* Whatever a torn write leaves is contents of a block.
LEMMA TornDisk ==
    ASSUME IInv, TornCrash
    PROVE  /\ cur \in Slot /\ valid[cur]
           /\ disk' \in [Block -> Data]
<1>1. cur \in Slot /\ valid[cur]
  BY DEF TornCrash, NeedsWriteBack, IInv, CallInv, TypeOK
<1>2. blkNo[cur] \in Block /\ <<disk[blkNo[cur]], data[cur]>> \in Data \X Data
  BY <1>1 DEF IInv, TypeOK
<1>3. Torn[<<disk[blkNo[cur]], data[cur]>>] \subseteq Data
  BY <1>2, TornAssumption
<1> QED
  BY <1>1, <1>2, <1>3 DEF TornCrash, IInv, TypeOK

LEMMA CrashStep ==
    ASSUME IInv, Crash \/ TornCrash
    PROVE  IInv'
<1>1. Boot /\ disk' \in [Block -> Data]
  BY TornDisk DEF Crash, TornCrash, IInv, TypeOK
<1> QED
  BY <1>1, BootStep

LEMMA NextIInv == IInv /\ [Next]_vars => IInv'
<1> SUFFICES ASSUME IInv, [Next]_vars PROVE IInv'
  OBVIOUS
<1>1. CASE Next
  BY <1>1, BreadHitStep, BreadMissStep, BreadPanicStep, EvictStep, FillStep, StoreStep,
     BwriteStep, BrelseStep, BsyncCallStep, BsyncSlotStep, CrashStep DEF Next
<1>2. CASE UNCHANGED vars
  BY <1>2 DEF IInv, TypeOK, UniqueBlock, HandlePinsBlock, RefcntExact, NoWriteLost,
     PanicOnlyWhenPinned, CallInv, Pointers, Holds, vars, cache, callers
<1> QED
  BY <1>1, <1>2

LEMMA Invariance == Spec => []IInv
BY InitIInv, NextIInv, PTL DEF Spec

-----------------------------------------------------------------------------
(***************************************************************************)
(* Theorems                                                                *)
(***************************************************************************)
\* Every variable keeps its type, for any number of slots, blocks and handles.
THEOREM TypeCorrect == Spec => []TypeOK
BY Invariance, PTL DEF IInv

\* No block is ever cached twice, and a pointer returned by bread refers to the
\* block it was asked for until brelse.
THEOREM CacheCoherent == Spec => []Coherent
BY Invariance, PTL DEF IInv, Coherent

\* refcnt counts the pointers exactly: brelse's panic is unreachable.
THEOREM RefcntCorrect == Spec => []RefcntExact
BY Invariance, PTL DEF IInv

\* No write-back is skipped, whatever callers store and release without bwrite: what
\* was announced is on the device or in a slot marked dirty.
THEOREM NoLostWriteBack == Spec => []NoWriteLost
BY Invariance, PTL DEF IInv

\* A panicked cache has a pointer to every slot and one pointer still null, so
\* it has more pointers than slots: an injection from slots to pointers.
LEMMA PinnedMeansMore == IInv => NoPanicWithinLimit
<1> SUFFICES ASSUME IInv, pc = "panic", Cardinality(Handle) <= NSLOT PROVE FALSE
  BY DEF NoPanicWithinLimit
<1>1. PICK h0 \in Handle : handle[h0] = NoSlot
  BY DEF IInv, CallInv
<1> DEFINE f == [i \in Slot |-> CHOOSE h \in Handle : handle[h] = i]
           Used == Handle \ {h0}
<1>2. \A i \in Slot : f[i] \in Handle /\ handle[f[i]] = i
  BY DEF IInv, PanicOnlyWhenPinned
<1>3. f \in Injection(Slot, Used)
  <2>1. f \in [Slot -> Used]
    BY <1>1, <1>2 DEF Slot, NoSlot
  <2>2. \A i, j \in Slot : f[i] = f[j] => i = j
    BY <1>2
  <2> HIDE DEF f
  <2> QED
    BY <2>1, <2>2 DEF Injection, IsInjective
<1>4. /\ IsFiniteSet(Used)
      /\ Cardinality(Used) = Cardinality(Handle) - 1
      /\ Cardinality(Handle) \in Nat
  BY FS_RemoveElement, FS_CardinalityType, HandleAssumption
<1>5. Cardinality(Slot) <= Cardinality(Used)
  <2> HIDE DEF f, Used
  <2> QED
    BY <1>3, <1>4, FS_Injection
<1>6. Cardinality(Slot) = NSLOT
  BY FS_Interval, NSLOTAssumption DEF Slot
<1> QED
  BY <1>4, <1>5, <1>6, NSLOTAssumption

\* bread never panics while callers hold at most NSLOT references.
THEOREM BreadNeverPanics == Spec => []NoPanicWithinLimit
BY Invariance, PinnedMeansMore, PTL

-----------------------------------------------------------------------------
(***************************************************************************)
(* The view of a block is its slot's contents or, without a slot, the      *)
(* device's.                                                               *)
(***************************************************************************)
ViewAt ==
    /\ View \in [Block -> Data]
    /\ \A b \in Block, i \in Slot : Holds(i, b) => View[b] = data[i]
    /\ \A b \in Block : (\A i \in Slot : ~Holds(i, b)) => View[b] = disk[b]

LEMMA ViewIsCoherent == IInv => ViewAt
<1> SUFFICES ASSUME IInv PROVE ViewAt
  OBVIOUS
<1> USE DEF IInv
<1>1. \A b \in Block, i \in Slot : Holds(i, b) => View[b] = data[i]
  BY DEF View, UniqueBlock, Holds
<1>2. \A b \in Block : (\A i \in Slot : ~Holds(i, b)) => View[b] = disk[b]
  BY DEF View
<1>3. \A b \in Block : View[b] \in Data
  BY <1>1, <1>2 DEF TypeOK
<1>4. View \in [Block -> Data]
  BY <1>3 DEF View
<1> QED
  BY <1>1, <1>2, <1>4 DEF ViewAt

LEMMA ViewIsCoherentNext == IInv' => ViewAt'
BY ViewIsCoherent, PTL

AllClean   == \A i \in Slot : ~(valid[i] /\ dirty[i])
AllDurable == disk = announced

\* When no slot is dirty, all that was announced is on the device.
LEMMA CleanIsDurable == IInv /\ AllClean => AllDurable
<1> SUFFICES ASSUME IInv, AllClean PROVE disk = announced
  BY DEF AllDurable
<1>1. \A b \in Block : disk[b] = announced[b]
  BY DEF AllClean, IInv, NoWriteLost, Holds
<1> QED
  BY <1>1 DEF IInv, TypeOK

LEMMA CleanIsDurableNext == IInv' /\ AllClean' => AllDurable'
BY CleanIsDurable, PTL

\* What bwrite announces reaches the device at the latest with the end of the next
\* bsync.
THEOREM SyncIsDurable == Spec => SyncMakesDurable
<1>1. IInv /\ IInv' /\ [Next]_vars
         => [pc = "sync" /\ pc' = "idle" => disk' = announced']_vars
  <2> SUFFICES ASSUME IInv, IInv', Next, pc = "sync", pc' = "idle"
               PROVE  disk' = announced'
    BY DEF vars
  <2>1. CASE BsyncSlot
    <3>1. cur = NSLOT - 1
      BY <2>1 DEF BsyncSlot, LastSlot
    <3>2. ~(valid'[cur] /\ dirty'[cur])
      BY <2>1 DEF BsyncSlot, NeedsWriteBack, IInv, TypeOK
    <3>3. \A i \in Slot : i # cur => i < cur
      BY <3>1, NSLOTAssumption DEF Slot
    <3>4. \A i \in Slot : i # cur => dirty'[i] = dirty[i] /\ valid'[i] = valid[i]
      BY <2>1 DEF BsyncSlot, NeedsWriteBack, IInv, TypeOK
    <3>5. \A i \in Slot : ~(valid'[i] /\ dirty'[i])
      BY <3>2, <3>3, <3>4 DEF IInv, CallInv
    <3> QED
      BY <3>5, CleanIsDurableNext DEF AllClean, AllDurable
  <2>2. CASE Crash \/ TornCrash
    BY <2>2 DEF Crash, TornCrash, Boot
  <2> QED
    BY <2>1, <2>2 DEF Next, BreadHit, BreadMiss, BreadPanic, Evict, Fill, Store, Bwrite,
       Brelse, BsyncCall
<1> QED
  BY <1>1, Invariance, PTL DEF Spec, SyncMakesDurable

-----------------------------------------------------------------------------
(***************************************************************************)
(* Refinement of BlockStore                                                *)
(***************************************************************************)
\* Evict and each writing step of bsync make one block durable.
LEMMA WriteBackPersists ==
    ASSUME IInv, IInv', NEW i \in Slot, valid[i],
           WriteBack(i),
           UNCHANGED <<blkNo, valid, data, handle, want>>
    PROVE  BS!Next
<1>1. ViewAt /\ ViewAt'
  BY ViewIsCoherent, ViewIsCoherentNext
<1>2. blkNo[i] \in Block /\ Holds(i, blkNo[i]) /\ View[blkNo[i]] = data[i]
  BY <1>1 DEF IInv, TypeOK, Holds, ViewAt
<1>3. View' = View
  <2>1. \A b \in Block : View'[b] = View[b]
    BY <1>1, <1>2 DEF ViewAt, Holds, IInv, TypeOK, WriteBack
  <2> QED
    BY <1>1, <2>1 DEF ViewAt
<1>4. Ref' = Ref
  BY DEF Ref
<1>5. BS!Persist(blkNo[i])
  BY <1>2, <1>3, <1>4 DEF BS!Persist, WriteBack
<1> QED
  BY <1>2, <1>5 DEF BS!Next, BS!Block, Block

\* A step that changes no contents, header or pointer is invisible.
LEMMA InvisibleStep ==
    ASSUME UNCHANGED <<disk, announced, blkNo, valid, data, handle, want>>
    PROVE  UNCHANGED BS!vars
BY DEF BS!vars, View, Ref, Holds

LEMMA FillGets ==
    ASSUME IInv, IInv', Fill
    PROVE  BS!Next
<1>0. PICK h \in Handle, b \in Block, k \in Slot : h = req[1] /\ b = req[2] /\ k = cur
  BY DEF Fill, IInv, TypeOK
<1>1. ViewAt /\ ViewAt'
  BY ViewIsCoherent, ViewIsCoherentNext
<1>2. /\ handle[h] = NoSlot
      /\ \A j \in Slot : ~Holds(j, b)
      /\ valid[k] => disk[blkNo[k]] = announced[blkNo[k]]
      /\ \A x \in Handle : handle[x] # k
  BY <1>0, RefcntZero DEF Fill, IInv, TypeOK, CallInv
<1>3. View'[b] = View[b]
  <2>1. Holds(k, b)' /\ data'[k] = disk[b]
    BY <1>0, <1>2 DEF Fill, IInv, TypeOK, Holds
  <2> QED
    BY <1>1, <1>2, <2>1 DEF ViewAt, Fill
\* a block in another slot keeps its contents, one in no slot shows the device
<1>4. ASSUME NEW c \in Block, c # b, ~Holds(k, c) PROVE View'[c] = View[c]
  <2>1. CASE \E i \in Slot : Holds(i, c)
    <3>1. PICK i \in Slot : i # k /\ Holds(i, c)
      BY <1>4, <2>1
    <3>2. Holds(i, c)' /\ data'[i] = data[i]
      BY <1>0, <3>1 DEF Fill, IInv, TypeOK, Holds
    <3> QED
      BY <1>1, <3>1, <3>2 DEF ViewAt
  <2>2. CASE \A i \in Slot : ~Holds(i, c)
    <3>1. \A i \in Slot : ~Holds(i, c)'
      BY <1>0, <1>4, <2>2 DEF Fill, IInv, TypeOK, Holds
    <3> QED
      BY <1>1, <2>2, <3>1 DEF ViewAt, Fill
  <2> QED
    BY <2>1, <2>2
\* the victim's block is left with what was announced of it
<1>5. ASSUME NEW c \in Block, Holds(k, c)
      PROVE  c # b /\ View'[c] = announced[c] /\ BS!Forgettable(c)
  <2>1. c # b /\ c = blkNo[k] /\ valid[k]
    BY <1>2, <1>5 DEF Holds
  <2>2. View'[c] = disk[c]
    <3>1. \A i \in Slot : ~Holds(i, c)'
      BY <1>0, <1>5, <2>1 DEF Fill, IInv, TypeOK, Holds, UniqueBlock
    <3> QED
      BY <1>1, <3>1 DEF ViewAt, Fill
  <2>3. \A x \in Handle : Ref[x] # c
    BY <1>2, <1>5, SMTT(30) DEF Ref, IInv, TypeOK, HandlePinsBlock, UniqueBlock, Holds, Block
  <2> QED
    BY <1>2, <2>1, <2>2, <2>3 DEF BS!Forgettable
<1>6. \/ View' = View
      \/ \E c \in Block \ {b} :
            BS!Forgettable(c) /\ View' = [View EXCEPT ![c] = announced[c]]
  <2>1. View \in [Block -> Data] /\ View' \in [Block -> Data]
    BY <1>1 DEF ViewAt
  <2>2. CASE \E c \in Block : Holds(k, c)
    <3>1. PICK c \in Block : Holds(k, c)
      BY <2>2
    <3>2. \A x \in Block : x # c => View'[x] = View[x]
      BY <1>3, <1>4, <3>1 DEF Holds
    <3> QED
      BY <1>5, <2>1, <3>1, <3>2
  <2>3. CASE \A c \in Block : ~Holds(k, c)
    <3>1. \A x \in Block : View'[x] = View[x]
      BY <1>3, <1>4, <2>3
    <3> QED
      BY <2>1, <3>1
  <2> QED
    BY <2>2, <2>3
<1>7. BS!Get(h, b)
  <2>1. Ref[h] = -1
    BY <1>2 DEF Ref
  <2>2. Ref' = [Ref EXCEPT ![h] = b]
    <3>1. handle' = [handle EXCEPT ![h] = k] /\ want' = [want EXCEPT ![h] = b]
      BY <1>0 DEF Fill
    <3>2. k # NoSlot
      BY DEF Slot, NoSlot
    <3> QED
      BY <1>2, <3>1, <3>2 DEF Ref, IInv, TypeOK
  <2> QED
    BY <1>6, <2>1, <2>2 DEF BS!Get, BS!NoBlock, BS!Block, Block, Fill
<1> QED
  BY <1>7 DEF BS!Next, BS!Block, Block

\* bwrite announces what readers of the block see.
LEMMA BwriteAnnounces ==
    ASSUME IInv, NEW h \in Handle, Bwrite(h)
    PROVE  BS!Next
<1>1. handle[h] \in Slot /\ Holds(handle[h], want[h]) /\ want[h] \in Block
  BY DEF Bwrite, IInv, TypeOK, HandlePinsBlock
<1>2. View[want[h]] = data[handle[h]]
  BY <1>1, ViewIsCoherent DEF ViewAt
<1>3. Ref[h] = want[h] /\ Ref[h] # -1
  BY <1>1 DEF Ref, Slot, NoSlot, Block
<1>4. UNCHANGED <<View, Ref>>
  BY DEF Bwrite, callers, View, Ref, Holds
<1>5. BS!Announce(h)
  BY <1>2, <1>3, <1>4 DEF BS!Announce, BS!NoBlock, Bwrite
<1> QED
  BY <1>5 DEF BS!Next

LEMMA StorePuts ==
    ASSUME IInv, IInv', NEW h \in Handle, NEW d \in Data, Store(h, d)
    PROVE  BS!Next
<1>1. ViewAt /\ ViewAt'
  BY ViewIsCoherent, ViewIsCoherentNext
<1>2. handle[h] \in Slot /\ Holds(handle[h], want[h]) /\ want[h] \in Block
  BY DEF Store, IInv, TypeOK, HandlePinsBlock
<1>3. View' = [View EXCEPT ![want[h]] = d]
  <2>1. View'[want[h]] = d
    BY <1>1, <1>2 DEF ViewAt, Store, IInv, TypeOK, Holds
  <2>2. ASSUME NEW c \in Block, c # want[h] PROVE View'[c] = View[c]
    <3>1. \A i \in Slot : Holds(i, c)' <=> Holds(i, c)
      BY DEF Store, Holds
    <3>2. \A i \in Slot : Holds(i, c) => data'[i] = data[i]
      BY <1>2, <2>2 DEF Store, Holds, IInv, TypeOK
    <3> QED
      BY <1>1, <3>1, <3>2 DEF ViewAt, Store
  <2> QED
    BY <1>1, <2>1, <2>2 DEF ViewAt
<1>4. Ref[h] = want[h] /\ Ref[h] # -1 /\ Ref' = Ref
  BY <1>2 DEF Ref, Store, Slot, NoSlot, Block, callers
<1>5. BS!Put(h, d)
  BY <1>3, <1>4 DEF BS!Put, BS!NoBlock, Store
<1> QED
  BY <1>5 DEF BS!Next

\* Every step of the cache is a step of the store or invisible to it.
LEMMA StepSimulates ==
    ASSUME IInv, IInv', [Next]_vars
    PROVE  [BS!Next]_(BS!vars)
<1>1. ViewAt /\ ViewAt'
  BY ViewIsCoherent, ViewIsCoherentNext
<1>2. ASSUME NEW h \in Handle, NEW b \in Block, BreadHit(h, b) PROVE BS!Next
  <2>1. View' = View
    BY <1>2 DEF BreadHit, View, Holds
  <2>2. PICK i \in Slot : handle' = [handle EXCEPT ![h] = i]
    BY <1>2 DEF BreadHit
  <2>3. Ref[h] = -1 /\ Ref' = [Ref EXCEPT ![h] = b]
    <3>1. i # NoSlot /\ handle[h] = NoSlot /\ want' = [want EXCEPT ![h] = b]
      BY <1>2 DEF BreadHit, Slot, NoSlot
    <3> QED
      BY <2>2, <3>1 DEF Ref, IInv, TypeOK
  <2>4. BS!Get(h, b)
    BY <1>2, <2>1, <2>3 DEF BS!Get, BS!NoBlock, BreadHit
  <2> QED
    BY <2>4 DEF BS!Next, BS!Block, Block
<1>3. ASSUME NEW h \in Handle, NEW b \in Block, BreadMiss(h, b) \/ BreadPanic(h, b)
      PROVE  UNCHANGED BS!vars
  BY <1>3, InvisibleStep DEF BreadMiss, BreadPanic, cache, callers
<1>4. ASSUME Evict PROVE BS!Next
  <2>1. cur \in Slot /\ valid[cur]
    BY <1>4 DEF Evict, IInv, TypeOK, CallInv
  <2> QED
    BY <1>4, <2>1, WriteBackPersists DEF Evict, cache, callers
<1>5. ASSUME Fill PROVE BS!Next
  BY <1>5, FillGets
<1>6. ASSUME NEW h \in Handle, NEW d \in Data, Store(h, d) PROVE BS!Next
  BY <1>6, StorePuts
<1>7. ASSUME NEW h \in Handle, Bwrite(h) PROVE BS!Next
  BY <1>7, BwriteAnnounces
<1>8. ASSUME NEW h \in Handle, Brelse(h) PROVE BS!Next
  <2>1. /\ handle[h] \in Slot /\ handle[h] # NoSlot /\ want[h] \in Block
        /\ handle' = [handle EXCEPT ![h] = NoSlot]
        /\ want' = [want EXCEPT ![h] = 0]
    BY <1>8, RefcntZero DEF Brelse, DropRef, IInv, TypeOK
  <2>2. View' = View /\ disk' = disk /\ announced' = announced
    BY <1>8 DEF Brelse, DropRef, View, Holds
  <2>3. Ref[h] # -1
    BY <2>1 DEF Ref, Block
  <2>4. Ref' = [Ref EXCEPT ![h] = -1]
    <3>1. \A x \in Handle : x # h => handle'[x] = handle[x] /\ want'[x] = want[x]
      BY <2>1
    <3>2. handle'[h] = NoSlot
      BY <2>1 DEF IInv, TypeOK
    <3> QED
      BY <3>1, <3>2 DEF Ref
  <2>5. BS!Drop(h)
    BY <2>2, <2>3, <2>4 DEF BS!Drop, BS!NoBlock
  <2> QED
    BY <2>5 DEF BS!Next
<1>9. ASSUME BsyncCall PROVE UNCHANGED BS!vars
  BY <1>9, InvisibleStep DEF BsyncCall, cache, callers
<1>10. ASSUME BsyncSlot PROVE [BS!Next]_(BS!vars)
  <2>1. cur \in Slot
    BY DEF IInv, TypeOK
  <2>2. CASE valid[cur] /\ dirty[cur]
    BY <1>10, <2>1, <2>2, WriteBackPersists DEF BsyncSlot, NeedsWriteBack, callers
  <2>3. CASE ~(valid[cur] /\ dirty[cur])
    BY <1>10, <2>3, InvisibleStep DEF BsyncSlot, NeedsWriteBack, callers
  <2> QED
    BY <2>2, <2>3
<1>11. ASSUME Crash PROVE BS!Next
  <2>1. View' = disk /\ disk' = disk
    <3>1. \A b \in Block : View'[b] = disk[b]
      BY <1>1, <1>11 DEF ViewAt, Crash, Boot, All, Holds
    <3>2. View' \in [Block -> Data] /\ disk \in [Block -> Data]
      BY <1>1 DEF ViewAt, IInv, TypeOK
    <3>3. disk' = disk
      BY <1>11 DEF Crash
    <3> QED
      BY <3>1, <3>2, <3>3
  <2>2. Ref' = [h \in Handle |-> -1]
    BY <1>11 DEF Crash, Boot, Ref
  <2>3. BS!Reboot
    BY <1>11, <2>1, <2>2 DEF BS!Reboot, BS!Fallback, BS!NoBlock, Crash, Boot
  <2> QED
    BY <2>3 DEF BS!Next
<1>13. ASSUME TornCrash PROVE BS!Next
  <2>1. blkNo[cur] \in Block /\ Holds(cur, blkNo[cur]) /\ disk' \in [Block -> Data]
    BY <1>13, TornDisk DEF IInv, TypeOK, Holds
  <2>2. View[blkNo[cur]] = data[cur]
    BY <1>1, <1>13, <2>1, TornDisk DEF ViewAt
  <2>3. View' = disk'
    <3>1. \A b \in Block : View'[b] = disk'[b]
      BY <1>1, <1>13 DEF ViewAt, TornCrash, Boot, All, Holds
    <3> QED
      BY <1>1, <2>1, <3>1 DEF ViewAt
  <2>4. Ref' = [h \in Handle |-> -1]
    BY <1>13 DEF TornCrash, Boot, Ref
  <2>5. BS!TornReboot(blkNo[cur])
    BY <1>13, <2>2, <2>3, <2>4 DEF BS!TornReboot, BS!Fallback, BS!NoBlock, TornCrash, Boot
  <2> QED
    BY <2>1, <2>5 DEF BS!Next, BS!Block, Block
<1>12. ASSUME UNCHANGED vars PROVE UNCHANGED BS!vars
  BY <1>12, InvisibleStep DEF vars, cache, callers
<1> QED
  BY <1>2, <1>3, <1>4, <1>5, <1>6, <1>7, <1>8, <1>9, <1>10, <1>11, <1>12, <1>13 DEF Next

LEMMA InitSimulates == Init => BS!Init
<1> SUFFICES ASSUME Init PROVE BS!Init
  OBVIOUS
<1>1. ViewAt
  BY InitIInv, ViewIsCoherent
<1>2. View = disk
  <2>1. \A b \in Block : View[b] = disk[b]
    BY <1>1 DEF ViewAt, Init, All, Holds
  <2> QED
    BY <1>1, <2>1 DEF ViewAt, Init
<1>3. Ref = [h \in Handle |-> -1]
  BY DEF Ref, Init
<1> QED
  BY <1>2, <1>3 DEF BS!Init, BS!Block, BS!NoBlock, Block, Init

\* With the cache in front, callers see the block store of include/fs.h, before and
\* after a crash: misses, evictions, write-backs and sync change nothing they can
\* observe, but for a store nobody announced with bwrite, which a block without
\* references may lose.
THEOREM CacheImplementsStore == Spec => ImplementsBlockStore
<1>1. Init => BS!Init
  BY InitSimulates
<1>2. IInv /\ IInv' /\ [Next]_vars => [BS!Next]_(BS!vars)
  BY StepSimulates
<1> QED
  BY <1>1, <1>2, Invariance, PTL DEF Spec, ImplementsBlockStore, BS!Spec

=============================================================================
