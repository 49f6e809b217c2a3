----------------------------- MODULE VirtioBlk ------------------------------
(***************************************************************************)
(* driver/virtio_mmio.c: the polling virtio block driver and the device    *)
(* behind it, which run concurrently and share the request, the data       *)
(* buffer, the status byte and the two ring indices.                       *)
(*                                                                         *)
(* A block is SPB = BLKSZ / 512 sectors and one request moves one sector.  *)
(* The ring indices are u16 in the code and W-valued here.  The device is  *)
(* external: it may start as soon as avail.idx has moved (the notification *)
(* is then a hint) and may fail a request.  Stores of the driver become    *)
(* visible to it in program order.                                         *)
(***************************************************************************)
EXTENDS Integers

CONSTANTS NBLK,     \* blocks of the device
          SPB,      \* sectors of a block
          Data,     \* contents of a sector
          W         \* number of values of a ring index, 2^16 in the code

ASSUME NBLKAssumption == NBLK \in Nat \ {0}
ASSUME SPBAssumption  == SPB \in Nat \ {0}
ASSUME WAssumption    == W \in Nat /\ W > 1

T_IN  == 0            \* VIRTIO_BLK_T_IN
T_OUT == 1            \* VIRTIO_BLK_T_OUT

Block  == 0 .. (NBLK - 1)
Sector == 0 .. (NBLK * SPB - 1)
Part   == 0 .. (SPB - 1)
Content == [Part -> Data]
Index  == 0 .. (W - 1)

VARIABLES disk,     \* disk[s]: sector s of the device
          \* the driver
          stmt,     \* the statement of virtio_blk_submit it is at
          op, no,   \* the call: blkread (T_IN) or blkwrite (T_OUT) of block no
          idx,      \* loop counter of blkread and blkwrite
          buf,      \* the caller's BLKSZ buffer
          lastUsed, \* last_used
          \* memory shared with the device
          hdr,      \* disk_io.hdr
          part,     \* desc[1].addr: the part of buf the request moves
          status,   \* disk_io.status: 255 until the device has answered
          availIdx, usedIdx,
          \* the device
          dev,      \* what it does: "wait", "move", "answer" or "publish"
          taken,    \* the last value of availIdx it acted upon
          failed    \* the request at hand failed

call    == <<op, no, buf>>
request == <<hdr, part>>
device  == <<dev, taken, failed>>
virtioVars == <<disk, stmt, call, idx, lastUsed, request, status, availIdx, usedIdx, device>>

VirtioInit ==
    /\ disk \in [Sector -> Data]
    /\ stmt = "off" /\ op = T_IN /\ no = 0 /\ idx = 0
    /\ buf \in Content
    /\ lastUsed = 0
    /\ hdr = [type |-> T_IN, sector |-> 0] /\ part = 0 /\ status = 0
    /\ availIdx = 0 /\ usedIdx = 0
    /\ dev = "wait" /\ taken = 0 /\ failed = FALSE

Succ(x) == (x + 1) % W

(***************************************************************************)
(* The driver.  A call and its loop.                                       *)
(***************************************************************************)
\* Probe, reset, feature negotiation and queue setup, or one of their panics.
Blkinit ==
    /\ stmt = "off"
    /\ stmt' \in {"idle", "panic"}
    /\ UNCHANGED <<disk, call, idx, lastUsed, request, status, availIdx, usedIdx, device>>

\* Callers ask for a block that may lie beyond the end of the device: block
\* numbers come from the disk's own metadata.
Blkread(b) ==
    /\ stmt = "idle"
    /\ op' = T_IN /\ no' = b /\ idx' = 0
    /\ stmt' = "fill"
    /\ UNCHANGED <<disk, buf, lastUsed, request, status, availIdx, usedIdx, device>>

Blkwrite(b, c) ==
    /\ stmt = "idle"
    /\ op' = T_OUT /\ no' = b /\ buf' = c /\ idx' = 0
    /\ stmt' = "fill"
    /\ UNCHANGED <<disk, lastUsed, request, status, availIdx, usedIdx, device>>

\* (X_Mut... is a mistaken variant of X that a mutation run puts in its place.)

\* virtio_blk_submit: header, status byte and descriptors, then last_used.
FirstSector(b) == b * SPB

Sample == lastUsed' = usedIdx

Fill ==
    /\ stmt = "fill"
    /\ hdr' = [type |-> op, sector |-> FirstSector(no) + idx]
    /\ part' = idx
    /\ status' = 255
    /\ Sample
    /\ stmt' = "post"
    /\ UNCHANGED <<disk, call, idx, availIdx, usedIdx, device>>

\* avail.ring[...] = 0; avail.idx++ -- from here on the device owns the request.
Post ==
    /\ stmt = "post"
    /\ availIdx' = Succ(availIdx)
    /\ stmt' = "poll"
    /\ UNCHANGED <<disk, call, idx, lastUsed, request, status, usedIdx, device>>

\* while (used.idx == last_used): the loop ends.
Done_MutNoWrap == usedIdx > lastUsed
Done_MutStatus == status # 255
Done == usedIdx # lastUsed

Poll ==
    /\ stmt = "poll" /\ Done
    /\ stmt' = "check"
    /\ UNCHANGED <<disk, call, idx, lastUsed, request, status, availIdx, usedIdx, device>>

\* A status other than 0 is a panic; otherwise the next sector, or return.
Failed_MutUnwritten == status = 255
Failed == status # 0

LastPart_MutBeyond == SPB
LastPart == SPB - 1

Check ==
    /\ stmt = "check"
    /\ IF Failed THEN stmt' = "panic" /\ UNCHANGED idx
       ELSE IF idx = LastPart THEN stmt' = "idle" /\ UNCHANGED idx
       ELSE stmt' = "fill" /\ idx' = idx + 1
    /\ UNCHANGED <<disk, call, lastUsed, request, status, availIdx, usedIdx, device>>

(***************************************************************************)
(* The device.                                                             *)
(***************************************************************************)
DevTake ==
    /\ dev = "wait" /\ taken # availIdx
    /\ dev' = "move" /\ taken' = Succ(taken)
    /\ UNCHANGED <<disk, stmt, call, idx, lastUsed, request, status, availIdx, usedIdx, failed>>

\* The transfer, possible only on a sector the device has.
DevMove ==
    /\ dev = "move" /\ hdr.sector \in Sector
    /\ \/ /\ hdr.type = T_IN
          /\ buf' = [buf EXCEPT ![part] = disk[hdr.sector]]
          /\ UNCHANGED disk
       \/ /\ hdr.type = T_OUT
          /\ disk' = [disk EXCEPT ![hdr.sector] = buf[part]]
          /\ UNCHANGED buf
    /\ dev' = "answer" /\ failed' = FALSE
    /\ UNCHANGED <<stmt, op, no, idx, lastUsed, request, status, availIdx, usedIdx, taken>>

DevFail ==
    /\ dev = "move"
    /\ dev' = "answer" /\ failed' = TRUE
    /\ UNCHANGED <<disk, stmt, call, idx, lastUsed, request, status, availIdx, usedIdx, taken>>

DevAnswer ==
    /\ dev = "answer"
    /\ status' = IF failed THEN 1 ELSE 0
    /\ dev' = "publish"
    /\ UNCHANGED <<disk, stmt, call, idx, lastUsed, request, availIdx, usedIdx, taken, failed>>

DevPublish ==
    /\ dev = "publish"
    /\ usedIdx' = Succ(usedIdx)
    /\ dev' = "wait"
    /\ UNCHANGED <<disk, stmt, call, idx, lastUsed, request, status, availIdx, taken, failed>>

(***************************************************************************)
(* Power loss and the boot after it: the queue is .bss and blkinit resets  *)
(* the device, so both sides start from index 0 again.                     *)
(***************************************************************************)
Crash ==
    /\ stmt' = "off" /\ op' = T_IN /\ no' = 0 /\ idx' = 0
    /\ buf' \in Content
    /\ lastUsed' = 0
    /\ hdr' = [type |-> T_IN, sector |-> 0] /\ part' = 0 /\ status' = 0
    /\ availIdx' = 0 /\ usedIdx' = 0
    /\ dev' = "wait" /\ taken' = 0 /\ failed' = FALSE
    /\ UNCHANGED disk

Driver == Fill \/ Post \/ Poll \/ Check
Device == DevTake \/ DevMove \/ DevFail \/ DevAnswer \/ DevPublish

VirtioNext ==
    \/ Blkinit
    \/ \E b \in 0 .. NBLK : Blkread(b)
    \/ \E b \in 0 .. NBLK, c \in Content : Blkwrite(b, c)
    \/ Fill \/ Post \/ Poll \/ Check
    \/ DevTake \/ DevMove \/ DevFail \/ DevAnswer \/ DevPublish
    \/ Crash

VirtioSpec == VirtioInit /\ [][VirtioNext]_virtioVars

\* The hart executes the driver (nothing preempts it: interrupts are off), and
\* the device eventually serves a request it has been given.
FairSpec == VirtioSpec /\ WF_virtioVars(Driver) /\ WF_virtioVars(Device)

(***************************************************************************)
(* Properties                                                              *)
(***************************************************************************)
\* The type invariant of driver, shared memory and device.
VirtioTypeOK ==
    /\ disk \in [Sector -> Data]
    /\ stmt \in {"off", "idle", "fill", "post", "poll", "check", "panic"}
    /\ op \in {T_IN, T_OUT} /\ no \in Nat /\ idx \in Part
    /\ buf \in Content
    /\ hdr \in [type : {T_IN, T_OUT}, sector : Nat]
    /\ part \in Part /\ status \in {0, 1, 255}
    /\ lastUsed \in Index /\ availIdx \in Index /\ usedIdx \in Index
    /\ dev \in {"wait", "move", "answer", "publish"}
    /\ taken \in Index /\ failed \in BOOLEAN

\* The device works on the request, the buffer and the status byte only while
\* the driver polls: whenever the driver touches them nothing is outstanding,
\* also after the indices have wrapped.  So the status the driver checks is the
\* answer to this very request, not the 0xff it preset nor an earlier sector's.
DeviceQuietUnlessPolling ==
    /\ stmt # "poll" => dev = "wait" /\ taken = availIdx /\ usedIdx = availIdx
    /\ stmt = "check" => status = (IF failed THEN 1 ELSE 0)

\* When blkread or blkwrite returns, the buffer and the whole block agree, and
\* the block exists: no failed or skipped sector is ever taken for a success.
\* Until then the device contents change only by blkwrite, in ascending sectors
\* of its own block: a power loss leaves a prefix of the new block and the old rest.
BlockTransferred ==
    [][/\ stmt = "check" /\ stmt' = "idle" =>
             /\ no \in Block
             /\ \A p \in Part : disk[no * SPB + p] = buf[p]
       /\ disk' # disk =>
             /\ op = T_OUT
             /\ disk' = [disk EXCEPT ![no * SPB + idx] = buf[idx]]
             /\ \A p \in Part : p < idx => disk[no * SPB + p] = buf[p]]_virtioVars

\* A call that has been started returns or panics, whatever values the ring
\* indices start from.
CallReturns == []<>(stmt \in {"off", "idle", "panic"})

=============================================================================
