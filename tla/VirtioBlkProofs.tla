--------------------------- MODULE VirtioBlkProofs --------------------------
(***************************************************************************)
(* Proofs about VirtioBlk for every number of blocks and of sectors in a   *)
(* block, every set of contents and every width of the ring indices.       *)
(***************************************************************************)
EXTENDS VirtioBlk, TLAPS

-----------------------------------------------------------------------------
(***************************************************************************)
(* The inductive invariant.  At most one request is outstanding, so while  *)
(* the driver polls the three ring indices are in one of three positions;  *)
(* IndexInv says which, Submitted and Answered what the request and the    *)
(* status byte then hold, Agrees which sectors the call has moved so far.  *)
(***************************************************************************)
InCall == stmt \in {"fill", "post", "poll", "check"}

\* Part p of the call's block exists and has the same contents in the buffer.
Agrees(p) ==
    /\ FirstSector(no) + p \in Sector
    /\ disk[FirstSector(no) + p] = buf[p]

Untaken   == dev = "wait" /\ taken = lastUsed /\ usedIdx = lastUsed
Serving   == dev # "wait" /\ taken = availIdx /\ usedIdx = lastUsed
Published == dev = "wait" /\ taken = availIdx /\ usedIdx = availIdx

IndexInv ==
    /\ stmt # "poll" => Published
    /\ stmt = "post" => lastUsed = usedIdx
    /\ stmt = "poll" => /\ availIdx = Succ(lastUsed)
                        /\ Untaken \/ Serving \/ Published

\* The request the device sees is the driver's current one.
Submitted ==
    stmt \in {"post", "poll", "check"} =>
         /\ hdr = [type |-> op, sector |-> FirstSector(no) + idx]
         /\ part = idx

\* The device has moved the sector, or failed, and has said which.
Moved == dev \in {"answer", "publish"} \/ Published
Told  == dev = "publish" \/ Published

Answered ==
    /\ stmt = "poll" /\ Moved /\ ~failed => Agrees(idx)
    /\ stmt = "poll" /\ Told => status = (IF failed THEN 1 ELSE 0)
    /\ stmt = "check" => /\ status = (IF failed THEN 1 ELSE 0)
                         /\ ~failed => Agrees(idx)

Prefix == InCall => \A p \in Part : p < idx => Agrees(p)

IInv == VirtioTypeOK /\ IndexInv /\ Submitted /\ Answered /\ Prefix

-----------------------------------------------------------------------------
(***************************************************************************)
(* Arithmetic                                                              *)
(***************************************************************************)
\* A ring index has a successor, and it is another one, wrapped or not.
LEMMA SuccIndex ==
    ASSUME NEW x \in Index
    PROVE  Succ(x) \in Index /\ Succ(x) # x
<1>1. CASE x + 1 = W
  BY <1>1, WAssumption DEF Succ, Index
<1>2. CASE x + 1 # W
  <2>1. x + 1 \in 0 .. (W - 1)
    BY <1>2, WAssumption DEF Index
  <2>2. (x + 1) % W = x + 1
    BY <2>1, WAssumption
  <2> QED
    BY <2>1, <2>2, WAssumption DEF Succ, Index
<1> QED
  BY <1>1, <1>2

LEMMA FirstSectorNat ==
    ASSUME NEW b \in Nat
    PROVE  FirstSector(b) \in Nat
BY SPBAssumption DEF FirstSector

\* Only a block of the device has a sector on it.
LEMMA BlockOfSector ==
    ASSUME NEW b \in Nat, NEW p \in Part, FirstSector(b) + p \in Sector
    PROVE  b \in Block
<1>1. /\ b \in Nat /\ p \in Nat /\ NBLK \in Nat /\ SPB \in Nat /\ SPB > 0
  BY NBLKAssumption, SPBAssumption DEF Part
<1>2. b * SPB + p < NBLK * SPB
  BY <1>1 DEF FirstSector, Sector
<1>3. ASSUME b >= NBLK PROVE FALSE
  <2>1. PICK k \in Nat : b = NBLK + k
    <3>1. b - NBLK \in Nat /\ b = NBLK + (b - NBLK)
      BY <1>1, <1>3
    <3> QED
      BY <3>1
  <2>2. b * SPB = NBLK * SPB + k * SPB
    BY <1>1, <2>1
  <2>3. k * SPB \in Nat /\ NBLK * SPB \in Nat
    BY <1>1, <2>1
  <2> QED
    BY <1>1, <1>2, <2>2, <2>3
<1> QED
  BY <1>1, <1>3 DEF Block

-----------------------------------------------------------------------------
(***************************************************************************)
(* The driver's steps preserve the invariant.                              *)
(***************************************************************************)
LEMMA ZeroTyped ==
    /\ 0 \in Part /\ 0 \in Index /\ 0 \in Nat
    /\ [type |-> T_IN, sector |-> 0] \in [type : {T_IN, T_OUT}, sector : Nat]
<1>1. 0 \in Part /\ 0 \in Index /\ 0 \in Nat
  BY SPBAssumption, WAssumption DEF Part, Index
<1>2. T_IN \in {T_IN, T_OUT}
  OBVIOUS
<1> QED
  BY <1>1, <1>2

LEMMA InitInv == VirtioInit => IInv
<1> SUFFICES ASSUME VirtioInit PROVE IInv
  OBVIOUS
<1> USE DEF VirtioInit
<1>1. VirtioTypeOK
  BY ZeroTyped DEF VirtioTypeOK
<1>2. IndexInv /\ Submitted /\ Answered /\ Prefix
  BY DEF IndexInv, Published, Submitted, Answered, Prefix, InCall
<1> QED
  BY <1>1, <1>2 DEF IInv

\* Starting a call leaves the rings and the device alone.
LEMMA StartInv ==
    ASSUME IInv,
           Blkinit \/ \E b \in 0 .. NBLK : Blkread(b) \/ \E c \in Content : Blkwrite(b, c)
    PROVE  IInv'
<1> USE DEF IInv, call, request, device
<1>1. CASE Blkinit
  <2>1. VirtioTypeOK'
    BY <1>1 DEF Blkinit, VirtioTypeOK
  <2>2. IndexInv' /\ Submitted' /\ Answered' /\ Prefix'
    BY <1>1 DEF Blkinit, IndexInv, Published, Submitted, Answered, Prefix, InCall
  <2> QED
    BY <2>1, <2>2
<1>2. ASSUME NEW b \in 0 .. NBLK, Blkread(b)
      PROVE  IInv'
  <2>1. VirtioTypeOK'
    BY <1>2, SPBAssumption, NBLKAssumption DEF Blkread, VirtioTypeOK, T_IN, Part
  <2>2. IndexInv' /\ Submitted' /\ Answered'
    BY <1>2 DEF Blkread, IndexInv, Published, Submitted, Answered
  <2>3. Prefix'
    BY <1>2 DEF Blkread, Prefix, Part
  <2> QED
    BY <2>1, <2>2, <2>3
<1>3. ASSUME NEW b \in 0 .. NBLK, NEW c \in Content, Blkwrite(b, c)
      PROVE  IInv'
  <2>1. VirtioTypeOK'
    BY <1>3, SPBAssumption, NBLKAssumption DEF Blkwrite, VirtioTypeOK, T_OUT, Part
  <2>2. IndexInv' /\ Submitted' /\ Answered'
    BY <1>3 DEF Blkwrite, IndexInv, Published, Submitted, Answered
  <2>3. Prefix'
    BY <1>3 DEF Blkwrite, Prefix, Part
  <2> QED
    BY <2>1, <2>2, <2>3
<1> QED
  BY <1>1, <1>2, <1>3

\* Nothing is outstanding when the driver rewrites the request and samples the
\* used index.
LEMMA FillInv ==
    ASSUME IInv, Fill
    PROVE  IInv'
<1> USE DEF IInv, Fill, Sample, call, device
<1>1. VirtioTypeOK'
  BY FirstSectorNat DEF VirtioTypeOK, Part
<1>2. IndexInv'
  BY DEF IndexInv, Published
<1>3. Submitted' /\ Answered'
  BY DEF Submitted, Answered, VirtioTypeOK
<1>4. Prefix'
  BY DEF Prefix, InCall, Agrees
<1> QED
  BY <1>1, <1>2, <1>3, <1>4

\* Posting makes the available index differ from the used one, wrapped or not.
LEMMA PostInv ==
    ASSUME IInv, Post
    PROVE  IInv'
<1> USE DEF IInv, Post, call, request, device
<1>1. VirtioTypeOK'
  BY SuccIndex DEF VirtioTypeOK
<1>2. availIdx' = Succ(lastUsed') /\ availIdx' # taken' /\ Untaken'
  BY SuccIndex DEF VirtioTypeOK, IndexInv, Published, Untaken
<1>3. IndexInv'
  BY <1>2 DEF IndexInv
<1>4. Submitted'
  BY DEF Submitted
<1>5. Answered'
  BY <1>2 DEF Answered, Moved, Told, Published, Untaken
<1>6. Prefix'
  BY DEF Prefix, InCall, Agrees
<1> QED
  BY <1>1, <1>3, <1>4, <1>5, <1>6

\* The poll loop ends only after the device has published this request.
LEMMA PollInv ==
    ASSUME IInv, Poll
    PROVE  IInv'
<1> USE DEF IInv, Poll, Done, call, request, device
<1>1. VirtioTypeOK'
  BY DEF VirtioTypeOK
<1>2. Published
  BY DEF IndexInv, Untaken, Serving
<1>3. IndexInv'
  BY <1>2 DEF IndexInv, Published
<1>4. Submitted'
  BY DEF Submitted
<1>5. Answered'
  BY <1>2 DEF Answered, Moved, Told, Agrees
<1>6. Prefix'
  BY DEF Prefix, InCall, Agrees
<1> QED
  BY <1>1, <1>3, <1>4, <1>5, <1>6

\* Going on to the next sector extends the part of the block that agrees.
LEMMA CheckInv ==
    ASSUME IInv, Check
    PROVE  IInv'
<1> USE DEF IInv, Check, Failed, LastPart, call, request, device
<1>1. VirtioTypeOK'
  BY SPBAssumption DEF VirtioTypeOK, Part
<1>2. IndexInv'
  BY DEF IndexInv, Published
<1>3. Submitted' /\ Answered'
  BY DEF Submitted, Answered
<1>4. Prefix'
  <2> SUFFICES ASSUME stmt' = "fill", NEW p \in Part, p < idx'
               PROVE  Agrees(p)'
    BY DEF Prefix, InCall
  <2>1. idx' = idx + 1 /\ status = 0 /\ stmt = "check"
    OBVIOUS
  <2>2. Agrees(idx)
    BY <2>1 DEF Answered
  <2>3. p < idx \/ p = idx
    BY <2>1 DEF VirtioTypeOK, Part
  <2>4. Agrees(p)
    BY <2>1, <2>2, <2>3 DEF Prefix, InCall
  <2> QED
    BY <2>4 DEF Agrees
<1> QED
  BY <1>1, <1>2, <1>3, <1>4

-----------------------------------------------------------------------------
(***************************************************************************)
(* The device's steps do.  It leaves "wait" only for a posted request, so  *)
(* all of them are taken while the driver polls.                           *)
(***************************************************************************)
LEMMA DeviceQuiet ==
    ASSUME IInv, dev # "wait" \/ taken # availIdx
    PROVE  stmt = "poll"
BY DEF IInv, IndexInv, Published

LEMMA TakeInv ==
    ASSUME IInv, DevTake
    PROVE  IInv'
<1> USE DEF IInv, DevTake, call, request
<1>1. stmt = "poll" /\ Untaken
  BY DeviceQuiet DEF IndexInv, Serving, Published, Untaken
<1>2. VirtioTypeOK'
  BY SuccIndex DEF VirtioTypeOK
<1>3. IndexInv' /\ Serving'
  BY <1>1 DEF IndexInv, Untaken, Serving
<1>4. Submitted'
  BY DEF Submitted
<1>5. Answered'
  BY <1>1, <1>3 DEF Answered, Moved, Told, Published
<1>6. Prefix'
  BY DEF Prefix, InCall, Agrees
<1> QED
  BY <1>2, <1>3, <1>4, <1>5, <1>6

\* The transfer makes the current part agree and none of the earlier ones differ.
LEMMA MoveInv ==
    ASSUME IInv, DevMove
    PROVE  IInv'
<1> USE DEF IInv, DevMove, request
<1>1. stmt = "poll" /\ Serving /\ stmt' = stmt /\ dev = "move" /\ dev' = "answer"
  BY DeviceQuiet DEF IndexInv, Untaken, Published
<1>2. /\ hdr = [type |-> op, sector |-> FirstSector(no) + idx]
      /\ part = idx
      /\ hdr.sector = FirstSector(no) + idx /\ hdr.type = op
      /\ FirstSector(no) + idx \in Sector
  BY <1>1 DEF Submitted
<1>3. disk \in [Sector -> Data] /\ buf \in [Part -> Data] /\ idx \in Part
      /\ FirstSector(no) \in Nat
  BY FirstSectorNat DEF VirtioTypeOK, Content
<1>4. \/ buf' = [buf EXCEPT ![idx] = disk[FirstSector(no) + idx]] /\ disk' = disk
      \/ disk' = [disk EXCEPT ![FirstSector(no) + idx] = buf[idx]] /\ buf' = buf
  BY <1>2
<1>5. VirtioTypeOK'
  <2>1. disk' \in [Sector -> Data] /\ buf' \in Content
    <3>1. CASE buf' = [buf EXCEPT ![idx] = disk[FirstSector(no) + idx]] /\ disk' = disk
      <4>1. disk[FirstSector(no) + idx] \in Data
        BY <1>2, <1>3
      <4> QED
        BY <1>3, <3>1, <4>1 DEF Content
    <3>2. CASE disk' = [disk EXCEPT ![FirstSector(no) + idx] = buf[idx]] /\ buf' = buf
      <4>1. buf[idx] \in Data
        BY <1>3
      <4> QED
        BY <1>3, <3>2, <4>1 DEF Content
    <3> QED
      BY <1>4, <3>1, <3>2
  <2>2. /\ UNCHANGED <<stmt, op, no, idx, lastUsed, hdr, part, status, availIdx, usedIdx, taken>>
        /\ dev' = "answer" /\ failed' = FALSE
    OBVIOUS
  <2>3. VirtioTypeOK
    OBVIOUS
  <2>4. /\ stmt' = stmt /\ op' = op /\ no' = no /\ idx' = idx /\ lastUsed' = lastUsed /\ hdr' = hdr
        /\ part' = part /\ status' = status /\ availIdx' = availIdx /\ usedIdx' = usedIdx
        /\ taken' = taken
    BY ONLY <2>2
  <2>5. dev' = "answer" /\ failed' = FALSE
    BY ONLY <2>2
  <2>6. /\ stmt' \in {"off", "idle", "fill", "post", "poll", "check", "panic"}
        /\ op' \in {T_IN, T_OUT} /\ no' \in Nat /\ idx' \in Part
        /\ hdr' \in [type : {T_IN, T_OUT}, sector : Nat]
    BY ONLY <2>3, <2>4 DEF VirtioTypeOK
  <2>7. /\ part' \in Part /\ status' \in {0, 1, 255}
        /\ lastUsed' \in Index /\ availIdx' \in Index /\ usedIdx' \in Index /\ taken' \in Index
    BY ONLY <2>3, <2>4 DEF VirtioTypeOK
  <2>8. dev' \in {"wait", "move", "answer", "publish"} /\ failed' \in BOOLEAN
    BY ONLY <2>5
  <2> QED
    BY ONLY <2>1, <2>6, <2>7, <2>8 DEF VirtioTypeOK
<1>6. IndexInv' /\ Submitted'
  BY <1>1 DEF IndexInv, Serving, Submitted
<1>7. Agrees(idx)' /\ \A p \in Part : p < idx /\ Agrees(p) => Agrees(p)'
  <2> DEFINE F == FirstSector(no)
  <2>1. FirstSector(no)' = F /\ idx' = idx
    BY DEF FirstSector
  <2>2. \A p \in Part : p \in Nat /\ (p < idx => p # idx /\ F + p # F + idx)
    BY <1>3 DEF Part
  <2> HIDE DEF F
  <2>3. /\ disk'[F + idx] = buf'[idx]
        /\ \A p \in Part : p < idx /\ F + p \in Sector /\ disk[F + p] = buf[p]
              => disk'[F + p] = buf'[p]
    BY <1>2, <1>3, <1>4, <2>2 DEF F
  <2> QED
    BY <1>2, <2>1, <2>3 DEF Agrees, F
<1>8. Answered'
  BY <1>1, <1>7 DEF Answered, Told, Published
<1>9. Prefix'
  BY <1>1, <1>7 DEF Prefix, InCall
<1> QED
  BY <1>5, <1>6, <1>8, <1>9

\* A failure, the status byte and the used index change neither buffer nor disk.
LEMMA AnswerInv ==
    ASSUME IInv, DevFail \/ DevAnswer \/ DevPublish
    PROVE  IInv'
<1> USE DEF IInv, DevFail, DevAnswer, DevPublish, call, request
<1>1. stmt = "poll" /\ Serving
  BY DeviceQuiet DEF IndexInv, Untaken, Published
<1>2. VirtioTypeOK'
  <2>1. ASSUME DevFail \/ DevAnswer
        PROVE  VirtioTypeOK'
    <3>1. VirtioTypeOK /\ UNCHANGED <<disk, stmt, op, no, idx, lastUsed, buf, hdr, part, availIdx, usedIdx, taken>>
      BY <2>1
    <3>2. status' \in {0, 1, 255} /\ dev' \in {"wait", "move", "answer", "publish"} /\ failed' \in BOOLEAN
      BY <2>1 DEF VirtioTypeOK
    <3> QED
      BY ONLY <3>1, <3>2 DEF VirtioTypeOK
  <2>2. DevPublish => VirtioTypeOK'
    BY SuccIndex DEF VirtioTypeOK
  <2> QED
    BY <2>1, <2>2
<1>3. IndexInv'
  BY <1>1 DEF IndexInv, Serving, Published
<1>4. Submitted'
  BY DEF Submitted
<1>5. Answered'
  BY <1>1 DEF Answered, Serving, Moved, Told, Published, Agrees
<1>6. Prefix'
  BY DEF Prefix, InCall, Agrees
<1> QED
  BY <1>2, <1>3, <1>4, <1>5, <1>6

LEMMA CrashInv ==
    ASSUME IInv, Crash
    PROVE  IInv'
<1> USE DEF IInv, Crash
<1>1. VirtioTypeOK'
  BY ZeroTyped DEF VirtioTypeOK
<1>2. IndexInv' /\ Submitted' /\ Answered' /\ Prefix'
  BY DEF IndexInv, Published, Submitted, Answered, Prefix, InCall
<1> QED
  BY <1>1, <1>2

LEMMA StepInv == IInv /\ [VirtioNext]_virtioVars => IInv'
<1> SUFFICES ASSUME IInv, [VirtioNext]_virtioVars PROVE IInv'
  OBVIOUS
<1>1. CASE UNCHANGED virtioVars
  <2> USE <1>1 DEF virtioVars, call, request, device
  <2>1. VirtioTypeOK' /\ IndexInv' /\ Submitted'
    BY DEF IInv, VirtioTypeOK, IndexInv, Untaken, Serving, Published, Submitted
  <2>2. Answered' /\ Prefix'
    BY DEF IInv, Answered, Moved, Told, Published, Prefix, InCall, Agrees
  <2> QED
    BY <2>1, <2>2 DEF IInv
<1>2. CASE VirtioNext
  BY <1>2, StartInv, FillInv, PostInv, PollInv, CheckInv, TakeInv, MoveInv,
     AnswerInv, CrashInv DEF VirtioNext
<1> QED
  BY <1>1, <1>2

LEMMA Invariance == VirtioSpec => []IInv
BY InitInv, StepInv, PTL DEF VirtioSpec

-----------------------------------------------------------------------------
(***************************************************************************)
(* The theorems.                                                           *)
(***************************************************************************)
\* The type invariant: no index, loop counter, request or status byte ever leaves
\* its range.
THEOREM TypeCorrect == VirtioSpec => []VirtioTypeOK
<1>1. IInv => VirtioTypeOK
  BY DEF IInv
<1> QED
  BY <1>1, Invariance, PTL

\* virtio_blk_submit and the device never touch the request, the buffer and the
\* status byte at the same time, and the status it checks is the answer to the
\* request it posted, however the ring indices wrap.
THEOREM SharedMemoryOwned == VirtioSpec => []DeviceQuietUnlessPolling
<1>1. IInv => DeviceQuietUnlessPolling
  BY DEF IInv, IndexInv, Published, Answered, DeviceQuietUnlessPolling
<1> QED
  BY <1>1, Invariance, PTL

\* blkread and blkwrite return only after every sector of a block that exists has
\* been moved, and a write changes the device in ascending sectors of its block.
THEOREM TransferIsWhole == VirtioSpec => BlockTransferred
<1>1. ASSUME IInv, stmt = "check", stmt' = "idle", Check
      PROVE  no \in Block /\ \A p \in Part : disk[no * SPB + p] = buf[p]
  <2>1. Agrees(idx) /\ idx = SPB - 1 /\ idx \in Part /\ no \in Nat
    BY <1>1 DEF Check, Failed, LastPart, IInv, Answered, VirtioTypeOK
  <2>2. no \in Block
    BY <2>1, BlockOfSector DEF Agrees
  <2>3. \A p \in Part : p < idx \/ p = idx
    BY <2>1, SPBAssumption DEF Part
  <2>4. \A p \in Part : Agrees(p)
    BY <1>1, <2>1, <2>3 DEF IInv, Prefix, InCall
  <2> QED
    BY <2>2, <2>4 DEF Agrees, FirstSector
<1>2. ASSUME IInv, DevMove, disk' # disk
      PROVE  /\ op = T_OUT
             /\ disk' = [disk EXCEPT ![no * SPB + idx] = buf[idx]]
             /\ \A p \in Part : p < idx => disk[no * SPB + p] = buf[p]
  <2>1. stmt = "poll" /\ hdr.type = T_OUT
    BY <1>2, DeviceQuiet DEF DevMove
  <2>2. hdr.type = op /\ hdr.sector = FirstSector(no) + idx /\ part = idx
    BY <1>2, <2>1 DEF IInv, Submitted
  <2>3. \A p \in Part : p < idx => Agrees(p)
    BY <1>2, <2>1 DEF IInv, Prefix, InCall
  <2> QED
    BY <1>2, <2>1, <2>2, <2>3 DEF DevMove, Agrees, FirstSector, T_IN, T_OUT
<1>3. [VirtioNext]_virtioVars => \/ disk' = disk /\ ~(stmt = "check" /\ stmt' = "idle")
                                 \/ Check
                                 \/ DevMove
  BY DEF VirtioNext, virtioVars, Blkinit, Blkread, Blkwrite, Fill, Post, Poll, DevTake,
         DevFail, DevAnswer, DevPublish, Crash
<1>4. Check => disk' = disk
  BY DEF Check
<1>5. DevMove => stmt' = stmt
  BY DEF DevMove
<1>6. IInv /\ [VirtioNext]_virtioVars =>
         /\ stmt = "check" /\ stmt' = "idle" =>
                  /\ no \in Block
                  /\ \A p \in Part : disk[no * SPB + p] = buf[p]
         /\ disk' # disk =>
                /\ op = T_OUT
                /\ disk' = [disk EXCEPT ![no * SPB + idx] = buf[idx]]
                /\ \A p \in Part : p < idx => disk[no * SPB + p] = buf[p]
  BY <1>1, <1>2, <1>3, <1>4, <1>5
<1> QED
  BY <1>6, Invariance, PTL DEF VirtioSpec, BlockTransferred

=============================================================================
