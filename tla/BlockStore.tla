----------------------------- MODULE BlockStore -----------------------------
(***************************************************************************)
(* What the block layer promises its callers (include/fs.h, "Block Cache   *)
(* Functions"), with no cache in it: one value per block, written through  *)
(* a reference to that block, and a durable copy that lags behind it.      *)
(*                                                                         *)
(* A reference denotes, until it is released, the block it was obtained    *)
(* for.  A caller announces what it stored.  Any block may become durable  *)
(* at any time and a reboot falls back to the durable copy; apart from     *)
(* that only a store nobody announced may be forgotten, once the block     *)
(* has no reference any more.                                              *)
(***************************************************************************)
EXTENDS Integers

CONSTANTS NBLK,     \* blocks of the device are numbered 0 .. NBLK - 1
          Handle,   \* references a caller can hold at the same time
          Data,     \* contents a block can have
          Torn      \* Torn[<<old, new>>]: what an interrupted write may leave

VARIABLES view,     \* view[b]: what a reader of block b sees
          durable,  \* durable[b]: what a reboot would leave of block b
          announced,\* announced[b]: what of block b must reach the durable copy
          ref       \* ref[h]: the block h refers to, NoBlock if it is free

vars == <<view, durable, announced, ref>>

Block == 0 .. (NBLK - 1)
NoBlock == -1

Init ==
    /\ view \in [Block -> Data]
    /\ durable = view /\ announced = view
    /\ ref = [h \in Handle |-> NoBlock]

\* Nobody can see block b, and all that was announced of it is durable.
Forgettable(b) == announced[b] = durable[b] /\ \A h \in Handle : ref[h] # b

\* bread: the caller obtains a reference to block b.  To make room, another block
\* may be forgotten.
Get(h, b) ==
    /\ ref[h] = NoBlock
    /\ ref' = [ref EXCEPT ![h] = b]
    /\ \/ UNCHANGED view
       \/ \E c \in Block \ {b} : Forgettable(c) /\ view' = [view EXCEPT ![c] = announced[c]]
    /\ UNCHANGED <<durable, announced>>

\* The caller stores through its reference.
Put(h, d) ==
    /\ ref[h] # NoBlock
    /\ view' = [view EXCEPT ![ref[h]] = d]
    /\ UNCHANGED <<durable, announced, ref>>

\* bwrite: what the block holds now is to be kept.
Announce(h) ==
    /\ ref[h] # NoBlock
    /\ announced' = [announced EXCEPT ![ref[h]] = view[ref[h]]]
    /\ UNCHANGED <<view, durable, ref>>

\* brelse: the reference is given back.
Drop(h) ==
    /\ ref[h] # NoBlock
    /\ ref' = [ref EXCEPT ![h] = NoBlock]
    /\ UNCHANGED <<view, durable, announced>>

\* The current contents of one block reach the device.
Persist(b) ==
    /\ durable' = [durable EXCEPT ![b] = view[b]]
    /\ announced' = [announced EXCEPT ![b] = view[b]]
    /\ UNCHANGED <<view, ref>>

\* Power is lost: what was not durable is gone, and so is every reference.
Fallback ==
    /\ view' = durable' /\ announced' = durable'
    /\ ref' = [h \in Handle |-> NoBlock]

Reboot == UNCHANGED durable /\ Fallback

\* Power is lost while b is being made durable: b alone may be left torn.
TornReboot(b) ==
    /\ \E d \in Torn[<<durable[b], view[b]>>] :
          durable' = [durable EXCEPT ![b] = d]
    /\ Fallback

Next ==
    \/ \E h \in Handle, b \in Block : Get(h, b)
    \/ \E h \in Handle, d \in Data : Put(h, d)
    \/ \E h \in Handle : Announce(h) \/ Drop(h)
    \/ \E b \in Block : Persist(b) \/ TornReboot(b)
    \/ Reboot

Spec == Init /\ [][Next]_vars

=============================================================================
