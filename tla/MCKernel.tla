------------------------------ MODULE MCKernel ------------------------------
(***************************************************************************)
(* Five components that share no state, side by side: the heap (Slab),     *)
(* process numbers (Pid), kexec (Exec), page tables (PageTable) and the    *)
(* block driver (VirtioBlk).  One of them moves at a time, until it is     *)
(* back where it started, so the states are the sum of theirs and not the  *)
(* product.                                                                *)
(*                                                                         *)
(* Slab has a class of two objects per page, the class of one object per   *)
(* page (2048 bytes) and the one that fills its pages exactly (8 bytes, of *)
(* two objects here), competing for the pages with large allocations and   *)
(* the callers of kalloc.  Pid has three processes and nine numbers, 1 to  *)
(* 3 of them reserved, so that the search wraps behind number 8.  VirtioBlk*)
(* has two blocks of two sectors, and ring indices that wrap after three   *)
(* requests, within one or two calls.                                      *)
(***************************************************************************)
EXTENDS Slab, Pid, MCExec, MCPageTable, VirtioBlk

CONSTANTS small, big, tiny, p1, p2, p3, zero, one

Classes == {small, big, tiny}
Objects == [c \in Classes |-> IF c = big THEN 1 ELSE 2]
Filling == {tiny}
TwoData == {zero, one}

\* The driver moves from any contents of the disk; the others while it rests at one.
DriverRests ==
    /\ VirtioInit
    /\ disk = [s \in Sector |-> zero] /\ buf = [p \in Part |-> zero]

KernelInit == SlabInit /\ PidInit /\ ExecInit /\ VmInit /\ VirtioInit

KernelNext ==
    \/ /\ PidInit /\ ExecInit /\ VmInit /\ DriverRests /\ SlabNext
       /\ UNCHANGED <<pidVars, execVars, vmVars, virtioVars>>
    \/ /\ SlabInit /\ ExecInit /\ VmInit /\ DriverRests /\ PidNext
       /\ UNCHANGED <<slabVars, execVars, vmVars, virtioVars>>
    \/ /\ SlabInit /\ PidInit /\ VmInit /\ DriverRests /\ ExecNext
       /\ UNCHANGED <<slabVars, pidVars, vmVars, virtioVars>>
    \/ /\ SlabInit /\ PidInit /\ ExecInit /\ DriverRests /\ VmNext
       /\ UNCHANGED <<slabVars, pidVars, execVars, virtioVars>>
    \/ /\ SlabInit /\ PidInit /\ ExecInit /\ VmInit /\ VirtioNext
       /\ UNCHANGED <<slabVars, pidVars, execVars, vmVars>>

kernelVars == <<slabVars, pidVars, execVars, vmVars, virtioVars>>

\* The fairness of VirtioBlk; the other components need none.
KernelSpec ==
    /\ KernelInit /\ [][KernelNext]_kernelVars
    /\ WF_virtioVars(Driver) /\ WF_virtioVars(Device)

=============================================================================
