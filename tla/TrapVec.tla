------------------------------- MODULE TrapVec -------------------------------
(***************************************************************************)
(* kernel/trapvec.S and kernel/trap/trap.c: the way into the kernel on a   *)
(* trap and back, for one hart.  A trap tells where it came from by        *)
(* sscratch: 0 while the kernel runs, else what trapret has put there.     *)
(*                                                                         *)
(* A stack pointer is a stack and a depth in units of TRAPFRAME_SZ; the    *)
(* other registers are kept together as one value.  Pages of the user      *)
(* stack have PTE_U and nothing sets sstatus.SUM, so a store to them from  *)
(* the kernel is a page fault.  The model begins in the kernel, or with a  *)
(* process in user mode as the comment at .from_user describes it; nothing *)
(* in this commit executes the first sret to such a process.               *)
(***************************************************************************)
EXTENDS Integers

CONSTANTS DEPTH,    \* bound on the nesting of traps, at least 1
          Cause     \* of traps, "UserEnvCall" among them

None == [stack |-> "none", depth |-> 0]           \* 0
At(s, d) == [stack |-> s, depth |-> d]
kernel_top == At("kernel", 0)       \* p->kstack + PGSIZE

VARIABLES pc,       \* "user", "kernel" or a label of the trap path
          sp,
          sscratch,
          regs,     \* the other registers: what they belong to
          sepc, scause,
          trapframe \* p->trapframe, the frame below kernel_top: what is saved there

vars == <<pc, sp, sscratch, regs, sepc, scause, trapframe>>

Push(r) == [r EXCEPT !.depth = @ + 1]
Pop(r)  == [r EXCEPT !.depth = @ - 1]

Init ==
    /\ \/ pc = "user" /\ sp = At("user", 0) /\ sscratch = kernel_top
       \/ pc = "kernel" /\ sp = kernel_top /\ sscratch = None
    /\ regs = pc /\ sepc = "user" /\ scause = "UserEnvCall"
    /\ trapframe = [regs |-> "user", sp |-> At("user", 0), sepc |-> "user"]

\* The hardware: user code, or kernel code, is interrupted.
Trap(from, cause) ==
    /\ pc = from /\ pc' = "trapvec"
    /\ sepc' = from /\ scause' = cause
    /\ UNCHANGED <<sp, sscratch, regs, trapframe>>

Swap == sp' = sscratch /\ sscratch' = sp

\* trapvec: the first swap, and the branch on what it has found.
Entry ==
    /\ pc = "trapvec"
    /\ Swap
    /\ pc' = IF sscratch = None THEN ".from_kernel" ELSE ".from_user"
    /\ UNCHANGED <<regs, sepc, scause, trapframe>>

\* .from_kernel: back to the kernel stack, save, and kerneltrap, which always panics.
FromKernel ==
    /\ pc = ".from_kernel"
    /\ sp' = Push(sscratch) /\ sscratch' = None
    /\ pc' = "panic"
    /\ UNCHANGED <<regs, sepc, scause, trapframe>>

\* .from_user: the second swap and the room for the frame.
FromUser ==
    /\ pc = ".from_user"
    /\ sp' = Push(sscratch) /\ sscratch' = sp
    /\ pc' = "save"
    /\ UNCHANGED <<regs, sepc, scause, trapframe>>

\* The frame is stored, or the first store faults and the trap is taken again.
SaveUser ==
    /\ pc = "save"
    /\ \/ /\ sp.stack = "kernel"
          /\ trapframe' = [regs |-> regs, sp |-> sscratch, sepc |-> sepc]
          /\ sscratch' = None
          /\ regs' = "kernel" /\ pc' = "usertrap"
          /\ UNCHANGED <<sp, sepc, scause>>
       \/ /\ sp.stack = "user" /\ sp.depth <= DEPTH
          /\ pc' = "trapvec" /\ sepc' = "save" /\ scause' = "StorePageFault"
          /\ UNCHANGED <<sp, sscratch, regs, trapframe>>

\* usertrap: a system call, or a panic for every other cause.  (Its intr_on has no
\* effect in this commit, where no interrupt source is enabled.)
Usertrap ==
    /\ pc = "usertrap"
    /\ trapframe' = [trapframe EXCEPT !.sepc = sepc]
    /\ pc' = IF scause = "UserEnvCall" THEN "trapret" ELSE "panic"
    /\ UNCHANGED <<sp, sscratch, regs, sepc, scause>>

Trapret ==
    /\ pc = "trapret"
    /\ sepc' = trapframe.sepc
    /\ sscratch' = kernel_top
    /\ pc' = "restore"
    /\ UNCHANGED <<sp, regs, scause, trapframe>>

\* The rest of .from_user: the registers, the user's sp through sscratch, sret.
Restore ==
    /\ pc = "restore"
    /\ regs' = trapframe.regs /\ sepc' = trapframe.sepc
    /\ sp' = trapframe.sp /\ sscratch' = Pop(sp)
    /\ pc' = sepc'
    /\ UNCHANGED <<scause, trapframe>>

Next ==
    \/ \E from \in {"user", "kernel"}, cause \in Cause : Trap(from, cause)
    \/ Entry \/ FromKernel \/ FromUser \/ SaveUser
    \/ Usertrap \/ Trapret \/ Restore

Spec == Init /\ [][Next]_vars

-----------------------------------------------------------------------------

(***************************************************************************)
(* trapvec.S:165-167: after the swap of .from_user, sp is on the kernel    *)
(* stack and sscratch has the user's sp, and so the frame goes to the      *)
(* kernel stack, where usertrap looks for it.                              *)
(***************************************************************************)
OnKernelStack ==
    pc = "save" => sp.stack = "kernel" /\ sscratch.stack = "user"

=============================================================================
