---------------------------- MODULE MCPageTable -----------------------------
(***************************************************************************)
(* Instances of PageTable with three entries per table: as in the code the *)
(* first top-level entry has devices in it and the last the kernel, with   *)
(* the user stack just below it.                                           *)
(***************************************************************************)
EXTENDS PageTable

CONSTANTS r1, r2

\* A device at <<0, 2, 2>>, the kernel at <<2, 2, 0>>.
MCKernelVa == <<24, 8>>

=============================================================================
