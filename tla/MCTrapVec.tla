------------------------------ MODULE MCTrapVec ------------------------------
(***************************************************************************)
(* An instance of TrapVec: system calls and one other cause.               *)
(***************************************************************************)
EXTENDS TrapVec

=============================================================================
