----------------------------- MODULE MCBlkCache -----------------------------
(***************************************************************************)
(* Instances of BlkCache for TLC.  Three blocks over two slots force       *)
(* evictions; three handles over two slots reach the panic of bread.       *)
(***************************************************************************)
EXTENDS BlkCache, TLC

CONSTANTS h1, h2, h3, zero, one, mixed

ThreeHandles == {h1, h2, h3}
\* Two contents and the mixture of both that a torn write can leave.
AllData      == {zero, one, mixed}
TornMix      == [p \in AllData \X AllData |->
                    IF p[1] = p[2] THEN {p[1]} ELSE {p[1], p[2], mixed}]

\* Nothing tells the handles apart, and every property is a safety property.
MCSymmetry   == Permutations(ThreeHandles)

=============================================================================
