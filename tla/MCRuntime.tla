------------------------------ MODULE MCRuntime ------------------------------
(* Instances of Runtime for TLC: one or two settings requests. *)
EXTENDS Runtime, TLC

CONSTANTS r1, r2, s1, s2

OneRequest == {r1}
TwoRequests == {r1, r2}
TwoSettings == {s1, s2}
Configured == {s1}
EitherStart == {s1, None}
RequestSymmetry == Permutations(TwoRequests)
=============================================================================
