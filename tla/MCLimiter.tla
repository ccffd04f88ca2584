------------------------------ MODULE MCLimiter ------------------------------
(* An instance of Limiter for TLC: more keys than room, three attempts. *)
EXTENDS Limiter, TLC

CONSTANTS k1, k2, k3, a1, a2, a3

MCKeys == {k1, k2, k3}
MCAttempts == {a1, a2, a3}
MCSymmetry == Permutations(MCKeys) \cup Permutations(MCAttempts)
=============================================================================
