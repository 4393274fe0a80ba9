------------------------------ MODULE MCAccount -------------------------------
(***************************************************************************)
(* Instances of Account for TLC: interchangeable calls.                    *)
(***************************************************************************)
EXTENDS Account, TLC

CONSTANTS p1, p2, c1, c2

MCCalls == {p1, p2}
MCCodes == {c1, c2}

Symmetry == Permutations(MCCalls) \cup Permutations(MCCodes)
=============================================================================
