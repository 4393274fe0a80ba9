---------------------------- MODULE MCPasswordReset ---------------------------
(***************************************************************************)
(* Instances of PasswordReset for TLC: interchangeable calls, tokens and   *)
(* passwords.                                                              *)
(***************************************************************************)
EXTENDS PasswordReset, TLC

CONSTANTS p1, p2, t1, t2, t3, t4, w1, w2, w3, w4

MCCalls == {p1, p2}
MCTokens == {t1, t2, t3, t4}
MCPasswords == {w1, w2, w3, w4}

Symmetry == Permutations(MCCalls) \cup Permutations(MCTokens)
              \cup Permutations(MCPasswords)
=============================================================================
