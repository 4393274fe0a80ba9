-------------------------------- MODULE Filter --------------------------------
(***************************************************************************)
(* Array.filter: the elements of a sequence at the positions that a test   *)
(* leaves, in their order.                                                 *)
(***************************************************************************)
EXTENDS Integers, FiniteSets

Nth(S, k) == CHOOSE n \in S : Cardinality({m \in S : m <= n}) = k
Kept(seq, S) == [k \in 1 .. Cardinality(S) |-> seq[Nth(S, k)]]
=============================================================================
