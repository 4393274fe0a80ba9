----------------------------- MODULE MCMyHrSync ------------------------------
(***************************************************************************)
(* Instances of MyHrSync for TLC: rows, jobs and chunks are small numbers. *)
(***************************************************************************)
EXTENDS MyHrSync, TLC

CONSTANTS p1, p2, w1, w2

OneScheduler == {p1}
TwoSchedulers == {p1, p2}
TwoWorkers == {w1, w2}
OneItem == {1}
TwoItems == {1, 2}
ThreeItems == {1, 2, 3}

Symmetry == Permutations(TwoWorkers) \cup Permutations(TwoSchedulers)
=============================================================================
