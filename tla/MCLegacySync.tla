----------------------------- MODULE MCLegacySync -----------------------------
(***************************************************************************)
(* Instances of LegacySync for TLC: a message m1 with the records of two   *)
(* stores, r1 and r2, and a message m2 with one record, r3.  The messages  *)
(* share two attendance ids; m1 carries one of its ids twice.              *)
(***************************************************************************)
EXTENDS LegacySync, TLC

CONSTANTS m1, m2, r1, r2, r3, a1, a2, a3, h1, h2

MCMessages == {m1, m2}
MCRecords == {r1, r2, r3}
MCAttendance == {a1, a2, a3}
MCHandlers == {h1, h2}
MCMessageOf == (r1 :> m1) @@ (r2 :> m1) @@ (r3 :> m2)
LogOf(a, r) == [id |-> a, record |-> r]
MCPayload ==
    (m1 :> <<LogOf(a1, r1), LogOf(a2, r2), LogOf(a1, r2), LogOf(a3, r1)>>) @@
    (m2 :> <<LogOf(a2, r3), LogOf(a3, r3)>>)
=============================================================================
