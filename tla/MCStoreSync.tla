----------------------------- MODULE MCStoreSync -----------------------------
(***************************************************************************)
(* Instances of StoreSync for TLC: one store; an upload u1 whose record r1 *)
(* has two chunks, and a retry u2 of the second of them, which therefore   *)
(* carries an attendance id that u1 carries too.                           *)
(***************************************************************************)
EXTENDS StoreSync, TLC

CONSTANTS s1, u1, u2, r1, r2, c1, c2, c3, a1, a2, h1, h2

MCStores == {s1}
MCUploads == {u1, u2}
MCRecords == {r1, r2}
MCChunks == {c1, c2, c3}
MCAttendance == {a1, a2}
MCHandlers == {h1, h2}
MCUploadOf == (r1 :> u1) @@ (r2 :> u2)
MCStoreOf == (r1 :> s1) @@ (r2 :> s1)
MCRecordOf == (c1 :> r1) @@ (c2 :> r1) @@ (c3 :> r2)
MCChunkIndex == (c1 :> 0) @@ (c2 :> 1) @@ (c3 :> 0)
MCPayload == (c1 :> {a1}) @@ (c2 :> {a2}) @@ (c3 :> {a2})

(* A single upload.                                                        *)
OneUpload == {u1}
OneRecord == {r1}
OneRecordChunks == {c1, c2}
OneUploadOf == (r1 :> u1)
OneStoreOf == (r1 :> s1)
OneRecordOf == (c1 :> r1) @@ (c2 :> r1)
OneChunkIndex == (c1 :> 0) @@ (c2 :> 1)
OnePayload == (c1 :> {a1}) @@ (c2 :> {a2})

(* The same, with a second chunk of devices without logs.                  *)
LivePayload == (c1 :> {a1}) @@ (c2 :> {})

HandlerSymmetry == Permutations(MCHandlers)
=============================================================================
