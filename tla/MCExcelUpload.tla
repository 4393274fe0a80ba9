----------------------------- MODULE MCExcelUpload ----------------------------
(***************************************************************************)
(* An instance of ExcelUpload for TLC: two devices of one store and one of *)
(* another; a row may name two devices.                                    *)
(***************************************************************************)
EXTENDS ExcelUpload, TLC

CONSTANTS x1, x2, x3, s1, s2

MCCells == {<<x1>>, <<x2>>, <<x2, x1>>, <<x3>>}
MCStoreOf == (x1 :> s1) @@ (x2 :> s1) @@ (x3 :> s2)
=============================================================================
