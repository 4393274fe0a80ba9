----------------------------- MODULE MCBackoffice ----------------------------
(***************************************************************************)
(* An instance of Backoffice for TLC.  Each behaviour has one of seven     *)
(* budgets: work on devices, with up to two creates at a time, under one or*)
(* two stores; an import and a sync attempt while a store comes or goes;   *)
(* sync attempts of both kinds; a page; figures.                           *)
(***************************************************************************)
EXTENDS Backoffice, TLC

CONSTANTS s1, s2, n1, n2, d1, d2, d3, x1, x2, c1, c2, i1, today, tomorrow

MCStores == {s1, s2}
MCNames == {n1, n2}
MCDevices == {d1, d2, d3}
MCSerials == {x1, x2}
MCCalls == {c1, c2}
MCImports == {i1}
MCFiles == {<<n1, n2, n1>>, <<n1, n1>>}
MCDays == {today, tomorrow}
MCDayOf == <<today, today, tomorrow>>

Budget(st, dev, chk, rec, imp, pag, fig) ==
    ("stores" :> st) @@ ("devices" :> dev) @@ ("SYNC_RECORD_CHUNK" :> chk)
      @@ ("SYNC_RECORDS" :> rec) @@ ("imports" :> imp) @@ ("pages" :> pag)
      @@ ("figures" :> fig)
MCBudgets == {Budget(1, 3, 0, 0, 0, 0, 0), Budget(2, 3, 0, 0, 0, 0, 0),
              Budget(1, 0, 1, 0, 1, 0, 0), Budget(0, 0, 2, 1, 0, 0, 0),
              Budget(0, 0, 1, 2, 0, 0, 0), Budget(1, 0, 2, 0, 0, 1, 0),
              Budget(1, 0, 1, 1, 0, 0, 1)}

MCSymmetry == Permutations(MCStores) \cup Permutations(MCDevices)
                \cup Permutations(MCCalls)
=============================================================================
