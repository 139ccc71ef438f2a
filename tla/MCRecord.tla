------------------------------ MODULE MCRecord ------------------------------
(***************************************************************************)
(* Instances of Record.tla for TLC.  Fields 0 and 1 are written by clients *)
(* and 2, 3 and 4 are formulas.  Field 2 reads field 3, which is computed  *)
(* after it, and a write of field 0 reaches field 2 on two ways.           *)
(***************************************************************************)
EXTENDS Record, FiniteSetsExt, TLC

CONSTANT Mod   \* values are 0 .. Mod - 1

MCFormula == {2, 3, 4}
MCDeps == 2 :> {0, 3} @@ 3 :> {0, 1} @@ 4 :> {2}
MCValue == 0 .. Mod - 1

MCEval(f, v) == MapThenSumSet(LAMBDA d : v[d], MCDeps[f]) % Mod

MCMatches(w, rec) == rec[w.id] = w.val
MCWhere == [id : {1, 2}, val : {1}]
=============================================================================
