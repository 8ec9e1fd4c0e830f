----------------------------- MODULE MCDispatch -----------------------------
(***************************************************************************)
(* The runs of Dispatch.  Answers are model values; no two of them differ   *)
(* but in being different, which a run that checks no liveness may use.      *)
(***************************************************************************)
EXTENDS Dispatch

Symmetry == Permutations(Texts)
=============================================================================
