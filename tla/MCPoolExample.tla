---------------------------- MODULE MCPoolExample ----------------------------
(***************************************************************************)
(* The runs of PoolExample.  Jobs differ by the order produce() submits     *)
(* them in, so only the workers are symmetric, and only without liveness.   *)
(***************************************************************************)
EXTENDS PoolExample

ASSUME ConstantsAsMade == MadeByMain

Symmetry == Permutations(Workers)
=============================================================================
