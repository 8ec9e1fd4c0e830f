---------------------------- MODULE MCWorkerPool ----------------------------
(***************************************************************************)
(* Model values and symmetry for the runs of WorkerPool.  Tasks and workers *)
(* are interchangeable, so their permutations may be identified in runs     *)
(* that check no liveness.                                                  *)
(***************************************************************************)
EXTENDS PoolImplements

Symmetry == Permutations(Tasks) \cup Permutations(Workers)
=============================================================================
