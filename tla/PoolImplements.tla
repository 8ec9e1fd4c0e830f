--------------------------- MODULE PoolImplements ---------------------------
(***************************************************************************)
(* The pool of WorkerPool keeps the contract of PoolContract, with one slot *)
(* per worker.                                                              *)
(***************************************************************************)
EXTENDS WorkerPool

Busy == {w \in Workers : worker[w] = "run"}

Contract == INSTANCE PoolContract WITH
  Slots    <- Cardinality(Workers),
  pending  <- queue,
  running  <- {job[w] : w \in Busy},
  finished <- {t \in Tasks : Returned(t)},
  sealed   <- tasksClosed,
  cut      <- ctxDone,
  ended    <- \E c \in Calls : call[c] = "returned"

\* Every step of the goroutines of pool.go is a step of the contract or none.
ImplementsContract == Contract!Spec
=============================================================================
