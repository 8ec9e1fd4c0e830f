---------------------------- MODULE PoolContract ----------------------------
(***************************************************************************)
(* What a pool promises, with no channel, goroutine or call in it: accepted *)
(* tasks start in the order they were accepted, at most Slots at a time,    *)
(* each once; nothing is accepted once the pool is sealed; and the pool has *)
(* ended, as far as Shutdown and Stop tell their callers, only when nothing *)
(* runs and nothing is pending, or the pool's context cut the pending short. *)
(***************************************************************************)
EXTENDS Naturals, FiniteSets, SequencesExt

CONSTANTS Tasks, Slots

VARIABLES
  pending,   \* accepted and not started, in order
  running,   \* started and not finished
  finished,
  sealed,    \* is nothing accepted any more?
  cut,       \* is the context over?
  ended      \* has a call that waits for the end returned?

vars == <<pending, running, finished, sealed, cut, ended>>

Init ==
  /\ pending = <<>> /\ running = {} /\ finished = {}
  /\ sealed = FALSE /\ cut = FALSE /\ ended = FALSE

Acceptable(t) == ~sealed /\ ~Contains(pending, t) /\ t \notin running \cup finished

Accept(t) ==
  /\ Acceptable(t)
  /\ pending' = Append(pending, t)
  /\ UNCHANGED <<running, finished, sealed, cut, ended>>

HasSlot == ~ended /\ Cardinality(running) < Slots

Start ==
  /\ HasSlot /\ pending # <<>>
  /\ running' = running \cup {Head(pending)}
  /\ pending' = Tail(pending)
  /\ UNCHANGED <<finished, sealed, cut, ended>>

AcceptAndStart(t) ==
  /\ Acceptable(t) /\ HasSlot /\ pending = <<>>
  /\ running' = running \cup {t}
  /\ UNCHANGED <<pending, finished, sealed, cut, ended>>

Finish(t) ==
  /\ t \in running
  /\ running' = running \ {t}
  /\ finished' = finished \cup {t}
  /\ UNCHANGED <<pending, sealed, cut, ended>>

Seal ==
  /\ sealed' = TRUE
  /\ UNCHANGED <<pending, running, finished, cut, ended>>

Cut ==
  /\ cut' = TRUE
  /\ UNCHANGED <<pending, running, finished, sealed, ended>>

\* The context is cancelled with the last step of a graceful end at the latest.
End ==
  /\ sealed /\ running = {}
  /\ pending = <<>> \/ cut
  /\ ended' = TRUE /\ cut' = TRUE
  /\ UNCHANGED <<pending, running, finished, sealed>>

Next ==
  \/ \E t \in Tasks : Accept(t) \/ AcceptAndStart(t) \/ Finish(t)
  \/ Start \/ Seal \/ Cut \/ End

Spec == Init /\ [][Next]_vars
=============================================================================
