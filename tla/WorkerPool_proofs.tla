-------------------------- MODULE WorkerPool_proofs --------------------------
(***************************************************************************)
(* Proofs about WorkerPool, for any tasks, workers, calls and buffer sizes,  *)
(* and about the pool that main of the example program makes.               *)
(***************************************************************************)
EXTENDS PoolImplements, PoolExample, FiniteSetTheorems, TLAPS

-----------------------------------------------------------------------------
(* Sequences: what a buffered send and a receive do to the members of a     *)
(* buffer, and that neither makes a duplicate.                               *)

\* A send adds one member.
LEMMA SendContains ==
  ASSUME NEW S, NEW q \in Seq(S), NEW x \in S, NEW y
  PROVE  Contains(Append(q, x), y) <=> Contains(q, y) \/ y = x
  BY DEF Contains

\* A send of a new member keeps the members distinct.
LEMMA SendDistinct ==
  ASSUME NEW S, NEW q \in Seq(S), NEW x \in S, IsInjective(q), ~Contains(q, x)
  PROVE  IsInjective(Append(q, x))
<1>1. Len(q) \in Nat /\ \A i \in 1..Len(q) : q[i] # x
  BY DEF Contains
<1> QED
  BY <1>1 DEF IsInjective

\* A receive takes the head, which was a member.
LEMMA TakeContains ==
  ASSUME NEW S, NEW q \in Seq(S), q # <<>>
  PROVE  /\ Head(q) \in S /\ Tail(q) \in Seq(S)
         /\ Contains(q, Head(q))
         /\ \A y : Contains(q, y) <=> y = Head(q) \/ Contains(Tail(q), y)
  BY SMTT(30) DEF Contains

\* A receive from a buffer without duplicates leaves none of what it took.
LEMMA TakeDistinct ==
  ASSUME NEW S, NEW q \in Seq(S), q # <<>>, IsInjective(q)
  PROVE  IsInjective(Tail(q)) /\ ~Contains(Tail(q), Head(q))
  BY DEF Contains, IsInjective

\* An empty buffer has no member.
LEMMA EmptyBuffer ==
  ASSUME NEW y
  PROVE  ~Contains(<<>>, y) /\ IsInjective(<<>>)
  BY DEF Contains, IsInjective
-----------------------------------------------------------------------------
(* Types. *)

USE DEF poolVars, errVars, workVars, vars, SubmitStates, WorkerStates, CallStates

LEMMA TypeStep == TypeOK /\ [Next]_vars => TypeOK'
<1> SUFFICES ASSUME TypeOK, [Next]_vars PROVE TypeOK'
  OBVIOUS
<1>1. ASSUME NEW t \in Tasks, SubmitBegins(t) PROVE TypeOK'
  BY <1>1 DEF TypeOK, SubmitBegins, SubmitReturns
<1>2. ASSUME NEW t \in Tasks, SubmitEnqueues(t) PROVE TypeOK'
  BY <1>2 DEF TypeOK, SubmitEnqueues, SubmitReturns
<1>3. ASSUME NEW t \in Tasks, NEW w \in Workers, SubmitHandsOff(t, w) PROVE TypeOK'
  BY <1>3, PoolAssumption DEF TypeOK, SubmitHandsOff, SubmitReturns
<1>4. ASSUME NEW t \in Tasks, SubmitPanics(t) PROVE TypeOK'
  BY <1>4 DEF TypeOK, SubmitPanics, SubmitReturns
<1>5. ASSUME NEW t \in Tasks, SubmitSeesClosed(t) PROVE TypeOK'
  BY <1>5 DEF TypeOK, SubmitSeesClosed, SubmitReturns
<1>6. ASSUME NEW t \in Tasks, SubmitSeesCancel(t) PROVE TypeOK'
  BY <1>6 DEF TypeOK, SubmitSeesCancel, SubmitReturns
<1>7. ASSUME NEW t \in Tasks, SubmitGivesUp(t) PROVE TypeOK'
  BY <1>7 DEF TypeOK, SubmitGivesUp, SubmitReturns
<1>8. ASSUME NEW w \in Workers, WorkerTakes(w) PROVE TypeOK'
  BY <1>8, TakeContains, PoolAssumption DEF TypeOK, WorkerTakes
<1>9. ASSUME NEW w \in Workers, WorkerSeesClosed(w) PROVE TypeOK'
  BY <1>9, PoolAssumption DEF TypeOK, WorkerSeesClosed, WorkerExits
<1>10. ASSUME NEW w \in Workers, WorkerSeesCancel(w) PROVE TypeOK'
  BY <1>10, PoolAssumption DEF TypeOK, WorkerSeesCancel, WorkerExits
<1>11. ASSUME NEW w \in Workers, TaskReturns(w) PROVE TypeOK'
  BY <1>11, PoolAssumption, SMTT(30) DEF TypeOK, TaskReturns
<1>12. ASSUME NEW w \in Workers, WorkerSends(w) PROVE TypeOK'
  <2>1. job[w] \in Tasks
    BY <1>12 DEF TypeOK, WorkerSends
  <2> QED
    BY <1>12, <2>1, PoolAssumption DEF TypeOK, WorkerSends
<1>13. ASSUME NEW w \in Workers, WorkerHandsOver(w) PROVE TypeOK'
  BY <1>13, PoolAssumption DEF TypeOK, WorkerHandsOver
<1>14. ASSUME NEW w \in Workers, WorkerDrops(w) PROVE TypeOK'
  BY <1>14, PoolAssumption DEF TypeOK, WorkerDrops, WorkerExits
<1>15. ASSUME ErrsClose PROVE TypeOK'
  BY <1>15 DEF TypeOK, ErrsClose
<1>16. ASSUME ReaderTakes PROVE TypeOK'
  BY <1>16, TakeContains, PoolAssumption DEF TypeOK, ReaderTakes
<1>17. ASSUME ParentCancel PROVE TypeOK'
  BY <1>17 DEF TypeOK, ParentCancel, Cancel
<1>18. ASSUME NEW c \in Calls, CallBegins(c) PROVE TypeOK'
  BY <1>18 DEF TypeOK, CallBegins, CallGoesTo
<1>19. ASSUME NEW c \in Calls, OnceCloses(c) PROVE TypeOK'
  BY <1>19 DEF TypeOK, OnceCloses, CallGoesTo
<1>20. ASSUME NEW c \in Calls, OnceClosesTasks(c) PROVE TypeOK'
  BY <1>20 DEF TypeOK, OnceClosesTasks, CallGoesTo, AfterOnce
<1>21. ASSUME NEW c \in Calls, OnceSkips(c) PROVE TypeOK'
  BY <1>21 DEF TypeOK, OnceSkips, CallGoesTo, AfterOnce
<1>22. ASSUME NEW c \in Calls, StopCancels(c) PROVE TypeOK'
  BY <1>22 DEF TypeOK, StopCancels, Cancel, CallGoesTo
<1>23. ASSUME NEW c \in Calls, StopReturns(c) PROVE TypeOK'
  BY <1>23 DEF TypeOK, StopReturns, CallGoesTo
<1>24. ASSUME NEW c \in Calls, ShutdownReturns(c) PROVE TypeOK'
  BY <1>24 DEF TypeOK, ShutdownReturns, Cancel, CallGoesTo
<1>25. ASSUME NEW c \in Calls, ShutdownExpires(c) PROVE TypeOK'
  BY <1>25 DEF TypeOK, ShutdownExpires, Cancel, CallGoesTo
<1>26. CASE UNCHANGED vars
  BY <1>26 DEF TypeOK
<1> QED
  BY <1>1, <1>2, <1>3, <1>4, <1>5, <1>6, <1>7, <1>8, <1>9, <1>10, <1>11, <1>12, <1>13, <1>14, <1>15, <1>16, <1>17, <1>18, <1>19, <1>20, <1>21, <1>22, <1>23, <1>24, <1>25, <1>26
     DEF Next, SubmitStep, WorkerStep, CallStep

\* Every reachable state is well typed: a worker holds a task exactly while it
\* runs it or sends its error (worker() of pool.go).
THEOREM TypeCorrect == Spec => []TypeOK
<1>1. Init => TypeOK
  <2>1. Init => queue \in Seq(Tasks) /\ errs \in Seq(Tasks)
    BY DEF Init
  <2> QED
    BY <2>1, ZenonT(60) DEF Init, TypeOK
<1> QED
  BY <1>1, TypeStep, PTL DEF Spec

-----------------------------------------------------------------------------
(* Accepted tasks.  TaskAccounting needs the types and nothing else: what   *)
(* moves a task takes it from one place and puts it in one other.            *)

LEMMA AccountingStep ==
  TypeOK /\ TaskAccounting /\ [Next]_vars => TaskAccounting'
<1> SUFFICES ASSUME TypeOK, TaskAccounting, [Next]_vars PROVE TaskAccounting'
  OBVIOUS
<1> USE DEF TaskAccounting, Accepted, InQueue, Running, Returned
<1>1. ASSUME NEW t \in Tasks,
             \/ SubmitBegins(t) \/ SubmitPanics(t) \/ SubmitSeesClosed(t)
             \/ SubmitSeesCancel(t) \/ SubmitGivesUp(t)
      PROVE  TaskAccounting'
  BY <1>1 DEF TypeOK, SubmitBegins, SubmitPanics, SubmitSeesClosed, SubmitSeesCancel,
              SubmitGivesUp, SubmitReturns
<1>2. ASSUME NEW t \in Tasks, SubmitEnqueues(t) PROVE TaskAccounting'
  <2>1. queue \in Seq(Tasks) /\ queue' = Append(queue, t) /\ submit[t] # "nil"
        /\ submit' = [submit EXCEPT ![t] = "nil"]
    BY <1>2 DEF TypeOK, SubmitEnqueues, SubmitReturns
  <2>2. \A y : Contains(queue', y) <=> Contains(queue, y) \/ y = t
    BY <2>1, SendContains
  <2>3. IsInjective(queue')
    BY <2>1, SendDistinct
  <2> QED
    BY <1>2, <2>1, <2>2, <2>3 DEF TypeOK, SubmitEnqueues
<1>3. ASSUME NEW t \in Tasks, NEW w \in Workers, SubmitHandsOff(t, w)
      PROVE  TaskAccounting'
  <2>1. \A y : ~Contains(queue, y)
    BY <1>3, EmptyBuffer DEF SubmitHandsOff
  <2> QED
    BY <1>3, <2>1 DEF TypeOK, SubmitHandsOff, SubmitReturns
<1>4. ASSUME NEW w \in Workers, WorkerTakes(w) PROVE TaskAccounting'
  <2>1. queue \in Seq(Tasks) /\ queue # <<>> /\ queue' = Tail(queue)
    BY <1>4 DEF TypeOK, WorkerTakes
  <2>2. \A y : Contains(queue, y) <=> y = Head(queue) \/ Contains(queue', y)
    BY <2>1, TakeContains
  <2>3. IsInjective(queue') /\ ~Contains(queue', Head(queue))
    BY <2>1, TakeDistinct
  <2>4. Head(queue) \in Tasks
    BY <2>1, TakeContains
  <2> QED
    BY <1>4, <2>2, <2>3, <2>4 DEF TypeOK, WorkerTakes
<1>5. ASSUME NEW w \in Workers, TaskReturns(w) PROVE TaskAccounting'
  <2>1. job[w] \in Tasks
    BY <1>5 DEF TypeOK, TaskReturns
  <2> QED
    BY <1>5, <2>1 DEF TypeOK, TaskReturns
<1>6. ASSUME NEW w \in Workers,
             \/ WorkerSeesClosed(w) \/ WorkerSeesCancel(w) \/ WorkerSends(w)
             \/ WorkerHandsOver(w) \/ WorkerDrops(w)
      PROVE  TaskAccounting'
  <2>1. /\ worker[w] # "run"
        /\ \/ worker' = [worker EXCEPT ![w] = "select"]
           \/ worker' = [worker EXCEPT ![w] = "exited"]
        /\ job' = [job EXCEPT ![w] = NoTask]
        /\ UNCHANGED <<queue, submit, outcome>>
    BY <1>6 DEF WorkerSeesClosed, WorkerSeesCancel, WorkerSends, WorkerHandsOver,
                WorkerDrops, WorkerExits
  <2>2. \A v \in Workers : /\ worker'[v] = "run" <=> worker[v] = "run"
                           /\ worker[v] = "run" => job'[v] = job[v]
    BY <2>1 DEF TypeOK
  <2> QED
    BY <2>1, <2>2
<1>7. CASE UNCHANGED <<queue, submit, worker, job, outcome>>
  BY <1>7
<1>8. ASSUME NEW c \in Calls, CallBegins(c) \/ CallStep(c)
      PROVE  UNCHANGED <<queue, submit, worker, job, outcome>>
  BY <1>8 DEF CallBegins, CallStep, OnceCloses, OnceClosesTasks, OnceSkips, StopCancels,
              StopReturns, ShutdownReturns, ShutdownExpires
<1>9. ASSUME ErrsClose \/ ReaderTakes \/ ParentCancel
      PROVE  UNCHANGED <<queue, submit, worker, job, outcome>>
  BY <1>9 DEF ErrsClose, ReaderTakes, ParentCancel
<1> QED
  BY <1>1, <1>2, <1>3, <1>4, <1>5, <1>6, <1>7, <1>8, <1>9 DEF Next, SubmitStep, WorkerStep

\* An accepted task is never lost and never runs twice, a refused one never
\* runs, for any number of workers, tasks and calls (Submit and worker()).
THEOREM TasksAccountedFor == Spec => []TaskAccounting
<1>1. Init => TaskAccounting
  BY EmptyBuffer DEF Init, TaskAccounting, Accepted, InQueue, Running, Returned
<1> QED
  BY <1>1, TypeCorrect, AccountingStep, PTL DEF Spec

-----------------------------------------------------------------------------
(* The end of the pool.                                                     *)

PastOnce == {"cancelling", "waiting", "returned", "expired"}

\* What TaskAccounting and ErrorAccounting lack to be about the end: which facts
\* a call that has come past closeOnce, a worker that is gone, a done context
\* and a closed error channel stand for.
Endings ==
  /\ \A c \in Calls : call[c] \in PastOnce => tasksClosed
  /\ \A c \in Calls : call[c] = "returned" => AllExited
  /\ \A w \in Workers : worker[w] = "exited" /\ ~interrupted => tasksClosed /\ queue = <<>>
  /\ ctxDone /\ ~interrupted => AllExited
  /\ errsClosed => AllExited
  /\ \A c \in StopCalls : call[c] \in {"waiting", "returned"} => ctxDone
  /\ interrupted => ctxDone

LEMMA EndingsStep == TypeOK /\ Endings /\ [Next]_vars => Endings'
<1> SUFFICES ASSUME TypeOK, Endings, [Next]_vars PROVE Endings'
  OBVIOUS
<1> USE DEF Endings, AllExited, PastOnce, Calls
<1>1. ASSUME NEW t \in Tasks,
             \/ SubmitBegins(t) \/ SubmitPanics(t) \/ SubmitSeesClosed(t)
             \/ SubmitSeesCancel(t) \/ SubmitGivesUp(t)
      PROVE  UNCHANGED <<queue, tasksClosed, worker, call, interrupted, ctxDone, errsClosed>>
  BY <1>1 DEF SubmitBegins, SubmitPanics, SubmitSeesClosed, SubmitSeesCancel, SubmitGivesUp
<1>2. ASSUME NEW t \in Tasks, SubmitEnqueues(t) PROVE Endings'
  BY <1>2 DEF SubmitEnqueues
<1>3. ASSUME NEW t \in Tasks, NEW w \in Workers, SubmitHandsOff(t, w) PROVE Endings'
  BY <1>3 DEF TypeOK, SubmitHandsOff
<1>4. ASSUME NEW w \in Workers, WorkerTakes(w) PROVE Endings'
  BY <1>4 DEF TypeOK, WorkerTakes
<1>5. ASSUME NEW w \in Workers, WorkerSeesClosed(w) PROVE Endings'
  BY <1>5 DEF TypeOK, WorkerSeesClosed, WorkerExits
<1>6. ASSUME NEW w \in Workers, WorkerSeesCancel(w) \/ WorkerDrops(w) PROVE Endings'
  <2>1. interrupted /\ worker' = [worker EXCEPT ![w] = "exited"]
        /\ UNCHANGED <<queue, tasksClosed, call, interrupted, ctxDone, errsClosed>>
    BY <1>6 DEF TypeOK, WorkerSeesCancel, WorkerDrops, WorkerExits
  <2> QED
    BY <2>1 DEF TypeOK
<1>7. ASSUME NEW w \in Workers, TaskReturns(w) \/ WorkerSends(w) \/ WorkerHandsOver(w)
      PROVE  Endings'
  <2>1. /\ worker[w] # "exited"
        /\ \/ worker' = [worker EXCEPT ![w] = "select"]
           \/ worker' = [worker EXCEPT ![w] = "send"]
        /\ UNCHANGED <<queue, tasksClosed, call, interrupted, ctxDone, errsClosed>>
    BY <1>7 DEF TaskReturns, WorkerSends, WorkerHandsOver
  <2> QED
    BY <2>1 DEF TypeOK
<1>8. CASE ErrsClose \/ ReaderTakes
  BY <1>8 DEF ErrsClose, ReaderTakes
<1>9. CASE ParentCancel
  BY <1>9 DEF TypeOK, ParentCancel, Cancel
<1>10. ASSUME NEW c \in Calls, CallBegins(c) \/ OnceCloses(c) PROVE Endings'
  BY <1>10 DEF TypeOK, CallBegins, OnceCloses, CallGoesTo
<1>11. ASSUME NEW c \in Calls, OnceClosesTasks(c) \/ OnceSkips(c) PROVE Endings'
  BY <1>11 DEF TypeOK, OnceClosesTasks, OnceSkips, CallGoesTo, AfterOnce
<1>12. ASSUME NEW c \in Calls, StopCancels(c) \/ ShutdownExpires(c) PROVE Endings'
  BY <1>12 DEF TypeOK, StopCancels, ShutdownExpires, CallGoesTo, Cancel
<1>13. ASSUME NEW c \in Calls, StopReturns(c) \/ ShutdownReturns(c) PROVE Endings'
  BY <1>13 DEF TypeOK, StopReturns, ShutdownReturns, CallGoesTo, Cancel
<1>14. CASE UNCHANGED <<queue, tasksClosed, worker, call, interrupted, ctxDone, errsClosed>>
  BY <1>14
<1> QED
  BY <1>1, <1>2, <1>3, <1>4, <1>5, <1>6, <1>7, <1>8, <1>9, <1>10, <1>11, <1>12, <1>13, <1>14
     DEF Next, SubmitStep, WorkerStep, CallStep

-----------------------------------------------------------------------------
(* Errors.                                                                  *)

LEMMA ErrorsStep ==
  TypeOK /\ TaskAccounting /\ Endings /\ ErrorAccounting /\ [Next]_vars => ErrorAccounting'
<1> SUFFICES ASSUME TypeOK, TaskAccounting, Endings, ErrorAccounting, [Next]_vars
             PROVE  ErrorAccounting'
  OBVIOUS
<1> USE DEF ErrorAccounting, InErrs, Sending
<1>1. ASSUME NEW w \in Workers, TaskReturns(w) PROVE ErrorAccounting'
  <2>1. job[w] \in Tasks /\ outcome[job[w]] = "none"
    BY <1>1 DEF TypeOK, TaskReturns, TaskAccounting, Running, Returned
  <2>2. CASE outcome' = [outcome EXCEPT ![job[w]] = "err"]
             /\ worker' = [worker EXCEPT ![w] = "send"] /\ UNCHANGED job
    BY <1>1, <2>1, <2>2 DEF TypeOK, TaskReturns
  <2>3. CASE outcome' = [outcome EXCEPT ![job[w]] = "ok"]
             /\ worker' = [worker EXCEPT ![w] = "select"]
             /\ job' = [job EXCEPT ![w] = NoTask]
    BY <1>1, <2>1, <2>3 DEF TypeOK, TaskReturns
  <2> QED
    BY <1>1, <2>2, <2>3 DEF TaskReturns
<1>2. ASSUME NEW w \in Workers, WorkerSends(w) PROVE ErrorAccounting'
  <2>1. job[w] \in Tasks /\ errs \in Seq(Tasks) /\ errs' = Append(errs, job[w])
        /\ ~Contains(errs, job[w])
    BY <1>2 DEF TypeOK, WorkerSends
  <2>2. \A y : Contains(errs', y) <=> Contains(errs, y) \/ y = job[w]
    BY <2>1, SendContains
  <2>3. IsInjective(errs')
    BY <2>1, SendDistinct
  <2> QED
    BY <1>2, <2>1, <2>2, <2>3 DEF TypeOK, WorkerSends
<1>3. ASSUME NEW w \in Workers, WorkerHandsOver(w) PROVE ErrorAccounting'
  <2>1. job[w] \in Tasks /\ ~Contains(errs, job[w])
    BY <1>3 DEF TypeOK, WorkerHandsOver
  <2> QED
    BY <1>3, <2>1 DEF TypeOK, WorkerHandsOver
<1>4. ASSUME NEW w \in Workers, WorkerDrops(w) PROVE ErrorAccounting'
  <2>1. interrupted
    BY <1>4 DEF Endings, AllExited, WorkerDrops
  <2> QED
    BY <1>4, <2>1 DEF TypeOK, WorkerDrops, WorkerExits
<1>5. CASE ReaderTakes
  <2>1. errs \in Seq(Tasks) /\ errs # <<>> /\ errs' = Tail(errs)
        /\ received' = received \cup {Head(errs)}
    BY <1>5 DEF TypeOK, ReaderTakes
  <2>2. \A y : Contains(errs, y) <=> y = Head(errs) \/ Contains(errs', y)
    BY <2>1, TakeContains
  <2>3. IsInjective(errs') /\ ~Contains(errs', Head(errs)) /\ Head(errs) \in Tasks
    BY <2>1, TakeDistinct, TakeContains
  <2> QED
    BY <1>5, <2>1, <2>2, <2>3 DEF TypeOK, ReaderTakes
<1>6. ASSUME NEW w \in Workers,
             \/ WorkerTakes(w) \/ WorkerSeesClosed(w) \/ WorkerSeesCancel(w)
             \/ \E t \in Tasks : SubmitHandsOff(t, w)
      PROVE  ErrorAccounting'
  <2>1. /\ worker[w] # "send" /\ worker'[w] # "send"
        /\ \A v \in Workers \ {w} : worker'[v] = worker[v] /\ job'[v] = job[v]
        /\ UNCHANGED <<outcome, errs, received, interrupted>>
    BY <1>6 DEF TypeOK, WorkerTakes, WorkerSeesClosed, WorkerSeesCancel, WorkerExits,
                SubmitHandsOff
  <2> QED
    BY <2>1
<1>7. ASSUME UNCHANGED <<worker, job, outcome, errs, received>>, interrupted => interrupted'
      PROVE  ErrorAccounting'
  BY <1>7
<1>8. ASSUME NEW t \in Tasks,
             \/ SubmitBegins(t) \/ SubmitEnqueues(t) \/ SubmitPanics(t)
             \/ SubmitSeesClosed(t) \/ SubmitSeesCancel(t) \/ SubmitGivesUp(t)
      PROVE  ErrorAccounting'
  BY <1>7, <1>8 DEF SubmitBegins, SubmitEnqueues, SubmitPanics, SubmitSeesClosed,
                    SubmitSeesCancel, SubmitGivesUp
<1>9. ASSUME NEW c \in Calls, CallBegins(c) \/ CallStep(c) PROVE ErrorAccounting'
  <2>1. /\ UNCHANGED <<worker, job, outcome, errs, received>>
        /\ Cancel \/ UNCHANGED interrupted
    BY <1>9 DEF CallBegins, CallStep, OnceCloses, OnceClosesTasks, OnceSkips,
                StopCancels, StopReturns, ShutdownReturns, ShutdownExpires
  <2>2. interrupted => interrupted'
    BY <2>1 DEF Cancel
  <2> QED
    BY <1>7, <2>1, <2>2
<1>10. CASE ErrsClose \/ ParentCancel
  <2>1. /\ UNCHANGED <<worker, job, outcome, errs, received>>
        /\ Cancel \/ UNCHANGED interrupted
    BY <1>10 DEF ErrsClose, ParentCancel
  <2>2. interrupted => interrupted'
    BY <2>1 DEF Cancel
  <2> QED
    BY <1>7, <2>1, <2>2
<1>11. CASE UNCHANGED vars
  BY <1>7, <1>11
<1> QED
  BY <1>1, <1>2, <1>3, <1>4, <1>5, <1>6, <1>8, <1>9, <1>10, <1>11
     DEF Next, SubmitStep, WorkerStep

-----------------------------------------------------------------------------
(* The inductive invariant, and what it gives.                              *)

PoolInvariant == TypeOK /\ TaskAccounting /\ Endings /\ ErrorAccounting

THEOREM PoolInvariantHolds == Spec => []PoolInvariant
<1>1. Init => Endings /\ ErrorAccounting
  BY EmptyBuffer, PoolAssumption
     DEF Init, Calls, Endings, AllExited, PastOnce, ErrorAccounting, InErrs, Sending
<1>2. PoolInvariant /\ [Next]_vars => PoolInvariant'
  BY TypeStep, AccountingStep, EndingsStep, ErrorsStep DEF PoolInvariant
<1>3. TypeOK /\ TaskAccounting /\ Endings /\ ErrorAccounting <=> PoolInvariant
  BY DEF PoolInvariant
<1> QED
  BY <1>1, <1>2, <1>3, TypeCorrect, TasksAccountedFor, PTL DEF Spec

\* No failed task's error is lost before the context ends, reported twice, or
\* reported for a task that succeeded (the sends of worker(), Errors()).
THEOREM ErrorsAccountedFor == Spec => []ErrorAccounting
<1>1. PoolInvariant => ErrorAccounting
  BY DEF PoolInvariant
<1> QED
  BY <1>1, PoolInvariantHolds, PTL

\* Shutdown returns nil after every accepted task, with every failure in the
\* error channel or read from it (pool.go:145-147).
THEOREM ShutdownCompletes == Spec => []ShutdownDrains
<1>1. ASSUME PoolInvariant PROVE ShutdownDrains
  <2> SUFFICES ASSUME NEW c \in ShutdownCalls, call[c] = "returned", ~interrupted
               PROVE  /\ \A t \in Accepted : Returned(t)
                      /\ Failed \subseteq Delivered
    BY DEF ShutdownDrains
  <2>1. AllExited
    BY <1>1 DEF PoolInvariant, Endings, Calls
  <2>2. queue = <<>>
    BY <1>1, <2>1, PoolAssumption DEF PoolInvariant, Endings, AllExited
  <2>3. \A t \in Tasks : ~InQueue(t) /\ ~Running(t) /\ ~Sending(t)
    BY <2>1, <2>2, EmptyBuffer DEF InQueue, Running, Sending, AllExited
  <2>4. \A t \in Accepted : Returned(t)
    BY <1>1, <2>3 DEF PoolInvariant, TaskAccounting, Accepted
  <2>5. Failed \subseteq Delivered
    BY <1>1, <2>3 DEF PoolInvariant, ErrorAccounting, Failed, Delivered
  <2> QED
    BY <2>4, <2>5
<1> QED
  BY <1>1, PoolInvariantHolds, PTL

\* A range over Errors() that ends has seen every failure, and none follows
\* (pool.go:138-140).
THEOREM RangeIsComplete == Spec => []RangeSeesAll
<1>1. ASSUME PoolInvariant PROVE RangeSeesAll
  <2> SUFFICES ASSUME errsClosed, errs = <<>>, ~interrupted
               PROVE  /\ received = Failed
                      /\ ~\E t \in Tasks : Running(t)
                      /\ queue = <<>>
    BY DEF RangeSeesAll
  <2>1. AllExited
    BY <1>1 DEF PoolInvariant, Endings
  <2>2. queue = <<>>
    BY <1>1, <2>1, PoolAssumption DEF PoolInvariant, Endings, AllExited
  <2>3. \A t \in Tasks : ~InErrs(t) /\ ~Running(t) /\ ~Sending(t)
    BY <2>1, EmptyBuffer DEF InErrs, Running, Sending, AllExited
  <2>4. received = Failed
    BY <1>1, <2>3 DEF PoolInvariant, TypeOK, ErrorAccounting, Failed
  <2> QED
    BY <2>2, <2>3, <2>4
<1> QED
  BY <1>1, PoolInvariantHolds, PTL

\* Nothing is accepted once any call is past closeOnce (pool.go:145-150, 176).
THEOREM NoLateAcceptance == Spec => NoLateAccept
<1> DEFINE A == (\E c \in Calls : call[c] \in PastOnce)
                  => {t \in Tasks : submit'[t] = "nil"} \subseteq Accepted
<1>1. ASSUME PoolInvariant, [Next]_vars PROVE A
  <2> SUFFICES ASSUME tasksClosed, NEW t \in Tasks, submit'[t] = "nil", submit[t] # "nil"
               PROVE  FALSE
    BY <1>1 DEF PoolInvariant, Endings, Accepted
  <2>1. \A u \in Tasks : \A w \in Workers : ~SubmitEnqueues(u) /\ ~SubmitHandsOff(u, w)
    BY DEF SubmitEnqueues, SubmitHandsOff
  <2>2. ASSUME NEW u \in Tasks,
               \/ SubmitBegins(u) \/ SubmitPanics(u) \/ SubmitSeesClosed(u)
               \/ SubmitSeesCancel(u) \/ SubmitGivesUp(u)
        PROVE  FALSE
    BY <1>1, <2>2 DEF PoolInvariant, TypeOK, SubmitReturns, SubmitBegins, SubmitPanics,
                      SubmitSeesClosed, SubmitSeesCancel, SubmitGivesUp
  <2>3. ASSUME NEW w \in Workers, WorkerStep(w) \/ TaskReturns(w) PROVE UNCHANGED submit
    BY <2>3 DEF WorkerStep, TaskReturns, WorkerTakes, WorkerSeesClosed, WorkerSeesCancel,
                WorkerExits, WorkerSends, WorkerHandsOver, WorkerDrops
  <2>4. ASSUME NEW c \in Calls, CallBegins(c) \/ CallStep(c) PROVE UNCHANGED submit
    BY <2>4 DEF CallBegins, CallStep, OnceCloses, OnceClosesTasks, OnceSkips, StopCancels,
                StopReturns, ShutdownReturns, ShutdownExpires
  <2>5. ASSUME ErrsClose \/ ReaderTakes \/ ParentCancel PROVE UNCHANGED submit
    BY <2>5 DEF ErrsClose, ReaderTakes, ParentCancel
  <2> QED
    BY <1>1, PoolAssumption, <2>1, <2>2, <2>3, <2>4, <2>5 DEF Next, SubmitStep
<1> QED
  BY <1>1, PoolInvariantHolds, PTL DEF Spec, NoLateAccept, PastOnce

-----------------------------------------------------------------------------
(* The proof that WorkerPool implements PoolContract.  One step of the pool  *)
(* is one step of the contract or none; the pool's inductive invariant says  *)
(* why each step is allowed.                                                 *)

\* What the contract sees of the pool.
Ran == {job[w] : w \in Busy}
Done == {t \in Tasks : Returned(t)}
Over == \E c \in Calls : call[c] = "returned"

\* A worker that waits for a task is a free slot.
LEMMA FreeSlot ==
  ASSUME NEW w \in Workers, worker[w] = "select"
  PROVE  Cardinality(Ran) < Cardinality(Workers)
<1> DEFINE f == [v \in Busy |-> job[v]]
<1>1. IsFiniteSet(Workers \ {w}) /\ Cardinality(Workers \ {w}) = Cardinality(Workers) - 1
      /\ Cardinality(Workers) \in Nat
  BY PoolAssumption, FS_RemoveElement, FS_CardinalityType
<1>2. Busy \in SUBSET (Workers \ {w})
  BY DEF Busy
<1>3. IsFiniteSet(Busy) /\ Cardinality(Busy) <= Cardinality(Workers \ {w})
      /\ Cardinality(Busy) \in Nat
  BY <1>1, <1>2, FS_Subset, FS_CardinalityType
<1>4. f \in Surjection(Busy, Ran)
  BY DEF Surjection, Ran
<1>5. IsFiniteSet(Ran) /\ Cardinality(Ran) <= Cardinality(Busy)
  BY <1>3, <1>4, FS_Surjection
<1>6. Cardinality(Ran) \in Nat
  BY <1>5, FS_CardinalityType
<1> QED
  BY <1>1, <1>3, <1>5, <1>6

\* A step that leaves what the contract sees alone.
LEMMA Stutters ==
  ASSUME UNCHANGED <<queue, outcome, tasksClosed, ctxDone>>, Ran' = Ran, Over' = Over
  PROVE  UNCHANGED Contract!vars
  BY DEF Contract!vars, Ran, Over, Busy, Returned

-----------------------------------------------------------------------------

\* The contract's copies of library operators are the operators.
LEMMA SameContains == \A t : Contract!Contains(queue, t) <=> InQueue(t)
  BY DEF Contract!Contains, InQueue, Contains

LEMMA SameCardinality == \A S : Contract!Cardinality(S) = Cardinality(S)
  BY DEF Contract!Cardinality, Cardinality

LEMMA StepImplements ==
  ASSUME PoolInvariant, [Next]_vars
  PROVE  [Contract!Next]_(Contract!vars)
<1> USE DEF PoolInvariant, Busy
<1>1. ASSUME NEW t \in Tasks,
             \/ SubmitBegins(t) \/ SubmitPanics(t) \/ SubmitSeesClosed(t)
             \/ SubmitSeesCancel(t) \/ SubmitGivesUp(t)
      PROVE  UNCHANGED Contract!vars
  <2>1. UNCHANGED <<queue, outcome, tasksClosed, ctxDone, worker, job, call>>
    BY <1>1 DEF SubmitBegins, SubmitPanics, SubmitSeesClosed, SubmitSeesCancel, SubmitGivesUp
  <2> QED
    BY <2>1, Stutters DEF Ran, Over
<1>2. ASSUME NEW t \in Tasks, SubmitEnqueues(t) PROVE Contract!Accept(t)
  <2>1. ~InQueue(t) /\ ~Running(t) /\ ~Returned(t)
    BY <1>2 DEF SubmitEnqueues, TaskAccounting, Accepted
  <2>2. t \notin Ran \cup Done
    BY <2>1 DEF Running, Ran, Done
  <2>3. UNCHANGED <<Ran, Done, tasksClosed, ctxDone, Over>>
    BY <1>2 DEF SubmitEnqueues, Ran, Done, Over, Returned
  <2> QED
    BY <1>2, <2>1, <2>2, <2>3, SameContains
       DEF SubmitEnqueues, Contract!Accept, Contract!Acceptable, Ran, Done, Over
<1>3. ASSUME NEW t \in Tasks, NEW w \in Workers, SubmitHandsOff(t, w)
      PROVE  Contract!AcceptAndStart(t)
  <2>1. ~InQueue(t) /\ ~Running(t) /\ ~Returned(t)
    BY <1>3 DEF SubmitHandsOff, TaskAccounting, Accepted
  <2>2. t \notin Ran \cup Done
    BY <2>1 DEF Running, Ran, Done
  <2>3. ~Over /\ ~Over'
    BY <1>3 DEF SubmitHandsOff, Over, Endings, AllExited
  <2>4. Cardinality(Ran) < Cardinality(Workers)
    BY <1>3, FreeSlot DEF SubmitHandsOff
  <2>5. Ran' = Ran \cup {t}
    BY <1>3 DEF SubmitHandsOff, Ran, TypeOK
  <2>6. UNCHANGED <<queue, Done, tasksClosed, ctxDone>>
    BY <1>3 DEF SubmitHandsOff, Done, Returned
  <2> QED
    BY <1>3, <2>1, <2>2, <2>3, <2>4, <2>5, <2>6, SameContains, SameCardinality
       DEF SubmitHandsOff, Contract!AcceptAndStart, Contract!Acceptable, Contract!HasSlot,
           Ran, Done, Over
<1>4. ASSUME NEW w \in Workers, WorkerTakes(w) PROVE Contract!Start
  <2>1. ~Over /\ ~Over'
    BY <1>4 DEF WorkerTakes, Over, Endings, AllExited
  <2>2. Cardinality(Ran) < Cardinality(Workers)
    BY <1>4, FreeSlot DEF WorkerTakes
  <2>3. Ran' = Ran \cup {Head(queue)}
    BY <1>4 DEF WorkerTakes, Ran, TypeOK
  <2>4. UNCHANGED <<Done, tasksClosed, ctxDone>>
    BY <1>4 DEF WorkerTakes, Done, Returned
  <2> QED
    BY <1>4, <2>1, <2>2, <2>3, <2>4, SameCardinality
       DEF WorkerTakes, Contract!Start, Contract!HasSlot, Ran, Done, Over
<1>5. ASSUME NEW w \in Workers, TaskReturns(w) PROVE \E t \in Tasks : Contract!Finish(t)
  <2>1. job[w] \in Tasks /\ worker[w] = "run" /\ job[w] \in Ran
    BY <1>5 DEF TaskReturns, TypeOK, Ran
  <2>2. Ran' = Ran \ {job[w]}
    <3>1. \A v \in Workers : worker'[v] = "run" <=> worker[v] = "run" /\ v # w
      BY <1>5 DEF TaskReturns, TypeOK
    <3>2. \A v \in Workers : worker'[v] = "run" => job'[v] = job[v]
      BY <1>5, <3>1 DEF TaskReturns, TypeOK
    <3>3. \A v \in Workers : worker[v] = "run" /\ job[v] = job[w] => v = w
      BY <2>1 DEF TaskAccounting
    <3> QED
      BY <2>1, <3>1, <3>2, <3>3 DEF Ran
  <2>3. Done' = Done \cup {job[w]}
    BY <1>5, <2>1 DEF TaskReturns, Done, Returned, TypeOK
  <2>4. UNCHANGED <<queue, tasksClosed, ctxDone, Over>>
    BY <1>5 DEF TaskReturns, Over
  <2>5. PICK t \in Tasks : t = job[w]
    BY <2>1
  <2>6. Contract!Finish(t)
    BY <2>1, <2>2, <2>3, <2>4, <2>5 DEF Contract!Finish, Ran, Done, Over
  <2> QED
    BY <2>6
<1>6. ASSUME NEW w \in Workers,
             \/ WorkerSeesClosed(w) \/ WorkerSeesCancel(w) \/ WorkerSends(w)
             \/ WorkerHandsOver(w) \/ WorkerDrops(w)
      PROVE  UNCHANGED Contract!vars
  <2>1. /\ worker[w] # "run"
        /\ \/ worker' = [worker EXCEPT ![w] = "select"]
           \/ worker' = [worker EXCEPT ![w] = "exited"]
        /\ job' = [job EXCEPT ![w] = NoTask]
        /\ UNCHANGED <<queue, outcome, tasksClosed, ctxDone, call>>
    BY <1>6 DEF WorkerSeesClosed, WorkerSeesCancel, WorkerSends, WorkerHandsOver,
                WorkerDrops, WorkerExits
  <2>2. \A v \in Workers : /\ worker'[v] = "run" <=> worker[v] = "run"
                           /\ worker[v] = "run" => job'[v] = job[v]
    BY <2>1 DEF TypeOK
  <2>3. Ran' = Ran
    BY <2>2 DEF Ran
  <2>4. Over' = Over
    BY <2>1 DEF Over
  <2> QED
    BY <2>1, <2>3, <2>4, Stutters
<1>7. CASE ErrsClose \/ ReaderTakes \/ UNCHANGED vars
  <2>1. UNCHANGED <<queue, outcome, tasksClosed, ctxDone, worker, job, call>>
    BY <1>7 DEF ErrsClose, ReaderTakes
  <2> QED
    BY <2>1, Stutters DEF Ran, Over
<1>8. ASSUME NEW c \in Calls, NEW s \in CallStates \ {"returned"},
             call[c] # "returned", CallGoesTo(c, s)
      PROVE  Over' = Over
  BY <1>8 DEF CallGoesTo, Over, TypeOK
<1>9. ASSUME NEW c \in Calls, CallBegins(c) \/ OnceCloses(c) \/ OnceSkips(c)
      PROVE  UNCHANGED Contract!vars
  <2>1. Over' = Over
    BY <1>8, <1>9 DEF CallBegins, OnceCloses, OnceSkips, AfterOnce
  <2>2. UNCHANGED <<queue, outcome, tasksClosed, ctxDone, worker, job>>
    BY <1>9 DEF CallBegins, OnceCloses, OnceSkips
  <2> QED
    BY <2>1, <2>2, Stutters DEF Ran
<1>10. ASSUME NEW c \in Calls, OnceClosesTasks(c) PROVE Contract!Seal
  <2>1. Over' = Over
    BY <1>8, <1>10 DEF OnceClosesTasks, AfterOnce
  <2> QED
    BY <1>10, <2>1 DEF OnceClosesTasks, Contract!Seal, Over, Returned
<1>11. ASSUME \/ ParentCancel
              \/ \E c \in Calls : StopCancels(c) \/ ShutdownExpires(c)
       PROVE  Contract!Cut
  <2>1. Over' = Over
    BY <1>8, <1>11 DEF ParentCancel, StopCancels, ShutdownExpires, Over
  <2> QED
    BY <1>11, <2>1 DEF ParentCancel, StopCancels, ShutdownExpires, Cancel,
                       Contract!Cut, Over, Returned
<1>12. ASSUME NEW c \in Calls, StopReturns(c) \/ ShutdownReturns(c) PROVE Contract!End
  <2>1. AllExited /\ call[c] = "waiting" /\ tasksClosed
    BY <1>12 DEF StopReturns, ShutdownReturns, Endings, PastOnce
  <2>2. Ran = {}
    BY <2>1 DEF AllExited, Ran
  <2>3. queue = <<>> \/ ctxDone
    BY <2>1, PoolAssumption DEF Endings, AllExited
  <2>4. Over' = TRUE
    BY <1>12 DEF StopReturns, ShutdownReturns, CallGoesTo, Over, TypeOK
  <2>5. ctxDone' = TRUE
    BY <1>12 DEF StopReturns, ShutdownReturns, Cancel, Endings, TypeOK
  <2>6. UNCHANGED <<queue, worker, job, outcome, tasksClosed>>
    BY <1>12 DEF StopReturns, ShutdownReturns
  <2> QED
    BY <2>1, <2>2, <2>3, <2>4, <2>5, <2>6 DEF Contract!End, Ran, Over, Returned
<1> QED
  BY <1>1, <1>2, <1>3, <1>4, <1>5, <1>6, <1>7, <1>9, <1>10, <1>11, <1>12
     DEF Next, SubmitStep, WorkerStep, CallStep, Contract!Next

\* The pool starts accepted tasks in order, each once, no more at a time than it
\* has workers, and tells Shutdown and Stop of its end when it has ended.
THEOREM PoolImplementsContract == Spec => ImplementsContract
<1>1. Init => Contract!Init
  BY DEF Init, Contract!Init, Busy, Returned
<1> QED
  BY <1>1, StepImplements, PoolInvariantHolds, PTL
     DEF Spec, ImplementsContract, Contract!Spec

-----------------------------------------------------------------------------
(* The example program: for any jobs, its pool is one of WorkerPool, whose   *)
(* theorems hold of it, and main comes to its end only when the pool has.   *)

USE DEF exVars, allVars

\* produce() submits tasks of the pool.
LEMMA JobsAreTasks == MadeByMain => \A i \in DOMAIN Jobs : Jobs[i] \in Tasks
<1> SUFFICES ASSUME MadeByMain PROVE \A i \in DOMAIN Jobs : Jobs[i] \in Tasks
  OBVIOUS
<1>1. IsFiniteSet(Tasks)
  BY DEF MadeByMain
<1>2. PICK n \in Nat : \E f : f \in Bijection(1..n, Tasks)
  BY <1>1, FS_NatBijection DEF ExistsBijection
<1>3. PICK f : f \in Bijection(1..n, Tasks)
  BY <1>2
<1>4. f \in [1..n -> Tasks] /\ \A i, j \in 1..n : f[i] = f[j] => i = j
  BY <1>3 DEF Bijection, Injection, IsInjective
<1>5. Cardinality(Tasks) = n
  BY <1>1, <1>2, FS_CountingElements DEF ExistsBijection
<1>6. IsInjective(f)
  BY <1>4 DEF IsInjective
<1>7. Jobs \in [1..n -> Tasks]
  BY <1>4, <1>5, <1>6, Zenon DEF Jobs, SetToSeq
<1> QED
  BY <1>7

\* While the process is there, what any of its goroutines does is a step of the pool or
\* leaves the pool alone.
LEMMA StepOfPool == MadeByMain /\ [ExNext]_allVars => [Next]_vars
<1> SUFFICES ASSUME MadeByMain, Alive, ExNext PROVE [Next]_vars
  BY DEF ExNext
<1>1. ~Crashed
  BY DEF Alive
<1>2. shutdown \in Calls /\ stop \in Calls
  BY DEF MadeByMain, Calls
<1>3. CASE Produce
  BY <1>1, <1>3, JobsAreTasks DEF Produce, Next
<1>4. CASE ProducerStep
  BY <1>1, <1>4 DEF ProducerStep, Next
<1>5. CASE \E w \in Workers : JobReturns(w)
  BY <1>1, <1>5 DEF JobReturns, Next
<1>6. CASE PoolStep
  BY <1>1, <1>6 DEF PoolStep, Next
<1>7. CASE MainStep
  BY <1>1, <1>2, <1>7 DEF MainStep, Next
<1>8. CASE Signal
  BY <1>8 DEF Signal
<1>9. CASE SignalReachesPool
  BY <1>1, <1>9 DEF SignalReachesPool, Next
<1> QED
  BY <1>3, <1>4, <1>5, <1>6, <1>7, <1>8, <1>9 DEF ExNext

\* The pool of the example program behaves as WorkerPool does on its own.
THEOREM ExampleUsesPool == ASSUME MadeByMain PROVE ExSpec => Spec
<1>1. ExInit => Init
  BY DEF ExInit
<1> QED
  BY <1>1, StepOfPool, PTL DEF ExSpec, Spec

-----------------------------------------------------------------------------
(* The end of main *)

\* main returns from a Shutdown or a Stop that has.
ReturnedFirst == main = "exited" => \E c \in Calls : call[c] = "returned"

LEMMA ReturnedFirstStep == ReturnedFirst /\ [ExNext]_allVars => ReturnedFirst'
<1> SUFFICES ASSUME ReturnedFirst, [ExNext]_allVars PROVE ReturnedFirst'
  OBVIOUS
<1>1. CASE UNCHANGED allVars
  BY <1>1 DEF ReturnedFirst, vars
<1>2. CASE ExNext
  <2> SUFFICES ASSUME main' = "exited" PROVE \E c \in Calls : call'[c] = "returned"
    BY DEF ReturnedFirst
  <2>1. main # "exited"
    BY <1>2 DEF ExNext, Alive
  <2>2. MainStep
    BY <1>2, <2>1 DEF ExNext, Produce, ProducerStep, JobReturns, PoolStep, Signal, SignalReachesPool
  <2>3. (\E c \in Calls : call[c] = "returned") /\ call' = call
    BY <2>1, <2>2 DEF MainStep, MainGoesTo, vars
  <2> QED
    BY <2>3
<1> QED
  BY <1>1, <1>2

\* Once a call has returned, no worker is left, and TaskAccounting says where the tasks are.
LEMMA CleanWhenReturned == PoolInvariant /\ ReturnedFirst => ExitsCleanly
<1> SUFFICES ASSUME PoolInvariant, ReturnedFirst, main = "exited"
             PROVE  AllExited /\ \A t \in Accepted : Returned(t) \/ InQueue(t)
  BY DEF ExitsCleanly
<1>1. AllExited
  BY DEF PoolInvariant, Endings, ReturnedFirst
<1>2. \A t \in Tasks : ~Running(t)
  BY <1>1 DEF AllExited, Running
<1> QED
  BY <1>1, <1>2 DEF PoolInvariant, TaskAccounting, Accepted

\* Whichever way main comes to its end, no worker is left, none runs a job, and every
\* job that was accepted has ended or was still in the queue.
THEOREM MainExitsCleanly == ASSUME MadeByMain PROVE ExSpec => []ExitsCleanly
<1>1. ExInit => ReturnedFirst
  BY DEF ExInit, ReturnedFirst
<1> QED
  BY <1>1, ReturnedFirstStep, CleanWhenReturned, ExampleUsesPool, PoolInvariantHolds, PTL DEF ExSpec
=============================================================================
