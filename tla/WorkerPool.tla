----------------------------- MODULE WorkerPool -----------------------------
(***************************************************************************)
(* The goroutine pool of workerpool/pool.go: n workers take tasks off one   *)
(* channel, failures go out on an error channel, and the pool is ended by   *)
(* Shutdown (graceful, bounded by a context), by Stop, or by the context    *)
(* handed to New.  Every operation of pool.go is here, one action per       *)
(* channel operation or atomic region.                                      *)
(*                                                                         *)
(* A `select` is a state with one action per case: any case that is ready   *)
(* may be the one chosen, which is what Go's random choice can produce.  A  *)
(* goroutine parked in a select and one about to poll it are one state,     *)
(* since the scheduler may delay the second for as long as it likes.        *)
(*                                                                         *)
(* A definition named Slip... is a mistake a change of pool.go could make,  *)
(* in the place of the definition after it: no behaviour of the code, but   *)
(* the sensitivity of a property (PROJECT.json says which).                 *)
(***************************************************************************)
EXTENDS Naturals, FiniteSets, SequencesExt

CONSTANTS
  Tasks,          \* the tasks, one Submit call each
  Workers,        \* the goroutines started by New
  ShutdownCalls,  \* calls of Shutdown, each by a goroutine of its own
  StopCalls,      \* calls of Stop, likewise
  Bounded,        \* the Shutdown calls whose ctx can end; others pass Background()
  QueueSize,      \* WithQueueSize
  ErrBuf,         \* WithErrorBuffer
  Reading,        \* does somebody range over Errors()?
  ParentCancels,  \* can the context handed to New be cancelled?
  NoTask          \* what an idle worker holds

ASSUME PoolAssumption ==
  /\ Workers # {} /\ IsFiniteSet(Workers)
  /\ ShutdownCalls \cap StopCalls = {}
  /\ Bounded \subseteq ShutdownCalls
  /\ QueueSize \in Nat /\ ErrBuf \in Nat
  /\ Reading \in BOOLEAN /\ ParentCancels \in BOOLEAN
  /\ NoTask \notin Tasks

Calls == ShutdownCalls \cup StopCalls

VARIABLES
  queue,        \* the buffer of channel p.tasks
  closed,       \* is channel p.closed closed?
  tasksClosed,  \* is channel p.tasks closed?
  ctxDone,      \* is p.ctx done?
  submit,       \* per task, where its Submit call is, or what it returned
  worker,       \* per worker, where it is in worker()
  job,          \* per worker, the task it runs or whose error it delivers
  outcome,      \* per task, what it returned, or "none"
  errs,         \* the buffer of channel p.errs, an error standing as its task
  errsClosed,   \* is channel p.errs closed?
  received,     \* the errors taken from Errors()
  call,         \* per Shutdown/Stop call, where it is
  interrupted   \* history: did p.ctx end while a worker was still there?

poolVars == <<queue, closed, tasksClosed, ctxDone>>
errVars == <<errs, errsClosed, received>>
workVars == <<worker, job, outcome>>
vars == <<poolVars, submit, workVars, errVars, call, interrupted>>

SubmitStates == {"idle", "selecting", "nil", "errClosed", "errPool", "errCaller", "panic"}
WorkerStates == {"select", "run", "send", "exited"}
CallStates == {"idle", "once", "closing", "cancelling", "waiting", "returned", "expired"}

TypeOK ==
  /\ queue \in Seq(Tasks) /\ errs \in Seq(Tasks) /\ received \subseteq Tasks
  /\ closed \in BOOLEAN /\ tasksClosed \in BOOLEAN /\ errsClosed \in BOOLEAN
  /\ ctxDone \in BOOLEAN /\ interrupted \in BOOLEAN
  /\ submit \in [Tasks -> SubmitStates]
  /\ worker \in [Workers -> WorkerStates]
  /\ job \in [Workers -> Tasks \cup {NoTask}]
  /\ \A w \in Workers : job[w] = NoTask <=> worker[w] \in {"select", "exited"}
  /\ outcome \in [Tasks -> {"none", "ok", "err"}]
  /\ call \in [Calls -> CallStates]

\* The sync.WaitGroup p.wg is at zero: `defer p.wg.Done()` of every worker ran.
AllExited == \A w \in Workers : worker[w] = "exited"

\* A panic that nobody recovers ends the process.
Crashed == \E t \in Tasks : submit[t] = "panic"

Init ==
  /\ queue = <<>> /\ errs = <<>> /\ received = {}
  /\ closed = FALSE /\ tasksClosed = FALSE /\ errsClosed = FALSE
  /\ ctxDone = FALSE /\ interrupted = FALSE
  /\ submit = [t \in Tasks |-> "idle"]
  /\ worker = [w \in Workers |-> "select"]
  /\ job = [w \in Workers |-> NoTask]
  /\ outcome = [t \in Tasks |-> "none"]
  /\ call = [c \in Calls |-> "idle"]

\* p.cancel(), or the end of the parent context.
Cancel ==
  /\ ctxDone' = TRUE
  /\ interrupted' = (interrupted \/ ~AllExited)

-----------------------------------------------------------------------------
(* Submit(ctx, t) *)

SubmitReturns(t, r) == submit' = [submit EXCEPT ![t] = r]

\* The first select: p.closed is polled once, with a default case.
SubmitBegins(t) ==
  /\ submit[t] = "idle"
  /\ SubmitReturns(t, IF closed THEN "errClosed" ELSE "selecting")
  /\ UNCHANGED <<poolVars, workVars, errVars, call, interrupted>>

\* Slip: the caller's context is looked at again after the send.
SlipEnqueues(t) ==
  /\ submit[t] = "selecting" /\ ~tasksClosed
  /\ Len(queue) < QueueSize
  /\ queue' = Append(queue, t)
  /\ \E r \in {"nil", "errCaller"} : SubmitReturns(t, r)
  /\ UNCHANGED <<closed, tasksClosed, ctxDone, workVars, errVars, call, interrupted>>

\* The cases of the second select.  A send to the buffer of p.tasks:
SubmitEnqueues(t) ==
  /\ submit[t] = "selecting" /\ ~tasksClosed
  /\ Len(queue) < QueueSize
  /\ queue' = Append(queue, t)
  /\ SubmitReturns(t, "nil")
  /\ UNCHANGED <<closed, tasksClosed, ctxDone, workVars, errVars, call, interrupted>>

\* ... a send to a worker that is waiting to receive:
SubmitHandsOff(t, w) ==
  /\ submit[t] = "selecting" /\ ~tasksClosed
  /\ queue = <<>> /\ worker[w] = "select"
  /\ worker' = [worker EXCEPT ![w] = "run"]
  /\ job' = [job EXCEPT ![w] = t]
  /\ SubmitReturns(t, "nil")
  /\ UNCHANGED <<poolVars, outcome, errVars, call, interrupted>>

\* ... a send on the closed channel, which Go answers with a panic:
SubmitPanics(t) ==
  /\ submit[t] = "selecting" /\ tasksClosed
  /\ SubmitReturns(t, "panic")
  /\ UNCHANGED <<poolVars, workVars, errVars, call, interrupted>>

\* ... <-p.closed:
SubmitSeesClosed(t) ==
  /\ submit[t] = "selecting" /\ closed
  /\ SubmitReturns(t, "errClosed")
  /\ UNCHANGED <<poolVars, workVars, errVars, call, interrupted>>

\* Slip: the second select without the pool's own context.
SlipSeesCancel(t) == FALSE

\* ... <-p.ctx.Done():
SubmitSeesCancel(t) ==
  /\ submit[t] = "selecting" /\ ctxDone
  /\ SubmitReturns(t, "errPool")
  /\ UNCHANGED <<poolVars, workVars, errVars, call, interrupted>>

\* ... and <-ctx.Done(), the caller's own context, at any time.
SubmitGivesUp(t) ==
  /\ submit[t] = "selecting"
  /\ SubmitReturns(t, "errCaller")
  /\ UNCHANGED <<poolVars, workVars, errVars, call, interrupted>>

-----------------------------------------------------------------------------
(* worker() *)

\* One receive from the buffer of p.tasks, open or closed.
WorkerTakes(w) ==
  /\ worker[w] = "select" /\ queue # <<>>
  /\ worker' = [worker EXCEPT ![w] = "run"]
  /\ job' = [job EXCEPT ![w] = Head(queue)]
  /\ queue' = Tail(queue)
  /\ UNCHANGED <<closed, tasksClosed, ctxDone, submit, outcome, errVars, call, interrupted>>

WorkerExits(w) ==
  /\ worker' = [worker EXCEPT ![w] = "exited"]
  /\ job' = [job EXCEPT ![w] = NoTask]
  /\ UNCHANGED <<poolVars, submit, outcome, errVars, call, interrupted>>

\* Slip: `ok` is not looked at, and the nil task run.
SlipRunsNil(w) ==
  /\ worker[w] = "select" /\ tasksClosed /\ queue = <<>>
  /\ worker' = [worker EXCEPT ![w] = "run"]
  /\ UNCHANGED <<poolVars, submit, job, outcome, errVars, call, interrupted>>

\* Slip: a worker leaves when the pool is closed, drained or not.
SlipSeesClosed(w) ==
  /\ worker[w] = "select" /\ tasksClosed
  /\ WorkerExits(w)

\* A receive from p.tasks that says !ok: closed and drained.
WorkerSeesClosed(w) ==
  /\ worker[w] = "select" /\ tasksClosed /\ queue = <<>>
  /\ WorkerExits(w)

WorkerSeesCancel(w) ==
  /\ worker[w] = "select" /\ ctxDone
  /\ WorkerExits(w)

\* task(p.ctx) returns, with an error or without.
TaskReturns(w) ==
  /\ worker[w] = "run"
  /\ \/ /\ outcome' = [outcome EXCEPT ![job[w]] = "ok"]
        /\ worker' = [worker EXCEPT ![w] = "select"]
        /\ job' = [job EXCEPT ![w] = NoTask]
     \/ /\ outcome' = [outcome EXCEPT ![job[w]] = "err"]
        /\ worker' = [worker EXCEPT ![w] = "send"]
        /\ UNCHANGED job
  /\ UNCHANGED <<poolVars, submit, errVars, call, interrupted>>

\* Slip: the send has a default case, and a full buffer costs the error.
SlipSends(w) ==
  /\ worker[w] = "send"
  /\ errs' = IF Len(errs) < ErrBuf THEN Append(errs, job[w]) ELSE errs
  /\ worker' = [worker EXCEPT ![w] = "select"]
  /\ job' = [job EXCEPT ![w] = NoTask]
  /\ UNCHANGED <<poolVars, submit, outcome, errsClosed, received, call, interrupted>>

\* The select that delivers the error: to the buffer of p.errs ...
WorkerSends(w) ==
  /\ worker[w] = "send" /\ Len(errs) < ErrBuf
  /\ errs' = Append(errs, job[w])
  /\ worker' = [worker EXCEPT ![w] = "select"]
  /\ job' = [job EXCEPT ![w] = NoTask]
  /\ UNCHANGED <<poolVars, submit, outcome, errsClosed, received, call, interrupted>>

\* Slip: the worker returns once it has delivered its error.
SlipHandsOver(w) ==
  /\ worker[w] = "send" /\ Reading /\ errs = <<>>
  /\ received' = received \cup {job[w]}
  /\ worker' = [worker EXCEPT ![w] = "exited"]
  /\ job' = [job EXCEPT ![w] = NoTask]
  /\ UNCHANGED <<poolVars, submit, outcome, errs, errsClosed, call, interrupted>>

\* ... to the goroutine that ranges over Errors() ...
WorkerHandsOver(w) ==
  /\ worker[w] = "send" /\ Reading /\ errs = <<>>
  /\ received' = received \cup {job[w]}
  /\ worker' = [worker EXCEPT ![w] = "select"]
  /\ job' = [job EXCEPT ![w] = NoTask]
  /\ UNCHANGED <<poolVars, submit, outcome, errs, errsClosed, call, interrupted>>

\* Slip: a plain send, with no regard to the context.
SlipDrops(w) == FALSE

\* ... or nowhere, when the context is done.
WorkerDrops(w) ==
  /\ worker[w] = "send" /\ ctxDone
  /\ WorkerExits(w)

-----------------------------------------------------------------------------
(* The goroutine of New that closes p.errs, and the reader of Errors(). *)

\* Slip: the channel is closed when there is no task left to take.
SlipErrsClose ==
  /\ tasksClosed /\ queue = <<>> /\ ~errsClosed
  /\ errsClosed' = TRUE
  /\ UNCHANGED <<poolVars, submit, workVars, errs, received, call, interrupted>>

ErrsClose ==
  /\ AllExited /\ ~errsClosed
  /\ errsClosed' = TRUE
  /\ UNCHANGED <<poolVars, submit, workVars, errs, received, call, interrupted>>

ReaderTakes ==
  /\ Reading /\ errs # <<>>
  /\ received' = received \cup {Head(errs)}
  /\ errs' = Tail(errs)
  /\ UNCHANGED <<poolVars, submit, workVars, errsClosed, call, interrupted>>

ParentCancel ==
  /\ ParentCancels /\ ~ctxDone
  /\ Cancel
  /\ UNCHANGED <<queue, closed, tasksClosed, submit, workVars, errVars, call>>

-----------------------------------------------------------------------------
(* Shutdown(ctx) and Stop() *)

CallGoesTo(c, s) == call' = [call EXCEPT ![c] = s]

AfterOnce(c) == IF c \in StopCalls THEN "cancelling" ELSE "waiting"

CallBegins(c) ==
  /\ call[c] = "idle"
  /\ CallGoesTo(c, "once")
  /\ UNCHANGED <<poolVars, submit, workVars, errVars, interrupted>>

\* closeOnce.Do: the first call runs the function, close(p.closed) and then
\* close(p.tasks), ...
OnceCloses(c) ==
  /\ call[c] = "once" /\ ~closed
  /\ closed' = TRUE
  /\ CallGoesTo(c, "closing")
  /\ UNCHANGED <<queue, tasksClosed, ctxDone, submit, workVars, errVars, interrupted>>

\* Slip: p.closed is closed and p.tasks is not.
SlipClosesTasks(c) ==
  /\ call[c] = "closing"
  /\ CallGoesTo(c, AfterOnce(c))
  /\ UNCHANGED <<poolVars, submit, workVars, errVars, interrupted>>

OnceClosesTasks(c) ==
  /\ call[c] = "closing"
  /\ tasksClosed' = TRUE
  /\ CallGoesTo(c, AfterOnce(c))
  /\ UNCHANGED <<queue, closed, ctxDone, submit, workVars, errVars, interrupted>>

\* Slip: an atomic flag for the sync.Once, which a second call does not wait for.
SlipSkips(c) ==
  /\ call[c] = "once" /\ closed
  /\ CallGoesTo(c, AfterOnce(c))
  /\ UNCHANGED <<poolVars, submit, workVars, errVars, interrupted>>

\* Slip: a mutex for the sync.Once, which the first call does not give back.
SlipLocksOut(c) == FALSE

\* ... and every other call waits until it has returned.
OnceSkips(c) ==
  /\ call[c] = "once" /\ tasksClosed
  /\ CallGoesTo(c, AfterOnce(c))
  /\ UNCHANGED <<poolVars, submit, workVars, errVars, interrupted>>

StopCancels(c) ==
  /\ call[c] = "cancelling"
  /\ Cancel
  /\ CallGoesTo(c, "waiting")
  /\ UNCHANGED <<queue, closed, tasksClosed, submit, workVars, errVars>>

\* Slip: Stop does not wait for the workers.
SlipStopReturns(c) ==
  /\ c \in StopCalls /\ call[c] = "waiting"
  /\ CallGoesTo(c, "returned")
  /\ UNCHANGED <<poolVars, submit, workVars, errVars, interrupted>>

StopReturns(c) ==
  /\ c \in StopCalls /\ call[c] = "waiting" /\ AllExited
  /\ CallGoesTo(c, "returned")
  /\ UNCHANGED <<poolVars, submit, workVars, errVars, interrupted>>

\* Shutdown's select, <-done (nil) against <-ctx.Done() (ctx.Err()).
ShutdownReturns(c) ==
  /\ c \in ShutdownCalls /\ call[c] = "waiting" /\ AllExited
  /\ Cancel
  /\ CallGoesTo(c, "returned")
  /\ UNCHANGED <<queue, closed, tasksClosed, submit, workVars, errVars>>

ShutdownExpires(c) ==
  /\ c \in Bounded /\ call[c] = "waiting"
  /\ Cancel
  /\ CallGoesTo(c, "expired")
  /\ UNCHANGED <<queue, closed, tasksClosed, submit, workVars, errVars>>

-----------------------------------------------------------------------------

\* What the Go scheduler runs of a call, a worker and a Submit once started.
CallStep(c) ==
  \/ OnceCloses(c) \/ OnceClosesTasks(c) \/ OnceSkips(c)
  \/ StopCancels(c) \/ StopReturns(c)
  \/ ShutdownReturns(c) \/ ShutdownExpires(c)

WorkerStep(w) ==
  \/ WorkerTakes(w) \/ WorkerSeesClosed(w) \/ WorkerSeesCancel(w)
  \/ WorkerSends(w) \/ WorkerHandsOver(w) \/ WorkerDrops(w)

SubmitStep(t) ==
  \/ SubmitEnqueues(t) \/ \E w \in Workers : SubmitHandsOff(t, w)
  \/ SubmitPanics(t) \/ SubmitSeesClosed(t) \/ SubmitSeesCancel(t)

Next ==
  /\ ~Crashed
  /\ \/ \E t \in Tasks : SubmitBegins(t) \/ SubmitStep(t) \/ SubmitGivesUp(t)
     \/ \E w \in Workers : WorkerStep(w) \/ TaskReturns(w)
     \/ \E c \in Calls : CallBegins(c) \/ CallStep(c)
     \/ ErrsClose \/ ReaderTakes \/ ParentCancel

Spec == Init /\ [][Next]_vars

-----------------------------------------------------------------------------
(* What the pool owes its caller. *)

Accepted == {t \in Tasks : submit[t] = "nil"}
InQueue(t) == Contains(queue, t)
Running(t) == \E w \in Workers : worker[w] = "run" /\ job[w] = t
Returned(t) == outcome[t] # "none"

\* A task whose Submit returned nil is in the queue, with one worker, or has
\* returned, and in one of these only: none is lost, none runs twice.  One
\* whose Submit did not return nil is nowhere: a rejected task never runs.
TaskAccounting ==
  /\ \A t \in Tasks : t \in Accepted <=> InQueue(t) \/ Running(t) \/ Returned(t)
  /\ \A t \in Tasks : ~(InQueue(t) /\ Running(t))
  /\ \A t \in Tasks : Returned(t) => ~InQueue(t) /\ ~Running(t)
  /\ IsInjective(queue)
  /\ \A v, w \in Workers :
       worker[v] = "run" /\ worker[w] = "run" /\ job[v] = job[w] => v = w

InErrs(t) == Contains(errs, t)
Sending(t) == \E w \in Workers : worker[w] = "send" /\ job[w] = t

\* A failed task's error is with the worker that sends it, in the buffer or
\* with the reader, in one of these only, unless the context ended early: no
\* error is reported twice, for a task that succeeded, or lost in silence.
ErrorAccounting ==
  /\ \A t \in Tasks : InErrs(t) \/ Sending(t) \/ t \in received => outcome[t] = "err"
  /\ \A t \in Tasks : outcome[t] = "err" /\ ~interrupted
                        => InErrs(t) \/ Sending(t) \/ t \in received
  /\ \A t \in Tasks : ~(InErrs(t) /\ Sending(t))
  /\ \A t \in received : ~InErrs(t) /\ ~Sending(t)
  /\ IsInjective(errs)
  /\ \A v, w \in Workers :
       worker[v] = "send" /\ worker[w] = "send" /\ job[v] = job[w] => v = w

Failed == {t \in Tasks : outcome[t] = "err"}
Delivered == received \cup {t \in Tasks : InErrs(t)}

\* Shutdown that returns nil, when nothing cut the context short, returns after
\* every accepted task, with every failure on its way to the reader.
ShutdownDrains ==
  (\E c \in ShutdownCalls : call[c] = "returned") /\ ~interrupted
    => /\ \A t \in Accepted : Returned(t)
       /\ Failed \subseteq Delivered

\* "It is closed once all worker goroutines have exited, so it is safe to range
\* over": when a reader's range over Errors() ends, it has seen every failure
\* there will ever be, or the context was cut short.
RangeSeesAll ==
  errsClosed /\ errs = <<>> /\ ~interrupted
    => /\ received = Failed
       /\ ~\E t \in Tasks : Running(t)
       /\ \A c \in Calls : call[c] \in {"waiting", "returned"} => queue = <<>>

\* Once any Shutdown or Stop has come past closeOnce, whichever call ran it, no
\* Submit is accepted any more, the ones in their second select included.
NoLateAccept ==
  [][(\E c \in Calls : call[c] \in {"cancelling", "waiting", "returned", "expired"})
       => {t \in Tasks : submit'[t] = "nil"} \subseteq Accepted]_vars

-----------------------------------------------------------------------------
(* A claim of the repository that the code does not keep. *)

\* pool.go:115-116: "It returns ErrPoolClosed once the pool has been shut down".
SubmitNeverPanics == ~Crashed

-----------------------------------------------------------------------------
(* Liveness.  The Go scheduler runs every goroutine that can run, and a      *)
(* select with a ready case takes one.  Nothing makes a caller call Submit,  *)
(* Shutdown or Stop, give a Submit up, or read Errors(), a task return, or    *)
(* the parent context end.                                                  *)

Scheduled ==
  /\ \A w \in Workers : WF_vars(~Crashed /\ WorkerStep(w) /\ UNCHANGED received)
  /\ \A t \in Tasks : WF_vars(~Crashed /\ SubmitStep(t))
  /\ \A c \in Calls : WF_vars(~Crashed /\ CallStep(c))
  /\ WF_vars(~Crashed /\ ErrsClose)

FairSpec == Spec /\ Scheduled

\* Tasks that return once their context is done, and perhaps only then.
Cooperative == \A w \in Workers : WF_vars(~Crashed /\ ctxDone /\ TaskReturns(w))

\* Tasks that return, sooner or later, and a caller who ranges over Errors().
Terminating == \A w \in Workers : WF_vars(~Crashed /\ TaskReturns(w))
Reads ==
  /\ WF_vars(~Crashed /\ ReaderTakes)
  /\ \A w \in Workers : WF_vars(~Crashed /\ WorkerHandsOver(w))

\* Stop, and Shutdown with a deadline, return and release every goroutine of the
\* pool though nobody need read Errors() and no task end by itself.
EndReleasesPool ==
  Cooperative
    => \A c \in StopCalls \cup Bounded :
         call[c] = "once" ~> Crashed \/ (call[c] \in {"returned", "expired"} /\ errsClosed)

\* Shutdown(Background()) returns when tasks do and errors are read.
ShutdownReturnsAtLast ==
  Terminating /\ Reads
    => \A c \in ShutdownCalls \ Bounded : call[c] = "once" ~> Crashed \/ call[c] = "returned"

\* An accepted task comes to its end unless the context does first.
AcceptedReturns ==
  Terminating /\ Reads
    => \A t \in Tasks : submit[t] = "nil" ~> Crashed \/ ctxDone \/ Returned(t)

\* No Submit waits for ever, full queue or not: workers survive failing tasks.
SubmitReturnsAtLast ==
  Terminating /\ Reads
    => \A t \in Tasks : submit[t] = "selecting" ~> Crashed \/ submit[t] # "selecting"
=============================================================================
