----------------------------- MODULE PoolExample -----------------------------
(***************************************************************************)
(* workerpool/cmd/example/main.go: the pool of WorkerPool under the program *)
(* that shows how to use it.  One goroutine submits jobs one after another, *)
(* one ranges over Errors(), and main waits for a signal, then shuts the    *)
(* pool down with a deadline and stops it if that fails.  The context given *)
(* to New is the signal's, so the signal reaches the workers as well.       *)
(***************************************************************************)
EXTENDS WorkerPool

CONSTANTS
  shutdown,  \* main's call of Shutdown
  stop       \* main's call of Stop

\* The constants of the pool as main makes it.
MadeByMain ==
  /\ ShutdownCalls = {shutdown} /\ Bounded = {shutdown} /\ StopCalls = {stop}
  /\ Reading /\ ParentCancels
  /\ IsFiniteSet(Tasks)

VARIABLES
  signalled,  \* is the signal's context done?
  main        \* where main is

exVars == <<signalled, main>>
allVars == <<vars, exVars>>

ExInit == Init /\ signalled = FALSE /\ main = "waiting"

\* The jobs 1, 2, ... in the order produce() submits them.
Jobs == SetToSeq(Tasks)

\* produce: the next job, once the Submit before it has returned nil.
Produce ==
  /\ \E i \in DOMAIN Jobs :
       /\ SubmitBegins(Jobs[i])
       /\ \A j \in 1..(i - 1) : submit[Jobs[j]] = "nil"
  /\ UNCHANGED exVars

\* The Submit of produce shares the signal's context.
ProducerStep ==
  /\ \E t \in Tasks : SubmitStep(t) \/ (signalled /\ SubmitGivesUp(t))
  /\ UNCHANGED exVars

\* runJob: an error exactly if its context is done before its work is.
JobReturns(w) ==
  /\ TaskReturns(w)
  /\ outcome'[job[w]] = "err" => ctxDone
  /\ UNCHANGED exVars

PoolStep ==
  /\ \/ \E w \in Workers : WorkerStep(w)
     \/ ErrsClose \/ ReaderTakes
  /\ UNCHANGED exVars

\* A context that ends closes its own Done channel and then its children's.
Signal ==
  /\ ~signalled
  /\ signalled' = TRUE
  /\ UNCHANGED <<vars, main>>

SignalReachesPool ==
  /\ signalled /\ ParentCancel
  /\ UNCHANGED exVars

MainGoesTo(s) == main' = s /\ UNCHANGED signalled

\* Slip: a Shutdown that fails is not followed by Stop.
SlipMain ==
  \/ main = "waiting" /\ signalled /\ CallBegins(shutdown) /\ MainGoesTo("shutdown")
  \/ /\ \E c \in Calls : CallStep(c)
     /\ UNCHANGED exVars
  \/ /\ call[shutdown] \in {"returned", "expired"}
     /\ MainGoesTo("exited") /\ UNCHANGED vars

MainStep ==
  \/ main = "waiting" /\ signalled /\ CallBegins(shutdown) /\ MainGoesTo("shutdown")
  \/ call[shutdown] = "expired" /\ CallBegins(stop) /\ MainGoesTo("stop")
  \/ /\ \E c \in Calls : CallStep(c)
     /\ UNCHANGED exVars
  \/ /\ \E c \in Calls : call[c] = "returned"
     /\ MainGoesTo("exited") /\ UNCHANGED vars

\* The process is there until main returns or something panics.
Alive == ~Crashed /\ main # "exited"

ExNext ==
  /\ Alive
  /\ \/ Produce \/ ProducerStep
     \/ \E w \in Workers : JobReturns(w)
     \/ PoolStep \/ MainStep
     \/ Signal \/ SignalReachesPool

ExSpec == ExInit /\ [][ExNext]_allVars

\* Every goroutine that can run is run, a job's time.After fires, a context that
\* ends tells its children.  Nobody has to send a signal.
ExFairSpec ==
  /\ ExSpec
  /\ WF_allVars(Alive /\ (Produce \/ ProducerStep))
  /\ \A w \in Workers : WF_allVars(Alive /\ WorkerStep(w) /\ UNCHANGED exVars)
  /\ \A w \in Workers : WF_allVars(Alive /\ JobReturns(w))
  /\ WF_allVars(Alive /\ ErrsClose /\ UNCHANGED exVars)
  /\ WF_allVars(Alive /\ ReaderTakes /\ UNCHANGED exVars)
  /\ WF_allVars(Alive /\ MainStep)
  /\ WF_allVars(Alive /\ SignalReachesPool)

-----------------------------------------------------------------------------

\* main.go:44: "all workers exited cleanly".  Whichever way main comes to the end
\* of its Shutdown-then-Stop, no worker is left, none runs a job, and every job
\* that was accepted has ended or was still in the queue.
ExitsCleanly ==
  main = "exited"
    => /\ AllExited
       /\ \A t \in Accepted : Returned(t) \/ InQueue(t)

\* The program ends after a signal, whether or not jobs are in flight, the queue
\* is full or produce is in the middle of a Submit, unless it panics.
SignalEndsProgram == signalled ~> Crashed \/ main = "exited"
=============================================================================
