# WKB in TLA+

TLA+ specifications of the programs in this repository, the TLC models that
check them on small instances, and proofs of their main properties for the TLA+
proof system. Every definition is translated from the source; `PROJECT.json`
names the lines behind each (`map`), the runs, a plausible mistake of the code
for each property that the property would catch (`mutants`), the disagreements
between code and documentation (`findings`), what is hard to test and where
(`hazards`), and the theorems.

## 1. The system

Five programs share the repository; they call each other hardly at all.

| Part | State | Operations | Hard about it |
|---|---|---|---|
| Worker pool, `workerpool/pool.go` | two channels and their buffers, `closed`, a context, a WaitGroup, a Once | `New`, `Submit`, `Errors`, `Shutdown`, `Stop`, the worker loop | every operation races with every other; two ways to end; a parent context that may end by itself |
| Pool example, `workerpool/cmd/example/main.go` | where `main` is, the signal's context | `main`, `produce`, `runJob` | one context cancels the pool and starts its graceful end |
| Dispatch, `wkb.py` 535-866 | `outcomes`, the threads, the audit log and its lock, the result | a thread per provider, joins in order, verdict, judge, seal, exit | daemon threads die with the main thread; errors of many kinds at many points |
| Bridge, `wkb.py` 156-364 | none of its own: a directory of records | `bridge` to json, csv, restore, anything else | a walk over a graph nobody keeps acyclic, read while others write |
| Records, `wkb.py` 77-153, 367-524 | a directory of files, one per id | `seal`, `check`, `ls`, the codec | random ids, writes that are not atomic, a codec whose halves must fit |
| Telegram bot, `telegram_bot_demo/` | a node per user, the keyboards on screen, a log | `/start`, a tap, stray text, restart of the process | stale keyboards, edits that fail, updates delivered again |
| Analysis, `analyze.py`, and `simulate.py` | a log | `compute_funnel` | many sessions in one log |
| `scripts/usage_tracker.py`, `model_router.py` | totals, costs per route | `record`, `choose_model` | a failure in the middle of `record`, borders of the tiers |

`wkb.py dispatch` hands threads a closure that appends to the log under a lock;
a bridge reads what seals write, through the file system and with no lock; the
example is the pool's one caller; the analysis reads the log that the bot and the
simulator append to; a caller of `choose_model` gives `record` what its model has
used. There is no other interaction. `scripts/smoke.sh`, the unit tests and the CI workflow call
these programs and keep no state of them; the notebook of `cost_optimization/`
is a calculation on typed-in figures. None of these is modelled (section 6).

What makes each part correct, in short:

* **Pool.** An accepted task runs once or is still queued; nothing is accepted
  after the end has begun; a graceful end sees every accepted task return and
  every error delivered; every end returns, whoever reads errors or not.
* **Example.** A signal ends the program with no worker left.
* **Dispatch.** A verdict is about all providers; exit code 0 stands for what was
  asked being on disk; the first error in order is reported; the process ends.
* **Bridge.** A briefing has every ancestor once, oldest first, or says what is
  missing; and the walk ends.
* **Records.** What `seal` wrote passes `check`; no seal changes another's record.
* **Bot.** The log, replayed, is where the user is, and no line of it is out of
  order; a user who is to choose has buttons; every update is handled.
* **Analysis.** Visits to a node are those that went on and those dropped there, and
  the dropped are the users the bot has there.
* **Tracker.** The totals are those of the calls that returned; a routed call had the
  cheapest model that is up to its task.

## 2. Modules

| Module | What it is |
|---|---|
| `WorkerPool` | `pool.go`, one action per channel operation or atomic region |
| `PoolContract` | what a pool promises: order, slots, one start per task, an end |
| `PoolImplements` | the refinement mapping from the first to the second |
| `PoolExample` | `main.go` composed with the pool |
| `Dispatch` | `dispatch()` and `cmd_dispatch()` with their threads |
| `Lineage` | `bridge --target restore` while records are sealed |
| `Bridge` | `bridge` with every target, `Lineage` being one of them |
| `Records` | `seal`, `check` and `ls` on one directory, with the codec |
| `DecisionTree` | `engine.py`, and the messages that show its nodes |
| `TreeBot` | `bot.py` with its users, Telegram's queue of updates, and `steplog.py` |
| `Simulator` | `simulate.py`, any number of sessions |
| `Funnel` | `compute_funnel` of `analyze.py` |
| `BotAnalysis` | the bot and the simulator beside each other, and the funnel of their log |
| `UsageTracker` | `usage_tracker.py`, `model_router.py`, and a caller of both |
| `MC...` | trees, bodies, prices and symmetry sets for the runs |
| `SumLemmas` | what holds of the sums that `UsageTracker` and `Funnel` are stated with |
| `..._proofs` | theorems and proofs: `WorkerPool_proofs` (with `PoolImplements` and `PoolExample`), `Dispatch_proofs`, `Lineage_proofs` (with `Bridge`), `Records_proofs`, `TreeBot_proofs`, `BotAnalysis_proofs` (with `Simulator` and `Funnel`), `UsageTracker_proofs` |

Definitions named `Slip...` are no part of a specification: each is a mistake
that a change of the code could make in the definition that follows it, and
`mutants` says which property notices.

### WorkerPool

A `select` is a control state with an action for each of its cases, any of which
that is ready may be taken: that is Go's random choice, and the scheduler's.
`submit[t]` is where the `Submit` of task `t` is, `worker[w]` and `job[w]` what
worker `w` does, `call[c]` where a `Shutdown` or `Stop` is. `close(p.closed)` and
`close(p.tasks)` are two steps, between which other goroutines run. A send on an
unbuffered channel, or to a receiver that waits, is one step of both sides
(`SubmitHandsOff`, `WorkerHandsOver`). A panic ends the process (`Crashed`). The
caller's context of a `Submit` may end at any time (`SubmitGivesUp`), that of a
`Shutdown` only if it is in `Bounded`. `interrupted` is a history variable: the
context ended while a worker was there, so that errors may be dropped and queued
tasks left.

`PoolExample` conjoins its own control state to that: `produce` is the one
goroutine that submits, one job after another; the signal's context is done
before it is the pool's (`Signal`, `SignalReachesPool`); `runJob` fails only if
its context is done. `MadeByMain` says what `main` gives the pool for its constants.

### PoolContract and PoolImplements

The contract knows no channel: accepted tasks wait in `pending`, at most `Slots`
run, `Seal` stops acceptance, `Cut` is the end of the context, and `End` is what
a returned `Shutdown` or `Stop` tells its caller: nothing runs, and nothing is
pending unless the context was cut. Under the mapping the buffer of `p.tasks` is
`pending` and the jobs of workers in `task(p.ctx)` are `running`.

### Dispatch

A provider's answer stands for its text and its sha. `thread[p]` follows
`_worker`: a run ends in an answer, a WkbError (timeout, exit code, empty output)
or something else, which no clause of `_worker` catches; then come the lock, the
append and its possible failure. `outcomes[p]` is set before the log line is
written, and the main thread joins in declaration order. `audit` is the log's
lines of this process. The command line is chosen in `Init`. The interpreter's
exit takes the daemon threads with it: no thread step after `exited`.

### Lineage

One state variable per local of the recursion: `stack` is Python's stack of
calls of `_resolve_parent_chain`, `visited` the set they share. The lists that
each call returns are extended into the caller's as it returns, so that together
they are one list each, `chain` and `missing`, to which steps append. Files change
under the walk (`SealStep`), as `write_text` is not atomic. `Limit` is the
recursion limit.

`Bridge` adds the target, and what a record holds as far as targets tell it apart:
the core fields, the parents, the two fields a seal may add to them, the body. A
target's `output` is its status, its `dropped_fields` and what is in the payload
whole. A bridge to restore takes the steps of `Lineage`, and no others.

### Records

A text is a sequence of tokens, of which the codec tells apart `---`, an end of
line, a carriage return, the `sha:` line and the rest. `cmd_seal` hashes and writes the
body as it was given; whoever reads it has its ends of line converted by `read_text()`
(`ReadText`: a carriage return, with the line feed after it if there is one, is read as
one line feed), so that a `--body` with a carriage return has another sha when it is
read. A body from a file or from stdin has been converted before it is hashed. `seal[s]`'s steps are `pc[s]`: it opens (and
empties) the file of the id it has drawn, writes it in any number of parts, which
may end within a character, and may be killed between any two. Writes go to their
place in the file, so two seals on one id overlay each other. `Passes` is what
`check` decides about such a file, and by what `ls` flags it and `bridge` refuses
it. A `ls` lists the directory first and reads file by file.

### TreeBot, Simulator, Funnel and BotAnalysis

A tree is a function from nodes to the nodes its options lead to. A handler is cut
at its awaits: `StartBegins`, `TextBegins` and `TapBegins` go up to the first call
to Telegram, `TapStale`, `TapBad` and `TapChooses` from the answer of the callback
query to the edit, `Replied` and `Edited` from there to the end; updates are
handled one at a time, as the application is built with no concurrent ones. Any
call may raise, with its effect made or not (`CallFails`).

Users are the environment: they write, and tap any button of any message the bot
has sent them, however old (`screen`). `server` holds the updates that Telegram
would deliver again, of which the bot has got the first `fetched`; a poll confirms
those and brings the rest. `Crash` loses `USER_STATE`, what was fetched, and the
handler that ran; `Boots` loads the tree again, which may have changed. `failed` and
`hasty` are history: for whom a call failed, and of whom two taps of one message were
to be handled, the second made before the first was done with or both delivered again
after a crash.

A simulated session is a process with a log and a tree of its own; the analysis
reads one log, of all of them, at any moment, as `compute_funnel` keeps nothing
between runs. `Session` is its loop over the events of a user.

### UsageTracker

`Records` and `Raises` are the two ends of `record`; the price is looked for before
anything is added. A caller either routes (`choose_model`, a call to the service,
`record` with the id the service reports, one of `Ran`) or names a model itself.
`ledger` is history: the calls that returned. Costs are whole numbers, in a unit
that makes the multipliers of the cache whole. Scores are tenths, from below the scale
to above it, and NaN, with which no comparison holds (`Below`, `AtMost`).

## 3. Runs

Bounds are in the `.cfg` files. Deadlock is not reported: all of these programs
come to an end.

| Run | Bounds | Question |
|---|---|---|
| `pool_safety` | see the cfg: several tasks, two workers, Shutdowns and a Stop racing | types, `TaskAccounting`, `ErrorAccounting`, `ShutdownDrains`, `RangeSeesAll`, `NoLateAccept`; does the pool implement `PoolContract`? |
| `pool_live` | two tasks, one worker, a queue of one, a Shutdown with a deadline, one without, a Stop, a parent context that ends | do Stop and a bounded Shutdown return and release every goroutine though nobody read errors and tasks end only with their context? With tasks that end and errors that are read, do Shutdown(Background()), accepted tasks and Submits come to an end? |
| `example_exit` | four jobs, two workers, a queue of one | does the example end after a signal, cleanly? |
| `dispatch_core` | three providers, two answers, all command lines, any failure, runs that never end | do verdict, triage, exit code, log and record fit together? Does the process end if runs do, and does an error wait for later providers? |
| `records_core` | two seals, two ids, three headers (plain, with `---` before the sha, after it), four bodies (empty, a line, that line and one more, a line with a carriage return), a listing; at most one of the two headers has a `---` (`OneRuled`) | does exactly what is whole and plain pass the check, wherever writers are, and does a listing show it? |
| `bridge_core` | all graphs on three records with at most two parents each (the same one twice included), all states of the files, Limit 3; for the other targets one record of each shape | is a briefing complete, without additions and oldest first? Does the walk end, and never overflow because of a cycle? |
| `bot_core` | one user, three updates, four trees (one with a way back to the root, one that has lost an option, one that is a leaf, one that does not load), one crash or failed call, one simulated session of one answer | does what the bot remembers agree with the log, is every line in order, does a user who is to choose have buttons, is a leaf logged, is every update handled, and what does the funnel count? |
| `meter_core` | two calls, two routes, four ids of which one has no price, two usages, all kinds of tasks, every tenth from -0.1 to 1.1 and NaN | do the totals hold what returned and nothing else, and was the cheapest model that is up to it picked for each task? |

Two workers and a third task are what it takes for one task to run, one to wait
and one to be refused; two ending calls of one kind and one of the other are what
it takes for closeOnce to be contended and for Stop to overtake Shutdown. Three
providers have one before and one after the one that fails. Three records have
self-loops, two-cycles, cycles through the record itself, shared ancestors, and
three-cycles. Two seals may be apart or collide; headers and bodies are one of each
kind that the codec tells apart, and one body is the beginning of another, so that two
seals on one id may make up a record between them. What a `---` in a header does is
said of one seal at a time, so that one of the two having it is enough (`OneRuled`); with
both, the run takes longer than it is worth, and the theorems have no such bound. Three updates are a start and two taps, which reach
a leaf, go back to the root, or are a double tap; or two starts and a tap on the
keyboard of the first; or a start, a text and a tap. Users share nothing but the
order in which they are handled, so one is enough for what is said of each; with a
simulated session beside the user the funnel has two to add up. (Two users, and four
updates with two of the trees, were run once for the invariants and took too long to
be kept.) Two calls of
`record` may share a route or not, and either may raise. A queue and
an error buffer of more places repeat what one or two do, and the theorems below do
not depend on any bound.

The other four runs each show a disagreement between the code and what the
repository says of it, by a behaviour that violates the statement:

| Run | What TLC shows |
|---|---|
| `pool_panic` | `Submit` polls `p.closed`, the pool is closed, `Submit`'s second select evaluates the send on the closed channel: a panic instead of `ErrPoolClosed` |
| `dispatch_audit` | the process exits with another provider's error before an attempt that has resolved is in the log |
| `records_fresh` | an empty body, a `---` in a topic, or a carriage return in `--body`: the record fails the check that follows its own seal (the trace is of one of them, the finding names all) |
| `bridge_lossy` | a record with a `source` or `raw` goes to json without it, as a SUCCESS that drops nothing |

## 4. Fairness

* Pool: weak fairness of each goroutine that has been started (`Scheduled`), as the
  Go scheduler runs all that can run; a select that can proceed does. Nothing makes
  a caller call or read, a context end, or a task return. A property that needs more
  says so: `Cooperative` tasks return once their context is done, which is what
  `Stop` asks of them; `Terminating` tasks return, and a caller `Reads`, which is
  what a graceful end asks.
* Example: `runJob` returns, since `time.After` fires; no signal need come.
* Dispatch: the main thread moves, and so does each thread that has an outcome.
  That a run ends, because of PROVIDER_TIMEOUT_SECONDS, is the hypothesis `RunsEnd`
  of `DispatchEnds`, and not assumed for `ErrorSurfaces`.
* Bridge: the command itself; no seal need go on.
* Bot: the poll, the start of a handler, and its next step, as `run_polling` goes on
  for as long as the process runs and every call to Telegram comes back or raises.
  No user need do anything, and nobody need start the bot again after a crash, so
  `SettlesAtLast` speaks of a bot that runs. The simulator needs none.

## 5. What is proved

Every invariant and every action property that a passing run checks, and the
refinement of `PoolContract`, is a theorem for every value of the constants that
satisfies the `ASSUME`s (finitely many workers, at least one; at least one provider;
finitely many ids, users and sessions; model values that are not tasks or answers;
trees whose options lead to nodes; prices that do not fall from tier to tier). The example's theorems have `MadeByMain` as their
hypothesis, which is what `main` does, and `example_exit` evaluates it.

* `WorkerPool_proofs`: `TypeOK`, `TaskAccounting`, `ErrorAccounting`,
  `ShutdownDrains`, `RangeSeesAll`, `NoLateAccept`. The inductive invariant,
  `PoolInvariant`, adds to the accountings what ties the ends together: who has
  passed closeOnce finds both channels closed; the context is done without an
  interruption only after all workers left; a worker leaves an uninterrupted pool
  only when `p.tasks` is closed and drained, from where nothing is queued again.
  None of the properties is inductive by itself: that an error is delivered
  depends on workers not leaving early, which depends on the queue.
  Then the refinement: every step of the pool is a step of the contract or none under
  the mapping. The accounting above is what makes the mapped `running` a set whose
  size is the number of busy workers, hence at most `Slots`. Then the example: each of
  its steps is one of the pool or leaves it alone (`ExampleUsesPool`), so that all of
  the above holds of it; and `ExitsCleanly`, as `main` comes to its end only after a
  call that has returned (`ReturnedFirst`).
* `Dispatch_proofs`: `TypeOK`, `DenyBlocksBatch`, `VerdictIsWhole`,
  `SuccessIsAudited`, `FirstErrorReported`, from
  `DispatchInvariant`: what a thread's state says of its outcome and its line
  (`ThreadsInv`), what has been started and joined (`StartInv`, `JoinInv`), and
  from which point there is a verdict, a triage and an exit code (`VerdictInv`,
  `JudgeInv`, `EndInv`). A step of a thread changes nothing the main thread has
  built on because what it has joined has finished (`ThreadFrame`).

* `Lineage_proofs`: `TypeOK`, `NothingLost`, `NothingAdded`, `OldestFirst`, and
  that no cycle makes the walk overflow when the stack has room for more calls than
  there are ids (`NoCycleOverflows`, by the pigeonhole principle over the calls).
  `WalkInvariant` says where everything the walk has met is: in the chain, missing,
  or on the stack, and in one place only (`OnceInv`); each call has met the parents
  that are no longer to come (`CallsOK`), so that a record has all of its parents
  met when its call returns (`ClosedInv`); what is found was led to by a call that
  is running or by a record that comes later (`LedInv`). The order needs one thing
  more: for any numbering that decreases from record to parent, the numbers
  decrease along the stack (`AgeInv`), so that a parent of the call that returns
  cannot be one that is still running.
  Of the bridge: that a bridge to restore is a behaviour of
  `Lineage` (`RestoreIsTheWalk`), so that the theorems about the walk hold of the
  command, as no other target has a briefing (`BridgeKeepsLineage`).
  Of `RestoreEnds`, all that is not fairness: `Work` counts the records the walk has not
  met, each with the parents it can have, and what the running calls have to come.
  Every step of the walk lowers it or ends the command, and no seal raises it
  (`WalkComesToItsEnd`), so that a walk takes no more than `WorkAtFirst` steps however
  the parents run in circles.
* `TreeBot_proofs`: `TypeOK`, of which the part that matters is that the node of a
  user is always one of the tree that is loaded, so that `get_node` finds it;
  `StateIsLogged`; `StepsFollow`; `LeafIsLogged`. The state is written after the log
  in one handler and before it in another, and forgotten by a crash; the invariant
  says of every user, and of the handler that runs, what the last moves in the log
  are (`LogInv`), and for the leaf that the handler about to show one has logged the
  choice that led to it. `Where` is the last of a set of lines, whence the use of
  well-founded induction for its existence.
  `NudgeHasButtons` needs the most: a message that a handler may yet write over is no
  help, so the invariant (`ButtonsInv`) is that a user who is to choose has a message
  with the buttons that nothing to come will take away, or a handler about to show one.
  That a tap to come takes nothing away rests on what it carries (`Agrees`: a tap of the
  message is of the node the user is at, so that the handler acts on it and shows the
  next), and that there is not a second one on where all the updates are (`Coming`,
  in which `OneTap` finds no message twice, but of users in `hasty`).
* `SumLemmas`: `SumFunctionOnSet` is a recursion over subsets. That it has a solution,
  and one only, that the sum does not depend on the order the members are taken in, and
  is a natural number, that one more summand adds itself, that sums add up, and that
  a sum of zeros and ones is a cardinality, are each proved from the smallest subset
  for which they fail, which well-foundedness of the subset order gives
  (`SmallestSubset`).
* `UsageTracker_proofs`: `TypeOK`; `RoutesToCheapest` for any prices that do not
  fall from tier to tier, by what `choose_model` was asked for each entry of the ledger
  (`AskedAsChosen`) and what the same usage costs with each model (`CostMonotone`,
  `TiersRise`); and `TracksWhatReturned`, by what one more entry of the ledger
  adds to each of the sums.
* `BotAnalysis_proofs`: `FunnelBalances` and `FunnelShowsUsers`, for any number of users,
  trees and simulated sessions. `Session` is a fold; `SessionAppend` says that one more
  line is read after those before it, from the recursion the fold is (`ReadsExist`,
  `ReadsUnique`, by the shortest log for which they fail). From that, by the shortest
  log again, the last visit of a session is where `Where` has its log (`SessionSays`),
  visits split into those before the last and the last (`TimesSplit`), and each log
  balances (`SessionBalances`), so that their sums do. Who is where needs the simulator's
  invariant (`SimInv`) and, for the bot, `EndsWithUsers`: while nothing goes wrong a
  session in the log is at its end exactly if its user is at a leaf that the message
  shows, the root excepted.
* `Records_proofs`: `TypeOK`, `PassesIfPlain`, `UnfinishedFails`,
  `ListsWhatIsSealed`, for any bodies and any number of seals. First what the codec
  returns of a text that begins as a record does (`CodecOf`, `LStripOf`), what
  `read_text()` makes of one with carriage returns (`ReadOf`), which is never the text it
  was made of (`CrFails`), and from that which whole records pass (`WholePasses`) and
  that no cut one does (`PartFails`). The invariant `IInv` says that the file of a seal that is alone with
  its id holds the first `at` tokens of its text and perhaps one that is cut
  (`Content`), which depends on no file being there before a seal drew its id
  (`Files`), and on ids never being given back (`AloneBefore`). `LInv` carries what a
  listing has said of a file past all that is sealed later.

Two of these proofs found the model wrong before they found the property to hold.
`NudgeHasButtons` had excepted only the user who taps a message again before the first
tap is handled; the proof failed at a crash, and TLC then showed, with four updates and
a tree changed across the crash, two taps that had been handled well delivered again,
the second of which takes the keyboard away (`TappedTwice`). `FunnelShowsUsers` had
excepted users at a leaf; the proof failed at a root that is one, of which the run had
no tree: `/start` logs no end there, so that its users do count as dropped. The run has
the tree now (`Bare`).

Only model-checked: the liveness properties (`EndReleasesPool`, `ShutdownReturnsAtLast`,
`AcceptedReturns`, `SubmitReturnsAtLast`, `SignalEndsProgram`, `DispatchEnds`,
`ErrorSurfaces`, `RestoreEnds`, `SettlesAtLast`), as fairness and ENABLED are beyond the
prover; what of `RestoreEnds` can be proved is above. The runs that show a disagreement prove themselves by their counterexample.

## 6. What is left out

**Not modelled.** The notebook of `cost_optimization/` computes tables and charts from
figures typed into it: its cells run once, in order, nothing fails or interleaves,
and no program reads what it shows. `scripts/smoke.sh`, the unit tests and the CI
workflow drive the programs from outside; what they expect is quoted where a run
contradicts it. Everything else that keeps a state is modelled.

**Abstracted.** The text of messages and prompts, timestamps, durations, the parsing
of options and of the lines of logs; the wording of CSV and JSON; memory exhaustion;
operating-system threads that do not start; the rounding of floats. Two processes
that append to one audit log or one step log are taken to write whole lines. Simulated
sessions are taken to have ids of their own, among them and with the users of the bot:
simulate.py:65 gives 1 to each that is not told, and two such sessions would be one user
to the funnel, of whom `FunnelShowsUsers` is not checked.
`/restart` is left out, as it does what `/start` does; so are edited messages, in
which `start` finds no `update.message` and raises before it has done anything.

**Disagreements without a run of their own.**

* After `Stop` has cancelled, a worker's select may still take a queued task
  (`WorkerTakes` with `ctxDone`), though pool.go:173-175 has them discarded; after the
  parent context has ended, `Submit` may return nil for a task in the buffer
  (`SubmitEnqueues` with `ctxDone`).
* The example makes its pool with the signal's own context, so that the signal
  interrupts the jobs at once, while main.go:2-3 lets them finish until a timeout.
* Output of a provider that does not decode leaves `_worker` by no clause of it, and
  `dispatch` ends in a KeyError with exit code 1 (`JoinsNothing`), while smoke.sh:91
  has a failing provider not crash it; the same of the judge's output loses a verdict
  that was there (`JudgeRaises`).
* A second seal that draws the id of a first replaces its record (`Opens`), though
  wkb.py:26 calls it the record's own identifier; while both write, the file may pass
  the check as the record of one of them before either has reported it sealed, which
  `ListsWhatIsSealed` allows for.
* Where the status is DEGRADED, `dropped_fields` is not whole either: csv leaves `source`
  and `raw` out of it (`Csv`), the generic fallback the body (`Fallback`), while
  wkb.py:159 has it carry the reasons.
* `bridge` checks the sha of the record itself, never that of an ancestor, whose body
  goes into a briefing marked SUCCESS whatever has become of it (`Descends` takes a
  `torn` file like a `whole` one), though wkb.py:34 has the sha "checked by
  `check`/`bridge`", and wkb.py:329 refuses "to bridge an unverified record".
* A `dispatch --seal` whose topic has a carriage return seals a record that fails its
  check, like a `--body` that has one (`records_fresh`): the topic goes into the body as
  it is (wkb.py:826).
* A second tap on a message, before the first was handled, replaces the keyboard of
  the step that the first has led to: the user is at a node whose buttons are gone,
  and is told by `handle_stray_text` to choose one above (bot.py:69-74, 98-100). So may
  two taps that were handled one after the other, when a crash has both delivered again.
  `NudgeHasButtons` has them as the exception `hasty`.
* A leaf whose edit failed is never logged as complete, though bot.py:10-12 has every
  step logged and the user may have seen it; `LeafIsLogged` has it as `failed`. A root
  that is a leaf is logged as complete by the simulator, not by the bot.
* `analyze.py` counts each user's last session, though analyze.py:3 speaks of how many
  sessions reached a node; a user counts twice at a node that was visited twice.
* simulate.py:48: "²" is a digit for `isdigit()` and none for `int()` (`SimDies`).
* The service reports the pinned id of `claude-haiku-4-5`, for which `record` raises,
  though model_router.py:4-5 says that it prices whatever model ran; the caller of
  `Routed` meets it as the id in `Ran` that has no price.

## 7. What could come next

A second user in `bot_core` with smaller trees; two dispatches that append to one audit
log; measures that decrease, as `Work` does, behind the rest of the liveness that is
only model-checked, first of all the dispatcher's and the drain of the pool.
