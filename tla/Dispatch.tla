------------------------------ MODULE Dispatch ------------------------------
(***************************************************************************)
(* `wkb.py dispatch`: every provider is asked in a daemon thread of its own, *)
(* the answers are joined in declaration order, a verdict says whether they *)
(* agree, a judge may be asked when they do not, and each attempt is a line *)
(* of the audit log, written by the thread that made it.  The process ends  *)
(* with main(), whatever its threads are doing.                             *)
(*                                                                         *)
(* An answer stands for itself and for its sha.  A run that takes longer    *)
(* than PROVIDER_TIMEOUT_SECONDS is one of those that end in a WkbError.    *)
(*                                                                         *)
(* A definition named Slip... is a mistake a change of wkb.py could make, in *)
(* the place of the definition after it.                                    *)
(***************************************************************************)
EXTENDS Naturals, FiniteSets, SequencesExt

CONSTANTS
  N,         \* how many providers, numbered as the dict `providers` lists them
  Texts,     \* the answers a provider can give
  RunsRaise, \* can a run end in an exception that is no WkbError?
  DiskFails, \* can an append to the log, or the write of the record, fail?
  WkbError,  \* what `outcomes` holds for a provider that failed
  Absent     \* what it holds for none

Providers == 1..N

\* What the command line says: whose command a --deny-pattern matches, whether
\* there is a --judge, whether there is a --seal, whether --parent is absent or
\* an id.
Args == [denied : SUBSET Providers, judge : BOOLEAN, seal : BOOLEAN, parentValid : BOOLEAN]

\* The name under which the judge's attempt is logged, and a lock that is free.
JudgeName == 0
Nobody == 0

ASSUME DispatchAssumption ==
  /\ N \in Nat \ {0}
  /\ RunsRaise \in BOOLEAN /\ DiskFails \in BOOLEAN
  /\ WkbError \notin Texts /\ Absent \notin Texts /\ Absent # WkbError

VARIABLES
  args,       \* the command line
  thread,     \* per provider, where its thread is in _worker()
  outcomes,   \* per provider, its answer, WkbError or Absent
  holder,     \* who holds audit_lock, or Nobody
  audit,      \* the lines of dispatch_audit.jsonl: who, and with which outcome
  main,       \* where the main thread is
  next,       \* the provider it starts or joins next
  positions,  \* the answers joined so far
  verdict,    \* AGREE, DISAGREE or "none"
  triage,     \* what became of the judge
  routed,     \* triage_verdict
  sealed,     \* is the record written?
  code        \* the exit code

threadVars == <<thread, outcomes, holder>>
resultVars == <<positions, verdict, triage, routed, sealed>>
vars == <<args, threadVars, audit, main, next, resultVars, code>>

ThreadStates == {"unborn", "running", "resolved", "writing", "done", "dead"}
MainStates == {"validating", "starting", "joining", "judging", "logging", "reporting",
               "ending", "exited"}

TypeOK ==
  /\ args \in Args
  /\ thread \in [Providers -> ThreadStates]
  /\ outcomes \in [Providers -> Texts \cup {WkbError, Absent}]
  /\ holder \in Providers \cup {Nobody}
  /\ audit \subseteq (Providers \cup {JudgeName}) \X {"success", "error"}
  /\ main \in MainStates
  /\ next \in 1..(N + 1) /\ (main \in {"validating", "starting"} => next \in Providers)
  /\ positions \in Seq(Texts)
  /\ verdict \in {"none", "AGREE", "DISAGREE"}
  /\ triage \in {"none", "text", "error"}
  /\ routed \in {"none", "provider", "UNRESOLVED"}
  /\ sealed \in BOOLEAN
  /\ code \in {0, 1, 2}

Init ==
  /\ args \in Args
  /\ thread = [p \in Providers |-> "unborn"]
  /\ outcomes = [p \in Providers |-> Absent]
  /\ holder = Nobody /\ audit = {}
  /\ main = "validating" /\ next = 1
  /\ positions = <<>> /\ verdict = "none"
  /\ triage = "none" /\ routed = "none" /\ sealed = FALSE
  /\ code = 0

\* main() is about to return c, or a traceback is (1).
Ends(c) == main' = "ending" /\ code' = c

Outcome(p) == IF outcomes[p] = WkbError THEN "error" ELSE "success"

-----------------------------------------------------------------------------
(* _worker, one thread per provider *)

GoesTo(p, s) == thread' = [thread EXCEPT ![p] = s]

\* _run_provider returns a position, ...
Answers(p) ==
  /\ thread[p] = "running"
  /\ \E x \in Texts : outcomes' = [outcomes EXCEPT ![p] = x]
  /\ GoesTo(p, "resolved")
  /\ UNCHANGED <<args, holder, audit, main, next, resultVars, code>>

\* ... raises WkbError (a timeout, an exit code, an empty output), ...
Fails(p) ==
  /\ thread[p] = "running"
  /\ outcomes' = [outcomes EXCEPT ![p] = WkbError]
  /\ GoesTo(p, "resolved")
  /\ UNCHANGED <<args, holder, audit, main, next, resultVars, code>>

\* ... or something else (an output that does not decode), which no clause of
\* _worker catches.
Raises(p) ==
  /\ RunsRaise /\ thread[p] = "running"
  /\ GoesTo(p, "dead")
  /\ UNCHANGED <<args, outcomes, holder, audit, main, next, resultVars, code>>

\* _log_attempt, under audit_lock.
Locks(p) ==
  /\ thread[p] = "resolved" /\ holder = Nobody
  /\ holder' = p
  /\ GoesTo(p, "writing")
  /\ UNCHANGED <<args, outcomes, audit, main, next, resultVars, code>>

Writes(p) ==
  /\ thread[p] = "writing"
  /\ audit' = audit \cup {<<p, Outcome(p)>>}
  /\ holder' = Nobody
  /\ GoesTo(p, "done")
  /\ UNCHANGED <<args, outcomes, main, next, resultVars, code>>

\* Slip: acquire() and release() for the `with`, and no finally.
SlipWriteFails(p) ==
  /\ DiskFails /\ thread[p] = "writing"
  /\ GoesTo(p, "dead")
  /\ UNCHANGED <<args, outcomes, holder, audit, main, next, resultVars, code>>

WriteFails(p) ==
  /\ DiskFails /\ thread[p] = "writing"
  /\ holder' = Nobody
  /\ GoesTo(p, "dead")
  /\ UNCHANGED <<args, outcomes, audit, main, next, resultVars, code>>

RunEnds(p) == Answers(p) \/ Fails(p) \/ Raises(p)
Logs(p) == Locks(p) \/ Writes(p) \/ WriteFails(p)

Finished(p) == thread[p] \in {"done", "dead"}

-----------------------------------------------------------------------------
(* dispatch() and cmd_dispatch(), the main thread *)

\* validate_provider is asked about every provider before anything is started.
Rejects ==
  /\ main = "validating" /\ args.denied # {}
  /\ Ends(2)
  /\ UNCHANGED <<args, threadVars, audit, next, resultVars>>

\* Slip: each provider is validated as it is started.
SlipValidates ==
  /\ main = "validating"
  /\ main' = "starting"
  /\ UNCHANGED <<args, threadVars, audit, next, resultVars, code>>

Validates ==
  /\ main = "validating" /\ args.denied = {}
  /\ main' = "starting"
  /\ UNCHANGED <<args, threadVars, audit, next, resultVars, code>>

Starts ==
  /\ main = "starting"
  /\ GoesTo(next, "running")
  /\ IF next = N THEN main' = "joining" /\ next' = 1
                 ELSE main' = main /\ next' = next + 1
  /\ UNCHANGED <<args, outcomes, holder, audit, resultVars, code>>

\* Slip: the outcome is there, so the thread is taken to be finished.
SlipJoinsAnswer ==
  /\ main = "joining" /\ next <= N
  /\ outcomes[next] \in Texts
  /\ positions' = Append(positions, outcomes[next])
  /\ next' = next + 1
  /\ UNCHANGED <<args, threadVars, audit, main, verdict, triage, routed, sealed, code>>

\* t.join() and outcomes[name], in the order of the dict.
JoinsAnswer ==
  /\ main = "joining" /\ next <= N
  /\ Finished(next) /\ outcomes[next] \in Texts
  /\ positions' = Append(positions, outcomes[next])
  /\ next' = next + 1
  /\ UNCHANGED <<args, threadVars, audit, main, verdict, triage, routed, sealed, code>>

\* Slip: whichever failed thread has finished is reported first.
SlipJoinsError ==
  /\ main = "joining"
  /\ \E p \in next..N :
       /\ Finished(p) /\ outcomes[p] = WkbError
       /\ next' = p
  /\ Ends(2)
  /\ UNCHANGED <<args, threadVars, audit, resultVars>>

\* Slip: every thread is joined before the outcomes are looked at.
SlipJoinsLate ==
  /\ main = "joining" /\ next <= N
  /\ \A p \in Providers : Finished(p)
  /\ outcomes[next] = WkbError
  /\ Ends(2)
  /\ UNCHANGED <<args, threadVars, audit, next, resultVars>>

JoinsError ==
  /\ main = "joining" /\ next <= N
  /\ Finished(next) /\ outcomes[next] = WkbError
  /\ Ends(2)
  /\ UNCHANGED <<args, threadVars, audit, next, resultVars>>

\* A KeyError: nothing was stored for the provider whose thread died.
JoinsNothing ==
  /\ main = "joining" /\ next <= N
  /\ Finished(next) /\ outcomes[next] = Absent
  /\ Ends(1)
  /\ UNCHANGED <<args, threadVars, audit, next, resultVars>>

\* Slip: the last answer is compared with the first.
SlipConcludes ==
  /\ main = "joining" /\ next = N + 1
  /\ verdict' = IF positions[1] = positions[N] THEN "AGREE" ELSE "DISAGREE"
  /\ main' = IF verdict' = "DISAGREE" /\ args.judge THEN "judging" ELSE "reporting"
  /\ UNCHANGED <<args, threadVars, audit, next, positions, triage, routed, sealed, code>>

Concludes ==
  /\ main = "joining" /\ next = N + 1
  /\ verdict' = IF Cardinality(ToSet(positions)) = 1 THEN "AGREE" ELSE "DISAGREE"
  /\ main' = IF verdict' = "DISAGREE" /\ args.judge THEN "judging" ELSE "reporting"
  /\ UNCHANGED <<args, threadVars, audit, next, positions, triage, routed, sealed, code>>

\* Slip: any name will do.
SlipParseTriage(name, confidence) ==
  IF name # "missing" /\ confidence = "in range" THEN name ELSE "none"

\* _parse_triage: the name on the judge's VERDICT line and the number on its
\* CONFIDENCE line, each of which may be missing or wrong.
ParseTriage(name, confidence) ==
  IF name \in {"provider", "UNRESOLVED"} /\ confidence = "in range" THEN name ELSE "none"

JudgeAnswers ==
  /\ main = "judging"
  /\ \E name \in {"provider", "UNRESOLVED", "unknown", "missing"},
        confidence \in {"in range", "out of range", "no float", "missing"} :
       routed' = ParseTriage(name, confidence)
  /\ triage' = "text"
  /\ main' = "logging"
  /\ UNCHANGED <<args, threadVars, audit, next, positions, verdict, sealed, code>>

JudgeFails ==
  /\ main = "judging"
  /\ triage' = "error"
  /\ main' = "logging"
  /\ UNCHANGED <<args, threadVars, audit, next, positions, verdict, routed, sealed, code>>

JudgeRaises ==
  /\ RunsRaise /\ main = "judging"
  /\ Ends(1)
  /\ UNCHANGED <<args, threadVars, audit, next, resultVars>>

\* The judge's attempt is logged by the main thread.
JudgeLogged ==
  /\ main = "logging" /\ holder = Nobody
  /\ audit' = audit \cup {<<JudgeName, IF triage = "text" THEN "success" ELSE "error">>}
  /\ main' = "reporting"
  /\ UNCHANGED <<args, threadVars, next, resultVars, code>>

JudgeLogFails ==
  /\ DiskFails /\ main = "logging" /\ holder = Nobody
  /\ Ends(1)
  /\ UNCHANGED <<args, threadVars, audit, next, resultVars>>

\* The result is printed, and sealed if asked; --parent is looked at only now.
Reports ==
  /\ main = "reporting"
  /\ args.seal => args.parentValid
  /\ sealed' = args.seal
  /\ Ends(0)
  /\ UNCHANGED <<args, threadVars, audit, next, positions, verdict, triage, routed>>

ReportFails ==
  /\ main = "reporting" /\ args.seal
  /\ \/ ~args.parentValid /\ Ends(2)
     \/ args.parentValid /\ DiskFails /\ Ends(1)
  /\ UNCHANGED <<args, threadVars, audit, next, resultVars>>

\* The interpreter goes, and the daemon threads with it.
Exits ==
  /\ main = "ending"
  /\ main' = "exited"
  /\ UNCHANGED <<args, threadVars, audit, next, resultVars, code>>

MainStep ==
  \/ Rejects \/ Validates \/ Starts
  \/ JoinsAnswer \/ JoinsError \/ JoinsNothing \/ Concludes
  \/ JudgeAnswers \/ JudgeFails \/ JudgeRaises \/ JudgeLogged \/ JudgeLogFails
  \/ Reports \/ ReportFails \/ Exits

ThreadStep(p) == main # "exited" /\ (RunEnds(p) \/ Logs(p))

Next == MainStep \/ \E p \in Providers : ThreadStep(p)

Spec == Init /\ [][Next]_vars

\* The main thread moves, and each thread that has an outcome; a run need not end.
FairSpec ==
  /\ Spec /\ WF_vars(MainStep)
  /\ \A p \in Providers : WF_vars(main # "exited" /\ Logs(p))

\* A run ends: PROVIDER_TIMEOUT_SECONDS sees to that.
RunsEnd == \A p \in Providers : WF_vars(main # "exited" /\ RunEnds(p))

-----------------------------------------------------------------------------

\* wkb.py:654-658: one denied command blocks the whole batch, and what it blocks
\* has not run: no thread of any provider is started.
DenyBlocksBatch == args.denied # {} => \A p \in Providers : thread[p] = "unborn"

\* wkb.py:665-666, 713-720, smoke.sh:142-143: a verdict is about every provider, each
\* in its place and none still at work, and says AGREE exactly if all gave the same
\* answer; the judge is asked for no other, and what it is heard to say routes to one.
VerdictIsWhole ==
  /\ verdict # "none"
       => /\ positions = outcomes
          /\ \A p \in Providers : Finished(p) /\ outcomes[p] \in Texts
          /\ verdict = "AGREE" <=> \A p, q \in Providers : outcomes[p] = outcomes[q]
  /\ main = "judging" \/ triage # "none"
       => verdict = "DISAGREE" /\ (routed # "none" => triage = "text")

\* wkb.py:765-768: when a dispatch reports a result, every attempt behind it is
\* in the log with its outcome, or its append has failed; and the record asked
\* for is there.
SuccessIsAudited ==
  main \in {"ending", "exited"} /\ code = 0
    => /\ verdict # "none"
       /\ \A p \in Providers : <<p, "success">> \in audit \/ (DiskFails /\ thread[p] = "dead")
       /\ triage # "none" => \E o \in {"success", "error"} : <<JudgeName, o>> \in audit
       /\ sealed = args.seal

\* wkb.py:665-668: the error that is reported is the first one in declaration
\* order, whatever failed first; those before it have answered, and their threads have
\* come to their end.
FirstErrorReported ==
  main \in {"ending", "exited"} /\ code = 2 /\ args.denied = {} /\ verdict = "none"
    => /\ outcomes[next] = WkbError
       /\ \A p \in 1..(next - 1) : outcomes[p] \in Texts /\ Finished(p)

\* wkb.py:668-671, 774-781: if runs end, so does the process, whatever threads
\* raise while they hold the lock of the log.
DispatchEnds == RunsEnd => <>(main = "exited")

\* wkb.py:665-671: an error surfaces as soon as the providers before it have
\* answered; the ones after it may still be at work, and may never answer.
ErrorSurfaces ==
  \A p \in Providers :
    outcomes[p] = WkbError /\ (\A q \in 1..(p - 1) : outcomes[q] \in Texts)
      ~> main = "exited"

-----------------------------------------------------------------------------
(* A claim of the repository that the code does not keep. *)

\* wkb.py:765-768: "Every attempt is appended here as it resolves, regardless of
\* ... whether dispatch() raises"; smoke.sh:117-119.
AuditSurvivesRaise ==
  main = "exited" /\ ~DiskFails
    => \A p \in Providers : outcomes[p] # Absent => <<p, Outcome(p)>> \in audit
=============================================================================
