--------------------------- MODULE Dispatch_proofs ---------------------------
(***************************************************************************)
(* Proofs about Dispatch, for any number of providers, any answers, any      *)
(* command line, and whatever runs and the disk do.                          *)
(***************************************************************************)
EXTENDS Dispatch, FiniteSetTheorems, TLAPS

USE DEF threadVars, resultVars, vars

-----------------------------------------------------------------------------
(* One answer in a sequence of them. *)

\* len({p.sha for p in positions}) == 1 says that all positions are equal.
LEMMA OneAnswer ==
  ASSUME NEW s \in Seq(Texts), Len(s) # 0
  PROVE  Cardinality(ToSet(s)) = 1 <=> \A p, q \in 1..Len(s) : s[p] = s[q]
<1> DEFINE S == ToSet(s)
<1>1. S = {s[i] : i \in 1..Len(s)}
  BY DEF ToSet
<1>2. IsFiniteSet(S)
  <2>1. IsFiniteSet(1..Len(s))
    BY FS_Interval
  <2>2. s \in Surjection(1..Len(s), S)
    BY <1>1 DEF Surjection
  <2> QED
    BY <2>1, <2>2, FS_Surjection
<1>3. Cardinality(S) = 1 <=> \E x : S = {x}
  BY <1>2, FS_Singleton
<1> HIDE DEF S
<1>4. ASSUME \E x : S = {x}
      PROVE  \A p, q \in 1..Len(s) : s[p] = s[q]
  BY <1>1, <1>4
<1>5. ASSUME \A p, q \in 1..Len(s) : s[p] = s[q]
      PROVE  \E x : S = {x}
  <2>1. 1 \in 1..Len(s)
    OBVIOUS
  <2>2. S = {s[1]}
    BY <1>1, <1>5, <2>1
  <2> QED
    BY <2>2
<1> QED
  BY <1>3, <1>4, <1>5 DEF S

-----------------------------------------------------------------------------
(* Types. *)

USE DEF ThreadStates, MainStates, Args

LEMMA TypeStep == TypeOK /\ [Next]_vars => TypeOK'
<1> SUFFICES ASSUME TypeOK, [Next]_vars PROVE TypeOK'
  OBVIOUS
<1> USE DispatchAssumption DEF TypeOK, Providers, JudgeName, Nobody, GoesTo, Ends, Finished
<1>1. ASSUME NEW p \in Providers, Answers(p) PROVE TypeOK'
  BY <1>1 DEF Answers
<1>2. ASSUME NEW p \in Providers, Fails(p) PROVE TypeOK'
  BY <1>2 DEF Fails
<1>3. ASSUME NEW p \in Providers, Raises(p) PROVE TypeOK'
  BY <1>3 DEF Raises
<1>4. ASSUME NEW p \in Providers, Locks(p) PROVE TypeOK'
  BY <1>4 DEF Locks
<1>5. ASSUME NEW p \in Providers, Writes(p) PROVE TypeOK'
  BY <1>5 DEF Writes, Outcome
<1>6. ASSUME NEW p \in Providers, WriteFails(p) PROVE TypeOK'
  BY <1>6 DEF WriteFails
<1>7. CASE Rejects
  BY <1>7 DEF Rejects
<1>8. CASE Validates
  BY <1>8 DEF Validates
<1>9. CASE Starts
  BY <1>9 DEF Starts
<1>10. CASE JoinsAnswer
  BY <1>10 DEF JoinsAnswer
<1>11. CASE JoinsError
  BY <1>11 DEF JoinsError
<1>12. CASE JoinsNothing
  BY <1>12 DEF JoinsNothing
<1>13. CASE Concludes
  BY <1>13 DEF Concludes
<1>14. CASE JudgeAnswers
  BY <1>14, ZenonT(60) DEF JudgeAnswers, ParseTriage
<1>15. CASE JudgeFails
  BY <1>15 DEF JudgeFails
<1>16. CASE JudgeRaises
  BY <1>16 DEF JudgeRaises
<1>17. CASE JudgeLogged
  BY <1>17 DEF JudgeLogged
<1>18. CASE JudgeLogFails
  BY <1>18 DEF JudgeLogFails
<1>19. CASE Reports
  BY <1>19 DEF Reports
<1>20. CASE ReportFails
  BY <1>20 DEF ReportFails
<1>21. CASE Exits
  BY <1>21 DEF Exits
<1>22. CASE UNCHANGED vars
  BY <1>22
<1> QED
  BY <1>1, <1>2, <1>3, <1>4, <1>5, <1>6, <1>7, <1>8, <1>9, <1>10, <1>11, <1>12, <1>13,
     <1>14, <1>15, <1>16, <1>17, <1>18, <1>19, <1>20, <1>21, <1>22
     DEF Next, MainStep, ThreadStep, RunEnds, Logs

LEMMA InitTypes == Init => TypeOK
<1> SUFFICES ASSUME Init PROVE TypeOK
  OBVIOUS
<1>1. args \in Args
  BY DEF Init
<1>2. positions \in Seq(Texts)
  BY DEF Init
<1>3. sealed \in BOOLEAN
  BY DEF Init
<1> QED
  BY <1>1, <1>2, <1>3, DispatchAssumption DEF Init, TypeOK, Providers, Nobody

\* Every reachable state is well typed: what the judge routes to is one of the
\* batch or UNRESOLVED (_parse_triage), and a join is of a provider that exists.
THEOREM TypeCorrect == Spec => []TypeOK
  BY InitTypes, TypeStep, PTL DEF Spec

-----------------------------------------------------------------------------
(* The invariant of a dispatch. *)

Ended == main \in {"ending", "exited"}

\* A thread has an outcome once its run has ended, and a line when it is done.
ThreadsInv ==
  \A p \in Providers :
    /\ thread[p] \in {"unborn", "running"} => outcomes[p] = Absent
    /\ thread[p] \in {"resolved", "writing", "done"} => outcomes[p] # Absent
    /\ thread[p] = "done" => <<p, Outcome(p)>> \in audit
    /\ thread[p] = "dead" /\ outcomes[p] # Absent => DiskFails

\* Nothing starts before the batch is validated, or out of turn.
StartInv ==
  /\ main = "validating" \/ args.denied # {}
       => /\ \A p \in Providers : thread[p] = "unborn"
          /\ next = 1 /\ verdict = "none"
          /\ main = "validating" \/ (Ended /\ code = 2)
  /\ main = "starting" => \A p \in next..N : thread[p] = "unborn"

\* What is joined is finished, has answered and is in its place.
JoinInv ==
  IF main \in {"validating", "starting"}
    THEN positions = <<>>
    ELSE /\ Len(positions) = next - 1
         /\ \A p \in 1..(next - 1) :
              Finished(p) /\ outcomes[p] \in Texts /\ positions[p] = outcomes[p]

\* There is a verdict once all are joined, and the judge is for disagreement.
VerdictInv ==
  /\ main \in {"validating", "starting", "joining"} => verdict = "none"
  /\ main \in {"judging", "logging"} => verdict = "DISAGREE"
  /\ main = "reporting" => verdict # "none"
  /\ verdict # "none"
       => /\ next = N + 1
          /\ verdict = "AGREE" <=> \A p, q \in Providers : outcomes[p] = outcomes[q]

JudgeInv ==
  /\ verdict # "DISAGREE" \/ main = "judging" => triage = "none"
  /\ routed # "none" => triage = "text"
  /\ main = "logging" => triage # "none"
  /\ (main = "reporting" \/ (Ended /\ code = 0)) /\ triage # "none"
       => \E o \in {"success", "error"} : <<JudgeName, o>> \in audit

\* What an exit code stands for.
EndInv ==
  /\ ~Ended => code = 0
  /\ Ended /\ code = 0 => verdict # "none" /\ sealed = args.seal
  /\ Ended /\ code = 2 /\ verdict = "none" /\ args.denied = {}
       => next \in Providers /\ Finished(next) /\ outcomes[next] = WkbError

DispatchInvariant ==
  TypeOK /\ ThreadsInv /\ StartInv /\ JoinInv /\ VerdictInv /\ JudgeInv /\ EndInv

LEMMA InvariantInit == Init => DispatchInvariant
<1> SUFFICES ASSUME Init PROVE DispatchInvariant
  OBVIOUS
<1>1. TypeOK
  BY InitTypes
<1>2. ThreadsInv /\ StartInv /\ JoinInv /\ VerdictInv /\ JudgeInv /\ EndInv
  BY DispatchAssumption
     DEF Init, ThreadsInv, StartInv, JoinInv, VerdictInv, JudgeInv, EndInv, Ended, Providers
<1> QED
  BY <1>1, <1>2 DEF DispatchInvariant

\* A thread touches nothing of the main thread's, and a finished one is finished.
LEMMA ThreadFrame ==
  ASSUME TypeOK, NEW p \in Providers, ThreadStep(p)
  PROVE  /\ UNCHANGED <<args, main, next, resultVars, code>>
         /\ \A q \in Providers : Finished(q) => Finished(q)' /\ outcomes'[q] = outcomes[q]
<1>1. UNCHANGED <<args, main, next, resultVars, code>>
  BY DEF ThreadStep, RunEnds, Logs, Answers, Fails, Raises, Locks, Writes, WriteFails
<1>2. ASSUME NEW q \in Providers, Finished(q)
      PROVE  Finished(q)' /\ outcomes'[q] = outcomes[q]
  <2> USE DEF TypeOK, Finished, GoesTo
  <2>1. ASSUME RunEnds(p) PROVE Finished(q)' /\ outcomes'[q] = outcomes[q]
    BY <1>2, <2>1 DEF RunEnds, Answers, Fails, Raises
  <2>2. ASSUME Logs(p) PROVE Finished(q)' /\ outcomes'[q] = outcomes[q]
    BY <1>2, <2>2 DEF Logs, Locks, Writes, WriteFails
  <2> QED
    BY <2>1, <2>2 DEF ThreadStep
<1> QED
  BY <1>1, <1>2

\* Threads: each step of one leaves the others where they are, and stores an
\* outcome before it gets to the log.
LEMMA ThreadsStep == DispatchInvariant /\ [Next]_vars => ThreadsInv'
<1> SUFFICES ASSUME DispatchInvariant, [Next]_vars PROVE ThreadsInv'
  OBVIOUS
<1> USE DispatchAssumption
    DEF DispatchInvariant, TypeOK, ThreadsInv, Providers, JudgeName, GoesTo, Outcome
<1>1. ASSUME NEW p \in Providers, Answers(p) PROVE ThreadsInv'
  BY <1>1 DEF Answers
<1>2. ASSUME NEW p \in Providers, Fails(p) PROVE ThreadsInv'
  BY <1>2 DEF Fails
<1>3. ASSUME NEW p \in Providers, Raises(p) PROVE ThreadsInv'
  BY <1>3 DEF Raises
<1>4. ASSUME NEW p \in Providers, Locks(p) PROVE ThreadsInv'
  BY <1>4 DEF Locks
<1>5. ASSUME NEW p \in Providers, Writes(p) PROVE ThreadsInv'
  BY <1>5 DEF Writes
<1>6. ASSUME NEW p \in Providers, WriteFails(p) PROVE ThreadsInv'
  BY <1>6 DEF WriteFails
<1>7. CASE Starts
  BY <1>7 DEF Starts, StartInv
<1>8. CASE JudgeLogged
  BY <1>8 DEF JudgeLogged
<1>9. CASE UNCHANGED <<thread, outcomes, audit>>
  BY <1>9
<1> QED
  BY <1>1, <1>2, <1>3, <1>4, <1>5, <1>6, <1>7, <1>8, <1>9
     DEF Next, MainStep, ThreadStep, RunEnds, Logs, Rejects, Validates, JoinsAnswer,
         JoinsError, JoinsNothing, Concludes, JudgeAnswers, JudgeFails, JudgeRaises,
         JudgeLogFails, Reports, ReportFails, Exits

\* Starting: what is not started yet is unborn, and moves with nothing else.
LEMMA StartStep == DispatchInvariant /\ [Next]_vars => StartInv'
<1> SUFFICES ASSUME DispatchInvariant, [Next]_vars PROVE StartInv'
  OBVIOUS
<1> USE DispatchAssumption
    DEF DispatchInvariant, TypeOK, StartInv, Ended, Providers, GoesTo, Ends
<1>1. ASSUME NEW p \in Providers, ThreadStep(p) PROVE StartInv'
  BY <1>1 DEF ThreadStep, RunEnds, Logs, Answers, Fails, Raises, Locks, Writes, WriteFails
<1>2. CASE Rejects
  BY <1>2 DEF Rejects, EndInv
<1>3. CASE Validates
  BY <1>3 DEF Validates
<1>4. CASE Starts
  BY <1>4 DEF Starts
<1>5. CASE JoinsAnswer \/ JoinsError \/ JoinsNothing \/ Concludes
  BY <1>5 DEF JoinsAnswer, JoinsError, JoinsNothing, Concludes
<1>6. CASE JudgeAnswers \/ JudgeFails \/ JudgeRaises \/ JudgeLogged \/ JudgeLogFails
  BY <1>6 DEF JudgeAnswers, JudgeFails, JudgeRaises, JudgeLogged, JudgeLogFails
<1>7. CASE Reports \/ ReportFails \/ Exits
  BY <1>7 DEF Reports, ReportFails, Exits
<1>8. CASE UNCHANGED vars
  BY <1>8
<1> QED
  BY <1>1, <1>2, <1>3, <1>4, <1>5, <1>6, <1>7, <1>8 DEF Next, MainStep

\* Joining: a thread that was joined has finished, so its outcome stays.
LEMMA JoinStep == DispatchInvariant /\ [Next]_vars => JoinInv'
<1> SUFFICES ASSUME DispatchInvariant, [Next]_vars PROVE JoinInv'
  OBVIOUS
<1> USE DispatchAssumption
    DEF DispatchInvariant, TypeOK, JoinInv, Providers, Finished, GoesTo, Ends
<1>1. ASSUME NEW p \in Providers, ThreadStep(p) PROVE JoinInv'
  <2>1. /\ UNCHANGED <<main, next, positions>>
        /\ \A q \in Providers : Finished(q) => Finished(q)' /\ outcomes'[q] = outcomes[q]
    BY <1>1, ThreadFrame
  <2>2. \A q \in 1..(next - 1) : q \in Providers
    OBVIOUS
  <2> QED
    BY <2>1, <2>2
<1>2. CASE Rejects
  BY <1>2 DEF Rejects, StartInv
<1>3. CASE Validates
  BY <1>3 DEF Validates
<1>4. CASE Starts
  BY <1>4 DEF Starts
<1>5. CASE JoinsAnswer
  BY <1>5 DEF JoinsAnswer
<1>6. CASE JoinsError \/ JoinsNothing \/ Concludes
  BY <1>6 DEF JoinsError, JoinsNothing, Concludes
<1>7. CASE JudgeAnswers \/ JudgeFails \/ JudgeRaises \/ JudgeLogged \/ JudgeLogFails
  BY <1>7 DEF JudgeAnswers, JudgeFails, JudgeRaises, JudgeLogged, JudgeLogFails
<1>8. CASE Reports \/ ReportFails \/ Exits
  BY <1>8 DEF Reports, ReportFails, Exits
<1>9. CASE UNCHANGED vars
  BY <1>9
<1> QED
  BY <1>1, <1>2, <1>3, <1>4, <1>5, <1>6, <1>7, <1>8, <1>9 DEF Next, MainStep

\* The verdict: all are joined when it is reached, and nothing moves after.
LEMMA VerdictStep == DispatchInvariant /\ [Next]_vars => VerdictInv'
<1> SUFFICES ASSUME DispatchInvariant, [Next]_vars PROVE VerdictInv'
  OBVIOUS
<1> USE DispatchAssumption
    DEF DispatchInvariant, TypeOK, VerdictInv, Providers, GoesTo, Ends
<1>1. ASSUME NEW p \in Providers, ThreadStep(p) PROVE VerdictInv'
  <2>1. /\ UNCHANGED <<main, next, verdict>>
        /\ \A q \in Providers : Finished(q) => outcomes'[q] = outcomes[q]
    BY <1>1, ThreadFrame
  <2>2. ASSUME verdict # "none" PROVE \A q \in Providers : Finished(q)
    <3>1. next = N + 1 /\ main \notin {"validating", "starting"}
      BY <2>2
    <3>2. \A q \in 1..(next - 1) : Finished(q)
      BY <3>1 DEF JoinInv
    <3> QED
      BY <3>1, <3>2
  <2> QED
    BY <2>1, <2>2
<1>2. CASE Rejects \/ Validates \/ Starts
  BY <1>2 DEF Rejects, Validates, Starts
<1>3. CASE JoinsAnswer \/ JoinsError \/ JoinsNothing
  BY <1>3 DEF JoinsAnswer, JoinsError, JoinsNothing
<1>4. CASE Concludes
  <2>1. Len(positions) = N /\ \A p \in 1..N : positions[p] = outcomes[p]
    BY <1>4 DEF Concludes, JoinInv
  <2>2. Cardinality(ToSet(positions)) = 1 <=> \A p, q \in 1..N : outcomes[p] = outcomes[q]
    <3>1. positions \in Seq(Texts) /\ Len(positions) # 0
      BY <2>1
    <3>2. Cardinality(ToSet(positions)) = 1
            <=> \A p, q \in 1..Len(positions) : positions[p] = positions[q]
      BY <3>1, OneAnswer
    <3> QED
      BY <2>1, <3>2
  <2> QED
    BY <1>4, <2>2 DEF Concludes
<1>5. CASE JudgeAnswers \/ JudgeFails \/ JudgeRaises \/ JudgeLogged \/ JudgeLogFails
  BY <1>5 DEF JudgeAnswers, JudgeFails, JudgeRaises, JudgeLogged, JudgeLogFails
<1>6. CASE Reports \/ ReportFails \/ Exits
  BY <1>6 DEF Reports, ReportFails, Exits
<1>7. CASE UNCHANGED vars
  BY <1>7
<1> QED
  BY <1>1, <1>2, <1>3, <1>4, <1>5, <1>6, <1>7 DEF Next, MainStep

\* The judge: asked once, after a DISAGREE, and logged before the report.
LEMMA JudgeStep == DispatchInvariant /\ [Next]_vars => JudgeInv'
<1> SUFFICES ASSUME DispatchInvariant, [Next]_vars PROVE JudgeInv'
  OBVIOUS
<1> USE DEF DispatchInvariant, TypeOK, JudgeInv, VerdictInv, EndInv, Ended, GoesTo, Ends
<1>1. ASSUME NEW p \in Providers, ThreadStep(p) PROVE JudgeInv'
  BY <1>1 DEF ThreadStep, RunEnds, Logs, Answers, Fails, Raises, Locks, Writes, WriteFails
<1>2. CASE Rejects \/ Validates \/ Starts
  BY <1>2 DEF Rejects, Validates, Starts
<1>3. CASE JoinsAnswer \/ JoinsError \/ JoinsNothing \/ Concludes
  BY <1>3 DEF JoinsAnswer, JoinsError, JoinsNothing, Concludes
<1>4. CASE JudgeAnswers \/ JudgeFails \/ JudgeRaises
  BY <1>4 DEF JudgeAnswers, JudgeFails, JudgeRaises
<1>5. CASE JudgeLogged \/ JudgeLogFails
  BY <1>5 DEF JudgeLogged, JudgeLogFails
<1>6. CASE Reports \/ ReportFails \/ Exits
  BY <1>6 DEF Reports, ReportFails, Exits
<1>7. CASE UNCHANGED vars
  BY <1>7
<1> QED
  BY <1>1, <1>2, <1>3, <1>4, <1>5, <1>6, <1>7 DEF Next, MainStep

\* The end: the first failed provider in the order of the joins is reported.
LEMMA EndStep == DispatchInvariant /\ [Next]_vars => EndInv'
<1> SUFFICES ASSUME DispatchInvariant, [Next]_vars PROVE EndInv'
  OBVIOUS
<1> USE DEF DispatchInvariant, EndInv, Ended, Finished, Ends
<1>1. ASSUME NEW p \in Providers, ThreadStep(p) PROVE EndInv'
  <2>1. /\ UNCHANGED <<args, main, next, verdict, sealed, code>>
        /\ \A q \in Providers : Finished(q) => Finished(q)' /\ outcomes'[q] = outcomes[q]
    BY <1>1, ThreadFrame
  <2> QED
    BY <2>1
<1>2. CASE Rejects \/ Validates \/ Starts
  BY <1>2 DEF Rejects, Validates, Starts
<1>3. CASE JoinsAnswer \/ JoinsError \/ JoinsNothing \/ Concludes
  BY <1>3, DispatchAssumption
     DEF TypeOK, Providers, JoinsAnswer, JoinsError, JoinsNothing, Concludes
<1>4. CASE JudgeAnswers \/ JudgeFails \/ JudgeRaises \/ JudgeLogged \/ JudgeLogFails
  <2>1. verdict # "none" /\ verdict' = verdict /\ code = 0
    BY <1>4 DEF VerdictInv, JudgeAnswers, JudgeFails, JudgeRaises, JudgeLogged, JudgeLogFails
  <2>2. \/ main' \in {"logging", "reporting"} /\ code' = code
        \/ main' = "ending" /\ code' = 1
    BY <1>4 DEF JudgeAnswers, JudgeFails, JudgeRaises, JudgeLogged, JudgeLogFails
  <2> QED
    BY <2>1, <2>2
<1>5. CASE Reports \/ ReportFails \/ Exits
  BY <1>5 DEF Reports, ReportFails, Exits, VerdictInv
<1>6. CASE UNCHANGED vars
  BY <1>6
<1> QED
  BY <1>1, <1>2, <1>3, <1>4, <1>5, <1>6 DEF Next, MainStep

\* The invariant the theorems below are read off.
THEOREM DispatchInvariantHolds == Spec => []DispatchInvariant
<1>1. DispatchInvariant /\ [Next]_vars => DispatchInvariant'
  BY TypeStep, ThreadsStep, StartStep, JoinStep, VerdictStep, JudgeStep, EndStep
     DEF DispatchInvariant
<1> QED
  BY <1>1, InvariantInit, PTL DEF Spec

-----------------------------------------------------------------------------

\* A denied command blocks the whole batch (dispatch(): validate_provider).
THEOREM DeniedBatchBlocked == Spec => []DenyBlocksBatch
<1>1. DispatchInvariant => DenyBlocksBatch
  BY DEF DispatchInvariant, StartInv, DenyBlocksBatch
<1> QED
  BY <1>1, DispatchInvariantHolds, PTL

\* A verdict is about every provider, each in its place (dispatch(): the joins), and
\* the judge is for disagreement.
THEOREM VerdictsAreWhole == Spec => []VerdictIsWhole
<1>1. ASSUME DispatchInvariant, verdict # "none"
      PROVE  /\ positions = outcomes
             /\ \A p \in Providers : Finished(p) /\ outcomes[p] \in Texts
  <2>1. next = N + 1 /\ main \notin {"validating", "starting"}
    BY <1>1 DEF DispatchInvariant, VerdictInv
  <2>2. \A p \in 1..(next - 1) : Finished(p) /\ outcomes[p] \in Texts
    BY <1>1, <2>1 DEF DispatchInvariant, JoinInv
  <2>3. \A p \in Providers : Finished(p) /\ outcomes[p] \in Texts
    BY <2>1, <2>2, DispatchAssumption DEF Providers
  <2>4. Len(positions) = N /\ \A p \in 1..N : positions[p] = outcomes[p]
    BY <1>1, DispatchAssumption DEF DispatchInvariant, TypeOK, Providers, VerdictInv, JoinInv
  <2>5. positions = [p \in 1..N |-> positions[p]] /\ outcomes = [p \in 1..N |-> outcomes[p]]
    BY <1>1, <2>4, DispatchAssumption DEF DispatchInvariant, TypeOK, Providers
  <2> QED
    BY <2>3, <2>4, <2>5
<1>2. ASSUME DispatchInvariant, main = "judging" \/ triage # "none"
      PROVE  verdict = "DISAGREE" /\ (routed # "none" => triage = "text")
  BY <1>2 DEF DispatchInvariant, VerdictInv, JudgeInv
<1>3. DispatchInvariant => VerdictIsWhole
  BY <1>1, <1>2 DEF DispatchInvariant, VerdictInv, VerdictIsWhole
<1> QED
  BY <1>3, DispatchInvariantHolds, PTL

\* Exit code 0 stands for a verdict, its attempts in the log and the record asked
\* for (cmd_dispatch).
THEOREM SuccessesAreAudited == Spec => []SuccessIsAudited
<1>1. DispatchInvariant => SuccessIsAudited
  <2> SUFFICES ASSUME DispatchInvariant, Ended, code = 0
               PROVE  /\ verdict # "none"
                      /\ \A p \in Providers :
                           <<p, "success">> \in audit \/ (DiskFails /\ thread[p] = "dead")
                      /\ triage # "none" => \E o \in {"success", "error"} : <<JudgeName, o>> \in audit
                      /\ sealed = args.seal
    BY DEF SuccessIsAudited, Ended
  <2>1. verdict # "none" /\ sealed = args.seal
    BY DEF DispatchInvariant, EndInv
  <2>2. triage # "none" => \E o \in {"success", "error"} : <<JudgeName, o>> \in audit
    BY DEF DispatchInvariant, JudgeInv
  <2>3. next = N + 1 /\ main \notin {"validating", "starting"}
    BY <2>1 DEF DispatchInvariant, VerdictInv
  <2>4. \A p \in 1..(next - 1) : Finished(p) /\ outcomes[p] \in Texts
    BY <2>3 DEF DispatchInvariant, JoinInv
  <2>5. \A p \in Providers : Finished(p) /\ outcomes[p] \in Texts
    BY <2>3, <2>4, DispatchAssumption DEF Providers
  <2>6. ASSUME NEW p \in Providers
        PROVE  <<p, "success">> \in audit \/ (DiskFails /\ thread[p] = "dead")
    BY <2>5, DispatchAssumption DEF DispatchInvariant, ThreadsInv, Finished, Outcome
  <2> QED
    BY <2>1, <2>2, <2>6
<1> QED
  BY <1>1, DispatchInvariantHolds, PTL

\* The error reported is the first in the order of the providers (dispatch(): the
\* joins).
THEOREM FirstErrorsReported == Spec => []FirstErrorReported
<1>1. DispatchInvariant => FirstErrorReported
  <2> SUFFICES ASSUME DispatchInvariant, Ended, code = 2, args.denied = {}, verdict = "none"
               PROVE  /\ outcomes[next] = WkbError
                      /\ \A p \in 1..(next - 1) : outcomes[p] \in Texts /\ Finished(p)
    BY DEF FirstErrorReported, Ended
  <2> QED
    BY DEF DispatchInvariant, EndInv, JoinInv, Ended
<1> QED
  BY <1>1, DispatchInvariantHolds, PTL
=============================================================================
