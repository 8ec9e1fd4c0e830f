---------------------------- MODULE UsageTracker ----------------------------
(***************************************************************************)
(* scripts/usage_tracker.py and scripts/model_router.py: a caller lets       *)
(* choose_model pick a model, has it run, and gives record() the usage with  *)
(* the id of the model that ran; or gives it any id.                        *)
(*                                                                         *)
(* Prices are whole dollars for a million tokens, and costs are counted in  *)
(* twentieths of a millionth of a dollar, so that the multipliers 1.25 and   *)
(* 0.1 keep them whole; the rounding of floats is left out.  Scores are     *)
(* counted in tenths; a comparison with NaN is false.                       *)
(*                                                                         *)
(* A definition named Slip... is a mistake a change of the code could make, *)
(* in the place of the definition after it.                                 *)
(***************************************************************************)
EXTENDS Integers, SequencesExt

CONSTANTS
  Models,               \* the ids a caller may name
  PRICING,              \* MODEL_PRICING: the rates of some of them
  HAIKU, SONNET, OPUS,  \* the ids choose_model picks from
  NoModel,              \* it raises a ValueError
  NaN,                  \* a score that is no number
  Ran,                  \* external: the ids the service may report for one asked for
  Routes, Usages,
  Absent,               \* a field of a usage that is missing or None
  MaxCalls              \* how often record is called

Kinds == {"input", "output", "read", "write"}
CacheKinds == {"read", "write"}

ASSUME TrackerAssumption ==
  /\ PRICING \in [DOMAIN PRICING -> [input : Nat, output : Nat]]
  /\ {HAIKU, SONNET, OPUS} \subseteq DOMAIN PRICING /\ DOMAIN PRICING \subseteq Models
  /\ HAIKU # SONNET /\ HAIKU # OPUS /\ SONNET # OPUS
  /\ PRICING[HAIKU].input <= PRICING[SONNET].input /\ PRICING[SONNET].input <= PRICING[OPUS].input
  /\ PRICING[HAIKU].output <= PRICING[SONNET].output /\ PRICING[SONNET].output <= PRICING[OPUS].output
  /\ NoModel \notin Models /\ Absent \notin Nat /\ NaN \notin Int
  /\ \A m \in {HAIKU, SONNET, OPUS} : Ran[m] \subseteq Models
  /\ Usages \subseteq [Kinds -> Nat \cup {Absent}]
  /\ \A u \in Usages : u["input"] # Absent /\ u["output"] # Absent
  /\ MaxCalls \in Nat

VARIABLES
  tokens,         \* the four counters of tokens
  request_count,
  costs_by_route, \* a function on the routes that have a cost
  ledger,         \* history: the calls that returned
  calls           \* history: how many were made

vars == <<tokens, request_count, costs_by_route, ledger, calls>>

Tasks == {"cheap", "other", "blank"}   \* in CHEAP_TASK_TYPES; any other; no task type
Scores == (-1..11) \cup {NaN}

\* A call of record, and what choose_model was asked for it: "direct" if it was not.
Calls == [usage : Usages, route : Routes, model : DOMAIN PRICING, task : Tasks \cup {"direct"},
          score : Scores, asked : Models]

TypeOK ==
  /\ tokens \in [Kinds -> Nat] /\ request_count \in Nat
  /\ DOMAIN costs_by_route \subseteq Routes
  /\ \A r \in DOMAIN costs_by_route : costs_by_route[r] \in Nat
  /\ ledger \in Seq(Calls) /\ calls \in Nat

Init ==
  /\ tokens = [k \in Kinds |-> 0] /\ request_count = 0
  /\ costs_by_route = [r \in {} |-> 0]
  /\ ledger = <<>> /\ calls = 0

-----------------------------------------------------------------------------

\* x < y and x <= y of floats.
Below(x, y) == NaN \notin {x, y} /\ x < y
AtMost(x, y) == NaN \notin {x, y} /\ x <= y

\* Slip: the scale is tested from its outside, which lets NaN pass.
SlipChooseModel(task, score) ==
  IF task = "blank" \/ Below(score, 0) \/ Below(10, score) THEN NoModel
  ELSE IF task = "cheap" \/ Below(score, 3) THEN HAIKU
  ELSE IF Below(score, 7) THEN SONNET ELSE OPUS

ChooseModel(task, score) ==
  IF task = "blank" \/ ~(AtMost(0, score) /\ AtMost(score, 10)) THEN NoModel
  ELSE IF task = "cheap" \/ Below(score, 3) THEN HAIKU
  ELSE IF Below(score, 7) THEN SONNET ELSE OPUS

Amount(u, k) == IF u[k] = Absent THEN 0 ELSE u[k]

\* _calculate_cost, for a model that has a price.
Cost(u, m) ==
  LET rate == PRICING[m] IN
  20 * (Amount(u, "input") * rate.input + Amount(u, "output") * rate.output)
  + 25 * Amount(u, "write") * rate.input + 2 * Amount(u, "read") * rate.input

Tallies(u) ==
  /\ tokens' = [k \in Kinds |-> tokens[k] + Amount(u, k)]
  /\ request_count' = request_count + 1

\* record, for a model with a price.
Records(c) ==
  LET before == IF c.route \in DOMAIN costs_by_route THEN costs_by_route[c.route] ELSE 0 IN
  /\ c.model \in DOMAIN PRICING
  /\ Tallies(c.usage)
  /\ costs_by_route' = [r \in DOMAIN costs_by_route \cup {c.route} |->
                          IF r = c.route THEN before + Cost(c.usage, c.model) ELSE costs_by_route[r]]
  /\ ledger' = Append(ledger, c)

\* Slip: the tokens are added up before the price is looked for.
SlipRaises(c) ==
  /\ c.model \notin DOMAIN PRICING
  /\ Tallies(c.usage)
  /\ UNCHANGED <<costs_by_route, ledger>>

\* record raises a UsageTrackerError.
Raises(c) ==
  /\ c.model \notin DOMAIN PRICING
  /\ UNCHANGED <<tokens, request_count, costs_by_route, ledger>>

\* The counter only bounds the calls.
Call(c) ==
  /\ calls < MaxCalls /\ calls' = calls + 1
  /\ Records(c) \/ Raises(c)

\* The caller asks choose_model, and records what the service reports to have run.
Routed(task, score, u, r) ==
  LET m == ChooseModel(task, score) IN
  /\ m # NoModel
  /\ \E ran \in Ran[m] :
       Call([usage |-> u, route |-> r, model |-> ran, task |-> task, score |-> score, asked |-> m])

Direct(m, u, r) ==
  Call([usage |-> u, route |-> r, model |-> m, task |-> "direct", score |-> 0, asked |-> m])

Next ==
  \E u \in Usages, r \in Routes :
    \/ \E task \in Tasks, score \in Scores : Routed(task, score, u, r)
    \/ \E m \in Models : Direct(m, u, r)

Spec == Init /\ [][Next]_vars

-----------------------------------------------------------------------------

\* usage_tracker.py:75: the tracker holds what the calls that returned add up to, and
\* nothing of those that raised: the tokens of each kind, how many they were, and for
\* each route the cost of its calls, so that total_cost is the cost of them all.
TracksWhatReturned ==
  /\ request_count = Len(ledger)
  /\ \A k \in Kinds : tokens[k] = SumFunction([i \in DOMAIN ledger |-> Amount(ledger[i].usage, k)])
  /\ DOMAIN costs_by_route = {ledger[i].route : i \in DOMAIN ledger}
  /\ \A r \in DOMAIN costs_by_route :
       costs_by_route[r] = SumFunctionOnSet([i \in DOMAIN ledger |-> Cost(ledger[i].usage, ledger[i].model)],
                                            {i \in DOMAIN ledger : ledger[i].route = r})

\* The models up to a task: 0.3 is the first score that is not for Haiku, 0.7 the first
\* that is not for Sonnet (test_model_router.py:46), and a task that is cheap by its kind
\* is for any of them.
Able(c) ==
  {m \in {HAIKU, SONNET, OPUS} :
     /\ m = HAIKU => c.task = "cheap" \/ c.score \in 0..2
     /\ m = SONNET => c.task = "cheap" \/ c.score \in 0..6}

\* model_router.py:2, 42-53: a call that was routed was for a task with a kind and with
\* a score on the scale, and of the models up to it the one that was picked costs the
\* least, by the prices the tracker has, for what the call has then used.
RoutesToCheapest ==
  \A i \in DOMAIN ledger :
    LET c == ledger[i] IN
    c.task # "direct"
      => /\ c.task # "blank" /\ c.score \in 0..10
         /\ c.asked \in Able(c)
         /\ \A m \in Able(c) : Cost(c.usage, c.asked) <= Cost(c.usage, m)
=============================================================================
