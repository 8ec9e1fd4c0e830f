------------------------- MODULE UsageTracker_proofs -------------------------
(***************************************************************************)
(* For any models, prices and usages: the tracker keeps its types and holds *)
(* what the calls that returned add up to, and the model that is picked is  *)
(* the cheapest that is up to the task.                                     *)
(***************************************************************************)
EXTENDS UsageTracker, SumLemmas

USE DEF vars

\* A usage holds a natural number of tokens of each kind, once what is absent is 0.
LEMMA AmountType == ASSUME NEW u \in Usages, NEW k \in Kinds PROVE Amount(u, k) \in Nat
  BY TrackerAssumption DEF Amount

\* choose_model picks one of three models, which all have a price, or raises.
LEMMA ChooseType ==
  ASSUME NEW task \in Tasks, NEW score \in Scores, ChooseModel(task, score) # NoModel
  PROVE  ChooseModel(task, score) \in {HAIKU, SONNET, OPUS}
  BY DEF ChooseModel, Tasks, Scores

LEMMA CostType ==
  ASSUME NEW u \in Usages, NEW m \in DOMAIN PRICING
  PROVE  Cost(u, m) \in Nat
<1>1. PRICING[m].input \in Nat /\ PRICING[m].output \in Nat
  BY TrackerAssumption
<1>2. /\ Amount(u, "input") \in Nat /\ Amount(u, "output") \in Nat
      /\ Amount(u, "write") \in Nat /\ Amount(u, "read") \in Nat
  BY AmountType DEF Kinds
<1>3. \A x, y \in Nat : x * y \in Nat
  OBVIOUS
<1> DEFINE a == Amount(u, "input") * PRICING[m].input
           b == Amount(u, "output") * PRICING[m].output
           c == (25 * Amount(u, "write")) * PRICING[m].input
           d == (2 * Amount(u, "read")) * PRICING[m].input
<1>4. 25 * Amount(u, "write") \in Nat /\ 2 * Amount(u, "read") \in Nat
  BY <1>2
<1>5. a \in Nat /\ b \in Nat /\ c \in Nat /\ d \in Nat
  BY <1>1, <1>2, <1>3, <1>4
<1>6. Cost(u, m) = 20 * (a + b) + c + d
  BY DEF Cost
<1> HIDE DEF a, b, c, d
<1> QED
  BY <1>5, <1>6

\* A call of record keeps the types.
LEMMA CallType ==
  ASSUME TypeOK, NEW u \in Usages, NEW r \in Routes, NEW m \in Models, NEW task \in Tasks \cup {"direct"},
         NEW score \in Scores, NEW asked \in Models,
         Call([usage |-> u, route |-> r, model |-> m, task |-> task, score |-> score, asked |-> asked])
  PROVE  /\ TypeOK'
         /\ \/ ledger' = Append(ledger, [usage |-> u, route |-> r, model |-> m, task |-> task,
                                         score |-> score, asked |-> asked])
            \/ ledger' = ledger
<1> DEFINE c == [usage |-> u, route |-> r, model |-> m, task |-> task, score |-> score, asked |-> asked]
<1>1. calls' \in Nat /\ (Records(c) \/ Raises(c))
  BY DEF Call, TypeOK
<1>2. CASE Raises(c)
  BY <1>1, <1>2 DEF Raises, TypeOK
<1>3. CASE Records(c)
  <2>1. /\ m \in DOMAIN PRICING /\ Tallies(u) /\ ledger' = Append(ledger, c)
        /\ costs_by_route' = [s \in DOMAIN costs_by_route \cup {r} |->
             IF s = r THEN (IF r \in DOMAIN costs_by_route THEN costs_by_route[r] ELSE 0) + Cost(u, m)
                      ELSE costs_by_route[s]]
    BY <1>3 DEF Records
  <2>2. ledger' \in Seq(Calls)
    BY <2>1 DEF Calls, TypeOK
  <2>3. tokens' \in [Kinds -> Nat] /\ request_count' \in Nat
    BY <2>1, AmountType DEF Tallies, TypeOK
  <2>4. DOMAIN costs_by_route' \subseteq Routes
    BY <2>1 DEF TypeOK
  <2>5. \A s \in DOMAIN costs_by_route' : costs_by_route'[s] \in Nat
    BY <2>1, CostType DEF TypeOK
  <2> QED
    BY <1>1, <2>1, <2>2, <2>3, <2>4, <2>5 DEF TypeOK
<1> QED
  BY <1>1, <1>2, <1>3

\* Every entry of the ledger that was routed was routed by choose_model.
AskedAsChosen ==
  \A i \in DOMAIN ledger :
    ledger[i].task # "direct"
    => /\ ledger[i].asked = ChooseModel(ledger[i].task, ledger[i].score)
       /\ ledger[i].asked # NoModel

TrackerInv == TypeOK /\ AskedAsChosen

\* An entry that was routed by choose_model, or was not routed, may be added.
LEMMA EntryKeepsChosen ==
  ASSUME TypeOK, AskedAsChosen, NEW c \in Calls,
         ledger' = Append(ledger, c) \/ ledger' = ledger,
         c.task # "direct" => c.asked = ChooseModel(c.task, c.score) /\ c.asked # NoModel
  PROVE  AskedAsChosen'
<1>1. CASE ledger' = ledger
  BY <1>1 DEF AskedAsChosen
<1>2. CASE ledger' = Append(ledger, c)
  <2>1. /\ DOMAIN ledger' = 1..(Len(ledger) + 1) /\ DOMAIN ledger = 1..Len(ledger) /\ Len(ledger) \in Nat
        /\ ledger'[Len(ledger) + 1] = c /\ \A i \in 1..Len(ledger) : ledger'[i] = ledger[i]
    BY <1>2 DEF TypeOK
  <2> QED
    BY <2>1 DEF AskedAsChosen
<1> QED
  BY <1>1, <1>2

\* A call of record keeps types and choices, if its entry is one that was chosen so.
LEMMA CallKeeps ==
  ASSUME TrackerInv, NEW u \in Usages, NEW r \in Routes, NEW m \in Models,
         NEW task \in Tasks \cup {"direct"}, NEW score \in Scores, NEW asked \in Models,
         Call([usage |-> u, route |-> r, model |-> m, task |-> task, score |-> score, asked |-> asked]),
         task # "direct" => asked = ChooseModel(task, score) /\ asked # NoModel
  PROVE  TrackerInv'
<1> DEFINE c == [usage |-> u, route |-> r, model |-> m, task |-> task, score |-> score, asked |-> asked]
<1>1. TypeOK' /\ (ledger' = ledger \/ ledger' = Append(ledger, c))
  BY CallType DEF TrackerInv
<1>2. CASE ledger' = ledger
  BY <1>1, <1>2 DEF TrackerInv, AskedAsChosen
<1>3. CASE ledger' = Append(ledger, c) /\ ledger' # ledger
  <2>1. m \in DOMAIN PRICING
    BY <1>3 DEF Call, Records, Raises
  <2>2. c \in Calls
    BY <2>1 DEF Calls
  <2>3. c.task = task /\ c.score = score /\ c.asked = asked
    OBVIOUS
  <2> HIDE DEF c
  <2> QED
    BY <1>1, <1>3, <2>2, <2>3, EntryKeepsChosen DEF TrackerInv
<1> QED
  BY <1>1, <1>2, <1>3

LEMMA TrackerInit == Init => TrackerInv
<1> SUFFICES ASSUME Init PROVE TrackerInv
  OBVIOUS
<1>1. /\ DOMAIN costs_by_route = {} /\ ledger \in Seq(Calls) /\ DOMAIN ledger = {}
  BY DEF Init
<1> QED
  BY <1>1 DEF Init, TrackerInv, TypeOK, AskedAsChosen

LEMMA TrackerStep == TrackerInv /\ [Next]_vars => TrackerInv'
<1> SUFFICES ASSUME TrackerInv, [Next]_vars PROVE TrackerInv'
  OBVIOUS
<1> USE DEF TrackerInv
<1>1. ASSUME NEW u \in Usages, NEW r \in Routes, NEW task \in Tasks, NEW score \in Scores,
             Routed(task, score, u, r)
      PROVE  TrackerInv'
  <2> DEFINE m == ChooseModel(task, score)
  <2>1. PICK ran \in Ran[m] :
          Call([usage |-> u, route |-> r, model |-> ran, task |-> task, score |-> score, asked |-> m])
    BY <1>1 DEF Routed
  <2>2. m # NoModel /\ m \in {HAIKU, SONNET, OPUS}
    BY <1>1, ChooseType DEF Routed
  <2>3. ran \in Models /\ m \in Models
    BY <2>2, TrackerAssumption
  <2> DEFINE c == [usage |-> u, route |-> r, model |-> ran, task |-> task, score |-> score, asked |-> m]
  <2>4. c.task = task /\ c.score = score /\ c.asked = m
    OBVIOUS
  <2>5. Call(c)
    BY <2>1
  <2> QED
    BY <2>2, <2>3, <2>4, <2>5, CallKeeps
<1>2. ASSUME NEW u \in Usages, NEW r \in Routes, NEW m \in Models, Direct(m, u, r)
      PROVE  TrackerInv'
  <2> DEFINE c == [usage |-> u, route |-> r, model |-> m, task |-> "direct", score |-> 0, asked |-> m]
  <2>1. Call(c) /\ c.task = "direct" /\ 0 \in Scores
    BY <1>2 DEF Direct, Scores
  <2> QED
    BY <2>1, CallKeeps
<1>3. CASE UNCHANGED vars
  BY <1>3 DEF TypeOK, AskedAsChosen
<1> QED
  BY <1>1, <1>2, <1>3 DEF Next

-----------------------------------------------------------------------------

\* More of nothing, or of a number, is no less.
LEMMA TimesMonotone ==
  ASSUME NEW x \in Nat, NEW a \in Nat, NEW b \in Nat, a <= b
  PROVE  x * a \in Nat /\ x * b \in Nat /\ x * a <= x * b
<1>1. PICK d \in Nat : b = a + d
  <2>1. b - a \in Nat /\ b = a + (b - a)
    OBVIOUS
  <2> QED
    BY <2>1
<1>2. x * a \in Nat /\ x * d \in Nat
  OBVIOUS
<1>3. x * b = x * a + x * d
  <2>1. x * (a + d) = x * a + x * d
    OBVIOUS
  <2> QED
    BY <1>1, <2>1, Zenon
<1> QED
  BY <1>2, <1>3

\* Where no rate is higher, no usage costs more.
LEMMA CostMonotone ==
  ASSUME NEW u \in Usages, NEW m \in DOMAIN PRICING, NEW n \in DOMAIN PRICING,
         PRICING[m].input <= PRICING[n].input, PRICING[m].output <= PRICING[n].output
  PROVE  Cost(u, m) <= Cost(u, n)
<1>1. /\ PRICING[m].input \in Nat /\ PRICING[m].output \in Nat
      /\ PRICING[n].input \in Nat /\ PRICING[n].output \in Nat
  BY TrackerAssumption
<1>2. /\ Amount(u, "input") \in Nat /\ Amount(u, "output") \in Nat
      /\ Amount(u, "write") \in Nat /\ Amount(u, "read") \in Nat
  BY AmountType DEF Kinds
<1> DEFINE a(k) == Amount(u, "input") * PRICING[k].input
           b(k) == Amount(u, "output") * PRICING[k].output
           c(k) == (25 * Amount(u, "write")) * PRICING[k].input
           d(k) == (2 * Amount(u, "read")) * PRICING[k].input
<1>3. 25 * Amount(u, "write") \in Nat /\ 2 * Amount(u, "read") \in Nat
  BY <1>2
<1>4. a(m) \in Nat /\ a(n) \in Nat /\ a(m) <= a(n)
  BY <1>1, <1>2, TimesMonotone
<1>5. b(m) \in Nat /\ b(n) \in Nat /\ b(m) <= b(n)
  BY <1>1, <1>2, TimesMonotone
<1>6. c(m) \in Nat /\ c(n) \in Nat /\ c(m) <= c(n)
  BY <1>1, <1>3, TimesMonotone
<1>7. d(m) \in Nat /\ d(n) \in Nat /\ d(m) <= d(n)
  BY <1>1, <1>3, TimesMonotone
<1>8. /\ Cost(u, m) = 20 * (a(m) + b(m)) + c(m) + d(m)
      /\ Cost(u, n) = 20 * (a(n) + b(n)) + c(n) + d(n)
  BY DEF Cost
<1> HIDE DEF a, b, c, d
<1> QED
  BY <1>4, <1>5, <1>6, <1>7, <1>8

\* No tier has a lower rate than one below it.
LEMMA TiersRise ==
  ASSUME NEW u \in Usages
  PROVE  Cost(u, HAIKU) <= Cost(u, SONNET) /\ Cost(u, SONNET) <= Cost(u, OPUS)
         /\ Cost(u, HAIKU) <= Cost(u, OPUS)
<1>1. {HAIKU, SONNET, OPUS} \subseteq DOMAIN PRICING
  BY TrackerAssumption
<1>2. Cost(u, HAIKU) <= Cost(u, SONNET) /\ Cost(u, SONNET) <= Cost(u, OPUS)
  BY <1>1, TrackerAssumption, CostMonotone
<1>3. Cost(u, HAIKU) \in Nat /\ Cost(u, SONNET) \in Nat /\ Cost(u, OPUS) \in Nat
  BY <1>1, CostType
<1> HIDE DEF Cost
<1> QED
  BY <1>2, <1>3

\* What choose_model picks is up to the task, and the lowest tier that is.
LEMMA ChoosesCheapest ==
  ASSUME NEW c \in Calls, c.task # "direct",
         c.asked = ChooseModel(c.task, c.score), c.asked # NoModel
  PROVE  /\ c.task # "blank" /\ c.score \in 0..10
         /\ c.asked \in Able(c)
         /\ \A m \in Able(c) : Cost(c.usage, c.asked) <= Cost(c.usage, m)
<1>1. c.task \in Tasks /\ c.score \in Scores /\ c.usage \in Usages
  BY DEF Calls
<1>2. c.task # "blank" /\ c.score \in 0..10 /\ c.score # NaN
  <2>1. c.task # "blank" /\ AtMost(0, c.score) /\ AtMost(c.score, 10)
    BY DEF ChooseModel
  <2>2. c.score \in Int /\ c.score # NaN
    BY <1>1, <2>1 DEF Scores, AtMost
  <2> QED
    BY <2>1, <2>2 DEF AtMost
<1>3. c.score \in Int /\ NaN \notin {c.score, 3, 7}
  BY <1>2, TrackerAssumption
<1>4. c.asked = IF c.task = "cheap" \/ c.score < 3 THEN HAIKU ELSE IF c.score < 7 THEN SONNET ELSE OPUS
  BY <1>3 DEF ChooseModel, Below
<1>5. /\ Cost(c.usage, HAIKU) \in Nat /\ Cost(c.usage, SONNET) \in Nat /\ Cost(c.usage, OPUS) \in Nat
      /\ Cost(c.usage, HAIKU) <= Cost(c.usage, SONNET) /\ Cost(c.usage, SONNET) <= Cost(c.usage, OPUS)
      /\ Cost(c.usage, HAIKU) <= Cost(c.usage, OPUS)
  BY <1>1, TrackerAssumption, CostType, TiersRise
<1>6. /\ c.score < 3 <=> c.score \in 0..2
      /\ c.score < 7 <=> c.score \in 0..6
  BY <1>2
<1>7. CASE c.task = "cheap" \/ c.score < 3
  <2>1. c.asked = HAIKU
    BY <1>4, <1>7
  <2>2. HAIKU \in Able(c)
    BY <1>2, <1>3, <1>6, <1>7 DEF Able
  <2> QED
    BY <1>2, <1>5, <2>1, <2>2 DEF Able
<1>8. CASE ~(c.task = "cheap" \/ c.score < 3) /\ c.score < 7
  <2>1. c.asked = SONNET /\ SONNET # HAIKU /\ SONNET \in Able(c)
    BY <1>4, <1>6, <1>8, TrackerAssumption DEF Able
  <2> QED
    BY <1>2, <1>5, <1>6, <1>8, <2>1 DEF Able
<1>9. CASE ~(c.task = "cheap" \/ c.score < 3) /\ ~(c.score < 7)
  <2>1. c.asked = OPUS /\ OPUS # HAIKU /\ OPUS # SONNET
    BY <1>4, <1>9, TrackerAssumption
  <2>2. \A m \in Able(c) : m = OPUS
    BY <1>6, <1>9 DEF Able
  <2>3. OPUS \in Able(c)
    BY <2>1 DEF Able
  <2> QED
    BY <1>2, <1>5, <2>1, <2>2, <2>3
<1> QED
  BY <1>7, <1>8, <1>9

\* Whatever is recorded, and whatever of it raises: each variable has its type.
THEOREM TypeCorrect == Spec => []TypeOK
<1>1. TrackerInv => TypeOK
  BY DEF TrackerInv
<1> QED
  BY <1>1, TrackerInit, TrackerStep, PTL DEF Spec

\* model_router.py:2, 42-53: whatever the prices are, if no rate falls from tier to tier,
\* a task with a kind and a score on the scale, and no other, gets the cheapest model
\* that is up to it.
THEOREM CheapestIsChosen == Spec => []RoutesToCheapest
<1>1. TrackerInv => RoutesToCheapest
  <2> SUFFICES ASSUME TrackerInv, NEW i \in DOMAIN ledger, ledger[i].task # "direct"
               PROVE  LET c == ledger[i] IN
                      /\ c.task # "blank" /\ c.score \in 0..10
                      /\ c.asked \in Able(c)
                      /\ \A m \in Able(c) : Cost(c.usage, c.asked) <= Cost(c.usage, m)
    BY DEF RoutesToCheapest
  <2> DEFINE c == ledger[i]
  <2>1. c \in Calls
    BY DEF TrackerInv, TypeOK
  <2>2. c.asked = ChooseModel(c.task, c.score) /\ c.asked # NoModel
    BY DEF TrackerInv, AskedAsChosen
  <2> HIDE DEF c
  <2>3. c.task # "direct"
    BY DEF c
  <2> QED
    BY <2>1, <2>2, <2>3, ChoosesCheapest DEF c
<1> QED
  BY <1>1, TrackerInit, TrackerStep, PTL DEF Spec

-----------------------------------------------------------------------------
(* What the tracker holds: the sums over the ledger. *)

Amounts(l, k) == [i \in DOMAIN l |-> Amount(l[i].usage, k)]
Costs(l) == [i \in DOMAIN l |-> Cost(l[i].usage, l[i].model)]
CallsOf(l, r) == {i \in DOMAIN l : l[i].route = r}

\* The ledger m is l and the call c, as its entry n.
Grown(l, c, m, n) ==
  /\ DOMAIN m = DOMAIN l \cup {n} /\ n \notin DOMAIN l /\ IsFiniteSet(DOMAIN l)
  /\ Len(m) = n /\ m[n] = c /\ \A i \in DOMAIN l : m[i] = l[i]
  /\ \A i \in DOMAIN m : m[i] \in Calls

\* One more call in a ledger.
LEMMA LedgerAppend ==
  ASSUME NEW l \in Seq(Calls), NEW c \in Calls
  PROVE  Grown(l, c, Append(l, c), Len(l) + 1)
<1>1. PICK m : m = Append(l, c)
  OBVIOUS
<1>2. PICK n : n = Len(l) + 1
  OBVIOUS
<1>3. DOMAIN l = 1..Len(l) /\ Len(l) \in Nat /\ DOMAIN m = 1..n
  BY <1>1, <1>2
<1>4. IsFiniteSet(1..Len(l))
  BY <1>3, FS_Interval
<1>5. Len(m) = n /\ m[n] = c /\ \A i \in 1..Len(l) : m[i] = l[i]
  BY <1>1, <1>2
<1>6. \A i \in 1..n : m[i] \in Calls
  BY <1>1, <1>2
<1>7. Grown(l, c, m, n)
  BY <1>2, <1>3, <1>4, <1>5, <1>6 DEF Grown
<1> QED
  BY <1>1, <1>2, <1>7

\* The tokens of a kind: what the new call counts is added.
LEMMA TokensAppend ==
  ASSUME NEW l \in Seq(Calls), NEW c \in Calls, NEW k \in Kinds
  PROVE  SumFunction(Amounts(Append(l, c), k)) = SumFunction(Amounts(l, k)) + Amount(c.usage, k)
<1>1. PICK m : m = Append(l, c)
  OBVIOUS
<1>2. PICK n : n = Len(l) + 1
  OBVIOUS
<1>3. Grown(l, c, m, n)
  BY <1>1, <1>2, LedgerAppend
<1> USE <1>3 DEF Grown
<1>4. PICK f : f = Amounts(m, k)
  OBVIOUS
<1>5. PICK g : g = Amounts(l, k)
  OBVIOUS
<1>6. /\ DOMAIN f = DOMAIN l \cup {n} /\ DOMAIN g = DOMAIN l
      /\ \A i \in DOMAIN l : f[i] = g[i]
      /\ f[n] = Amount(c.usage, k)
  BY <1>3, <1>4, <1>5 DEF Amounts
<1>7. \A i \in DOMAIN l \cup {n} : f[i] \in Nat
  <2> SUFFICES ASSUME NEW i \in DOMAIN m PROVE f[i] \in Nat
    BY <1>3
  <2>1. m[i].usage \in Usages
    BY <1>3 DEF Calls
  <2> QED
    BY <1>4, <2>1, AmountType DEF Amounts
<1>8. SumFunctionOnSet(f, DOMAIN l \cup {n}) = f[n] + SumFunctionOnSet(g, DOMAIN l)
  BY <1>3, <1>6, <1>7, SumAdd, SMTT(30)
<1>9. SumFunctionOnSet(g, DOMAIN l) \in Nat
  <2>1. \A i \in DOMAIN l : g[i] \in Nat
    BY <1>6, <1>7
  <2>2. \A T \in SUBSET (DOMAIN l) : SumFunctionOnSet(g, T) \in Nat
    BY <1>3, <2>1, SumType
  <2> QED
    BY <2>2
<1>10. f[n] \in Nat
  BY <1>7
<1>11. SumFunction(f) = SumFunctionOnSet(f, DOMAIN l \cup {n}) /\ SumFunction(g) = SumFunctionOnSet(g, DOMAIN l)
  BY <1>6 DEF SumFunction
<1> QED
  BY <1>1, <1>4, <1>5, <1>6, <1>8, <1>9, <1>10, <1>11

\* The cost of a route: that of the new call is added to its own route, and to no other.
LEMMA CostsAppend ==
  ASSUME NEW l \in Seq(Calls), NEW c \in Calls, NEW r
  PROVE  SumFunctionOnSet(Costs(Append(l, c)), CallsOf(Append(l, c), r)) =
           SumFunctionOnSet(Costs(l), CallsOf(l, r)) + IF r = c.route THEN Cost(c.usage, c.model) ELSE 0
<1>1. PICK m : m = Append(l, c)
  OBVIOUS
<1>2. PICK n : n = Len(l) + 1
  OBVIOUS
<1>3. Grown(l, c, m, n)
  BY <1>1, <1>2, LedgerAppend
<1> USE <1>3 DEF Grown
<1>4. PICK f : f = Costs(m)
  OBVIOUS
<1>5. PICK g : g = Costs(l)
  OBVIOUS
<1>6. /\ \A i \in DOMAIN l : f[i] = g[i]
      /\ f[n] = Cost(c.usage, c.model)
  BY <1>3, <1>4, <1>5 DEF Costs
<1>7. \A i \in DOMAIN l \cup {n} : f[i] \in Nat
  <2> SUFFICES ASSUME NEW i \in DOMAIN m PROVE f[i] \in Nat
    BY <1>3
  <2>1. m[i].usage \in Usages /\ m[i].model \in DOMAIN PRICING
    BY <1>3 DEF Calls
  <2> QED
    BY <1>4, <2>1, CostType DEF Costs
<1>8. PICK S : S = CallsOf(l, r)
  OBVIOUS
<1>9. S \in SUBSET (DOMAIN l) /\ IsFiniteSet(S) /\ n \notin S
  BY <1>3, <1>8, FS_Subset DEF CallsOf
<1>10. SumFunctionOnSet(g, S) \in Nat
  <2>1. \A i \in DOMAIN l : g[i] \in Nat
    BY <1>6, <1>7
  <2> QED
    BY <1>3, <1>9, <2>1, SumType
<1>11. CASE r = c.route
  <2>1. CallsOf(m, r) = S \cup {n}
    BY <1>3, <1>8, <1>11 DEF CallsOf
  <2>2. (\A i \in S \cup {n} : f[i] \in Nat) /\ \A i \in S : f[i] = g[i]
    BY <1>6, <1>7, <1>9
  <2>3. SumFunctionOnSet(f, S \cup {n}) = f[n] + SumFunctionOnSet(g, S)
    BY <1>9, <2>2, SumAdd
  <2>4. f[n] \in Nat
    BY <1>7
  <2>5. f[n] + SumFunctionOnSet(g, S) = SumFunctionOnSet(g, S) + f[n]
    BY <1>10, <2>4
  <2> QED
    BY <1>1, <1>4, <1>5, <1>6, <1>8, <1>11, <2>1, <2>3, <2>5
<1>12. CASE r # c.route
  <2>1. CallsOf(m, r) = S
    BY <1>3, <1>8, <1>12 DEF CallsOf
  <2>2. SumFunctionOnSet(f, S) = SumFunctionOnSet(g, S)
    BY <1>6, <1>9, SumAgrees
  <2> QED
    BY <1>1, <1>4, <1>5, <1>8, <1>10, <1>12, <2>1, <2>2
<1> QED
  BY <1>11, <1>12

\* A call of record adds its numbers to the sums, or raises and adds nothing.
LEMMA CallTracks ==
  ASSUME TypeOK, TracksWhatReturned, NEW c, Call(c),
         c.model \in DOMAIN PRICING => c \in Calls
  PROVE  TracksWhatReturned'
<1>1. CASE Raises(c)
  BY <1>1 DEF Raises, TracksWhatReturned
<1>2. CASE Records(c)
  <2>1. /\ c \in Calls /\ ledger' = Append(ledger, c) /\ ledger \in Seq(Calls)
        /\ tokens' = [k \in Kinds |-> tokens[k] + Amount(c.usage, k)]
        /\ request_count' = request_count + 1
        /\ costs_by_route' = [r \in DOMAIN costs_by_route \cup {c.route} |->
             IF r = c.route
             THEN (IF r \in DOMAIN costs_by_route THEN costs_by_route[r] ELSE 0) + Cost(c.usage, c.model)
             ELSE costs_by_route[r]]
    BY <1>2 DEF Records, Tallies, TypeOK
  <2>2. /\ DOMAIN ledger' = DOMAIN ledger \cup {Len(ledger) + 1} /\ Len(ledger') = Len(ledger) + 1
        /\ ledger'[Len(ledger) + 1] = c /\ \A i \in DOMAIN ledger : ledger'[i] = ledger[i]
    BY <2>1, LedgerAppend DEF Grown
  <2>3. request_count' = Len(ledger')
    BY <2>1, <2>2 DEF TracksWhatReturned
  <2>4. ASSUME NEW k \in Kinds PROVE tokens'[k] = SumFunction(Amounts(ledger', k))
    <3>1. tokens'[k] = tokens[k] + Amount(c.usage, k)
      BY <2>1
    <3>2. tokens[k] = SumFunction(Amounts(ledger, k))
      BY DEF TracksWhatReturned, Amounts
    <3> QED
      BY <2>1, <3>1, <3>2, TokensAppend
  <2>5. DOMAIN costs_by_route' = {ledger'[i].route : i \in DOMAIN ledger'}
    <3>1. DOMAIN costs_by_route = {ledger[i].route : i \in DOMAIN ledger}
      BY DEF TracksWhatReturned
    <3>2. DOMAIN costs_by_route' = DOMAIN costs_by_route \cup {c.route}
      BY <2>1
    <3> QED
      BY <2>2, <3>1, <3>2
  <2>6. ASSUME NEW r \in DOMAIN costs_by_route'
        PROVE  costs_by_route'[r] = SumFunctionOnSet(Costs(ledger'), CallsOf(ledger', r))
    <3>1. SumFunctionOnSet(Costs(ledger'), CallsOf(ledger', r)) =
            SumFunctionOnSet(Costs(ledger), CallsOf(ledger, r)) + IF r = c.route THEN Cost(c.usage, c.model) ELSE 0
      BY <2>1, CostsAppend
    <3>2. CASE r \in DOMAIN costs_by_route
      <4>1. costs_by_route[r] = SumFunctionOnSet(Costs(ledger), CallsOf(ledger, r)) /\ costs_by_route[r] \in Nat
        BY <3>2 DEF TracksWhatReturned, Costs, CallsOf, TypeOK
      <4>2. costs_by_route'[r] = costs_by_route[r] + IF r = c.route THEN Cost(c.usage, c.model) ELSE 0
        BY <2>1, <3>2, <4>1
      <4> QED
        BY <3>1, <4>1, <4>2
    <3>3. CASE r \notin DOMAIN costs_by_route
      <4>1. r = c.route /\ costs_by_route'[r] = 0 + Cost(c.usage, c.model)
        BY <2>1, <3>3
      <4>2. CallsOf(ledger, r) = {}
        BY <3>3 DEF TracksWhatReturned, CallsOf
      <4>3. SumFunctionOnSet(Costs(ledger), CallsOf(ledger, r)) = 0
        BY <4>2, SumEmpty
      <4> QED
        BY <3>1, <4>1, <4>3
    <3> QED
      BY <3>2, <3>3
  <2> QED
    BY <2>3, <2>4, <2>5, <2>6 DEF TracksWhatReturned, Amounts, Costs, CallsOf
<1> QED
  BY <1>1, <1>2 DEF Call

LEMMA TracksInit == Init => TracksWhatReturned
<1> SUFFICES ASSUME Init PROVE TracksWhatReturned
  OBVIOUS
<1>1. /\ request_count = 0 /\ ledger = <<>> /\ DOMAIN ledger = {} /\ Len(ledger) = 0
      /\ DOMAIN costs_by_route = {} /\ \A k \in Kinds : tokens[k] = 0
  BY DEF Init
<1>2. ASSUME NEW k \in Kinds PROVE SumFunction([i \in DOMAIN ledger |-> Amount(ledger[i].usage, k)]) = 0
  BY <1>1, SumEmpty DEF SumFunction
<1> QED
  BY <1>1, <1>2 DEF TracksWhatReturned

LEMMA TracksStep == TypeOK /\ TracksWhatReturned /\ [Next]_vars => TracksWhatReturned'
<1> SUFFICES ASSUME TypeOK, TracksWhatReturned, [Next]_vars PROVE TracksWhatReturned'
  OBVIOUS
<1>1. ASSUME NEW u \in Usages, NEW r \in Routes, NEW task \in Tasks, NEW score \in Scores,
             Routed(task, score, u, r)
      PROVE  TracksWhatReturned'
  <2>1. PICK ran \in Ran[ChooseModel(task, score)] :
          Call([usage |-> u, route |-> r, model |-> ran, task |-> task, score |-> score,
                asked |-> ChooseModel(task, score)])
    BY <1>1 DEF Routed
  <2>2. PICK c : c = [usage |-> u, route |-> r, model |-> ran, task |-> task, score |-> score,
                      asked |-> ChooseModel(task, score)]
    OBVIOUS
  <2>3. ChooseModel(task, score) \in Models
    BY <1>1, ChooseType, TrackerAssumption DEF Routed
  <2>4. c.model \in DOMAIN PRICING => c \in Calls
    BY <2>2, <2>3 DEF Calls
  <2> QED
    BY <2>1, <2>2, <2>4, CallTracks
<1>2. ASSUME NEW u \in Usages, NEW r \in Routes, NEW m \in Models, Direct(m, u, r)
      PROVE  TracksWhatReturned'
  <2>1. PICK c : c = [usage |-> u, route |-> r, model |-> m, task |-> "direct", score |-> 0, asked |-> m]
    OBVIOUS
  <2>2. Call(c)
    BY <1>2, <2>1 DEF Direct
  <2>3. c.model \in DOMAIN PRICING => c \in Calls
    BY <2>1 DEF Calls, Scores
  <2> QED
    BY <2>2, <2>3, CallTracks
<1>3. CASE UNCHANGED vars
  BY <1>3 DEF TracksWhatReturned
<1> QED
  BY <1>1, <1>2, <1>3 DEF Next

\* usage_tracker.py:75: whatever is recorded, for any prices: the requests, the tokens of
\* each kind and the cost of each route are the sums over the calls that returned, so
\* that one that raised has left nothing behind.
THEOREM ReturnedAreTracked == Spec => []TracksWhatReturned
<1>1. TrackerInv => TypeOK
  BY DEF TrackerInv
<1> QED
  BY <1>1, TrackerInit, TrackerStep, TracksInit, TracksStep, PTL DEF Spec
=============================================================================
