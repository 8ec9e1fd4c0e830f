--------------------------- MODULE Lineage_proofs ---------------------------
(***************************************************************************)
(* What a briefing holds, for any ids, any parents and any state of the      *)
(* files: the walk meets each ancestor once, and the stack accounts for what *)
(* it has met and not yet returned.  And what a bridge keeps silent about.  *)
(***************************************************************************)
EXTENDS Bridge, SumLemmas

USE DEF storeVars, walkVars, vars

Frame == [id : Ids, todo : Seq(Ids)]

-----------------------------------------------------------------------------
(* Sequences *)

\* What is in a sequence one longer.
LEMMA ToSetAppend ==
  ASSUME NEW S, NEW s \in Seq(S), NEW x \in S
  PROVE  ToSet(Append(s, x)) = ToSet(s) \cup {x}
<1>1. /\ Len(Append(s, x)) = Len(s) + 1 /\ Append(s, x)[Len(s) + 1] = x
      /\ \A i \in 1..Len(s) : Append(s, x)[i] = s[i]
      /\ DOMAIN Append(s, x) = 1..(Len(s) + 1) /\ DOMAIN s = 1..Len(s) /\ Len(s) \in Nat
  OBVIOUS
<1> QED
  BY <1>1 DEF ToSet

\* A new element leaves a sequence without duplicates.
LEMMA InjectiveAppend ==
  ASSUME NEW S, NEW s \in Seq(S), NEW x \in S, IsInjective(s), x \notin ToSet(s)
  PROVE  IsInjective(Append(s, x))
<1>1. /\ Append(s, x)[Len(s) + 1] = x
      /\ \A i \in 1..Len(s) : Append(s, x)[i] = s[i]
      /\ DOMAIN Append(s, x) = 1..(Len(s) + 1) /\ DOMAIN s = 1..Len(s) /\ Len(s) \in Nat
  OBVIOUS
<1>2. \A i \in 1..Len(s) : s[i] # x
  BY <1>1 DEF ToSet
<1> QED
  BY <1>1, <1>2 DEF IsInjective

\* What is in a sequence is its head or in its tail.
LEMMA ToSetHead ==
  ASSUME NEW S, NEW s \in Seq(S), s # <<>>
  PROVE  /\ Head(s) \in S /\ Tail(s) \in Seq(S)
         /\ ToSet(s) = {Head(s)} \cup ToSet(Tail(s))
<1>1. /\ Len(s) \in Nat \ {0} /\ DOMAIN s = 1..Len(s) /\ Head(s) = s[1] /\ Head(s) \in S
      /\ Tail(s) \in Seq(S) /\ Len(Tail(s)) = Len(s) - 1 /\ DOMAIN Tail(s) = 1..(Len(s) - 1)
      /\ \A i \in 1..(Len(s) - 1) : Tail(s)[i] = s[i + 1]
  OBVIOUS
<1>2. ASSUME NEW x \in ToSet(s) PROVE x \in {Head(s)} \cup ToSet(Tail(s))
  <2>1. PICK i \in 1..Len(s) : s[i] = x
    BY <1>1 DEF ToSet
  <2>2. CASE i = 1
    BY <2>1, <2>2, <1>1
  <2>3. CASE i # 1
    <3>1. i - 1 \in 1..(Len(s) - 1) /\ Tail(s)[i - 1] = x
      BY <2>1, <2>3, <1>1
    <3> QED
      BY <3>1, <1>1 DEF ToSet
  <2> QED
    BY <2>2, <2>3
<1>3. ASSUME NEW x \in ToSet(Tail(s)) PROVE x \in ToSet(s)
  <2>1. PICK i \in 1..(Len(s) - 1) : Tail(s)[i] = x
    BY <1>1 DEF ToSet
  <2>2. i + 1 \in 1..Len(s) /\ s[i + 1] = x
    BY <2>1, <1>1
  <2> QED
    BY <2>2, <1>1 DEF ToSet
<1>4. Head(s) \in ToSet(s)
  BY <1>1 DEF ToSet
<1> QED
  BY <1>1, <1>2, <1>3, <1>4

\* Two sequences with nothing in common make one without duplicates.
LEMMA InjectiveConcat ==
  ASSUME NEW S, NEW s \in Seq(S), NEW t \in Seq(S),
         IsInjective(s), IsInjective(t), ToSet(s) \cap ToSet(t) = {}
  PROVE  IsInjective(s \o t)
<1>1. /\ Len(s) \in Nat /\ Len(t) \in Nat /\ DOMAIN s = 1..Len(s) /\ DOMAIN t = 1..Len(t)
      /\ DOMAIN (s \o t) = 1..(Len(s) + Len(t))
      /\ \A i \in 1..Len(s) : (s \o t)[i] = s[i]
      /\ \A i \in (Len(s) + 1)..(Len(s) + Len(t)) : (s \o t)[i] = t[i - Len(s)]
  OBVIOUS
<1>2. \A i \in 1..Len(s), j \in 1..Len(t) : s[i] # t[j]
  BY <1>1 DEF ToSet
<1>3. SUFFICES ASSUME NEW i \in 1..(Len(s) + Len(t)), NEW j \in 1..(Len(s) + Len(t)),
                      (s \o t)[i] = (s \o t)[j]
               PROVE  i = j
  BY <1>1 DEF IsInjective
<1>4. CASE i <= Len(s) /\ j <= Len(s)
  <2>1. i \in 1..Len(s) /\ j \in 1..Len(s) /\ s[i] = s[j]
    BY <1>1, <1>3, <1>4
  <2> QED
    BY <1>1, <2>1 DEF IsInjective
<1>5. CASE i > Len(s) /\ j > Len(s)
  <2>1. i - Len(s) \in 1..Len(t) /\ j - Len(s) \in 1..Len(t) /\ t[i - Len(s)] = t[j - Len(s)]
    BY <1>1, <1>3, <1>5
  <2>2. i - Len(s) = j - Len(s)
    BY <1>1, <2>1 DEF IsInjective
  <2> QED
    BY <1>1, <2>2
<1>6. CASE i <= Len(s) /\ j > Len(s)
  <2>1. i \in 1..Len(s) /\ j - Len(s) \in 1..Len(t) /\ s[i] = t[j - Len(s)]
    BY <1>1, <1>3, <1>6
  <2> QED
    BY <1>2, <2>1
<1>7. CASE i > Len(s) /\ j <= Len(s)
  <2>1. j \in 1..Len(s) /\ i - Len(s) \in 1..Len(t) /\ s[j] = t[i - Len(s)]
    BY <1>1, <1>3, <1>7
  <2> QED
    BY <1>2, <2>1
<1> QED
  BY <1>1, <1>4, <1>5, <1>6, <1>7

\* A sequence but for its last element.
LEMMA FrontFacts ==
  ASSUME NEW S, NEW s \in Seq(S), Len(s) > 0
  PROVE  /\ Front(s) \in Seq(S) /\ Len(Front(s)) = Len(s) - 1
         /\ \A i \in 1..(Len(s) - 1) : Front(s)[i] = s[i]
<1>1. Len(s) \in Nat /\ Len(s) - 1 \in 0..Len(s) /\ DOMAIN s = 1..Len(s)
  OBVIOUS
<1>2. Front(s) = [i \in 1..(Len(s) - 1) |-> s[i]]
  BY <1>1 DEF Front
<1>3. \A i \in 1..(Len(s) - 1) : s[i] \in S
  BY <1>1
<1> QED
  BY <1>1, <1>2, <1>3

-----------------------------------------------------------------------------
(* The inductive invariant *)

\* The ids of the calls of a stack, and those of the calls but the first, ...
Callers(s) == {s[m].id : m \in 1..Len(s)}
Frames(s) == {s[m].id : m \in 2..Len(s)}

\* ... those that the walk has met and returned, ...
Found == ToSet(chain) \cup ToSet(missing)

\* ... and the records whose parents it goes, or has gone, through.
Leaders == IF Briefed THEN {Root} ELSE Callers(stack)

\* Each call but the first is about a parent that the one before it has passed, and
\* each call has met the parents of its record that are no longer to come.
CallsOK(s, met) ==
  /\ \A m \in 1..Len(s) :
       /\ ToSet(s[m].todo) \subseteq ToSet(parents[s[m].id])
       /\ ToSet(parents[s[m].id]) \subseteq met \cup ToSet(s[m].todo)
  /\ \A m \in 2..Len(s) : s[m].id \in ToSet(parents[s[m - 1].id])
  /\ \A m, n \in 2..Len(s) : s[m].id = s[n].id => m = n

StackInv ==
  /\ result = "reading" => stack = <<>> /\ chain = <<>> /\ missing = <<>> /\ visited = {}
  /\ result = "walking" => stack[1].id = Root
  /\ Briefed => stack = <<>> /\ ToSet(parents[Root]) \subseteq visited
  /\ CallsOK(stack, visited)

\* What was met is in one place of one of chain, missing and the stack.
OnceInv ==
  /\ IsInjective(chain) /\ IsInjective(missing)
  /\ ToSet(chain) \cap ToSet(missing) = {}
  /\ Frames(stack) \cap Found = {}
  /\ visited = Found \cup Frames(stack)

\* A record is in the chain only when all of its parents have been met.
ClosedInv == \A i \in ToSet(chain) : ToSet(parents[i]) \subseteq visited

\* What was found is a parent of a leader or of a later member of the chain.
LedInv ==
  /\ \A m \in 1..Len(chain) :
       \/ \E j \in Leaders : chain[m] \in ToSet(parents[j])
       \/ \E n \in (m + 1)..Len(chain) : chain[m] \in ToSet(parents[chain[n]])
  /\ \A i \in ToSet(missing) : \E j \in Leaders \cup ToSet(chain) : i \in ToSet(parents[j])

\* The numberings that show that there is no cycle.
Ages ==
  {age \in [Ids -> 1..Cardinality(Ids)] :
     \A i \in Ids : \A p \in ToSet(parents[i]) : age[p] < age[i]}

\* Without a cycle, ages go down along the stack, all that is in the chain is younger
\* in this sense than the record, and the parents of a member were found before it.
AgeInv ==
  \A age \in Ages :
    /\ \A m, n \in 1..Len(stack) : m < n => age[stack[n].id] < age[stack[m].id]
    /\ \A i \in ToSet(chain) : age[i] < age[Root]
    /\ \A n \in 1..Len(chain) : \A p \in ToSet(parents[chain[n]]) :
         p \in ToSet(missing) \/ \E m \in 1..(n - 1) : chain[m] = p

WalkInvariant == TypeOK /\ StackInv /\ OnceInv /\ ClosedInv /\ LedInv /\ AgeInv

-----------------------------------------------------------------------------

\* The stack of a running walk, and the call that runs.
LEMMA TopFacts ==
  ASSUME TypeOK, result = "walking"
  PROVE  /\ stack \in Seq(Frame) /\ Len(stack) \in Nat \ {0}
         /\ Top = stack[Len(stack)] /\ Top \in Frame
         /\ Top.id \in Ids /\ Top.todo \in Seq(Ids)
<1>1. stack \in Seq(Frame) /\ stack # <<>>
  BY DEF TypeOK, Frame
<1>2. Len(stack) \in Nat \ {0}
  BY <1>1
<1>3. Top \in Frame
  BY <1>1, <1>2 DEF Top
<1> QED
  BY <1>1, <1>2, <1>3 DEF Top, Frame

\* The call that runs goes on to its next parent.
LEMMA OnwardFacts ==
  ASSUME TypeOK, Walking
  PROVE  /\ Onward \in Seq(Frame) /\ Len(Onward) = Len(stack)
         /\ \A m \in 1..Len(stack) : Onward[m].id = stack[m].id
         /\ \A m \in 1..Len(stack) : m # Len(stack) => Onward[m] = stack[m]
         /\ Onward[Len(stack)].todo = Tail(Top.todo)
         /\ Parent \in Ids /\ ToSet(Top.todo) = {Parent} \cup ToSet(Tail(Top.todo))
<1>1. result = "walking" /\ Top.todo # <<>>
  BY DEF Walking
<1>2. /\ stack \in Seq(Frame) /\ Len(stack) \in Nat \ {0}
      /\ Top = stack[Len(stack)] /\ Top \in Frame
      /\ Top.id \in Ids /\ Top.todo \in Seq(Ids)
  BY <1>1, TopFacts
<1>3. Parent \in Ids /\ Tail(Top.todo) \in Seq(Ids)
      /\ ToSet(Top.todo) = {Parent} \cup ToSet(Tail(Top.todo))
  BY <1>1, <1>2, ToSetHead DEF Parent
<1> DEFINE next == [Top EXCEPT !.todo = Tail(Top.todo)]
<1>4. Onward = [stack EXCEPT ![Len(stack)] = next]
  BY <1>2 DEF Onward
<1>5. next \in Frame /\ next.id = Top.id /\ next.todo = Tail(Top.todo)
  BY <1>2, <1>3 DEF Frame
<1> HIDE DEF next
<1>6. Onward \in Seq(Frame) /\ Len(Onward) = Len(stack)
  BY <1>2, <1>4, <1>5
<1>7. Onward[Len(stack)] = next /\ \A m \in 1..Len(stack) : m # Len(stack) => Onward[m] = stack[m]
  BY <1>2, <1>4
<1>8. \A m \in 1..Len(stack) : Onward[m].id = stack[m].id
  BY <1>2, <1>5, <1>7
<1> QED
  BY <1>3, <1>5, <1>6, <1>7, <1>8

\* What the invariant says of the stack holds of the calls once one has gone on, if the
\* parent it was at is met.
LEMMA OnwardCalls ==
  ASSUME TypeOK, CallsOK(stack, visited), Walking, NEW met, visited \cup {Parent} \subseteq met
  PROVE  /\ CallsOK(Onward, met)
         /\ Callers(Onward) = Callers(stack) /\ Frames(Onward) = Frames(stack)
         /\ Parent \in ToSet(parents[Top.id]) /\ Top.id \in Callers(stack)
<1>1. /\ Len(stack) \in Nat \ {0} /\ Top = stack[Len(stack)]
  BY TopFacts DEF Walking
<1>2. /\ Len(Onward) = Len(stack)
      /\ \A m \in 1..Len(stack) : Onward[m].id = stack[m].id
      /\ \A m \in 1..Len(stack) : m # Len(stack) => Onward[m] = stack[m]
      /\ Onward[Len(stack)].todo = Tail(Top.todo)
      /\ ToSet(Top.todo) = {Parent} \cup ToSet(Tail(Top.todo))
  BY OnwardFacts
<1>3. Parent \in ToSet(parents[Top.id]) /\ Top.id \in Callers(stack)
  <2>1. Len(stack) \in 1..Len(stack)
    BY <1>1
  <2>2. ToSet(Top.todo) \subseteq ToSet(parents[Top.id])
    BY <1>1, <2>1 DEF CallsOK
  <2> QED
    BY <1>1, <1>2, <2>1, <2>2 DEF Callers
<1>4. Callers(Onward) = Callers(stack) /\ Frames(Onward) = Frames(stack)
  BY <1>1, <1>2 DEF Callers, Frames
<1>5. ASSUME NEW m \in 1..Len(stack)
      PROVE  /\ ToSet(Onward[m].todo) \subseteq ToSet(parents[Onward[m].id])
             /\ ToSet(parents[Onward[m].id]) \subseteq met \cup ToSet(Onward[m].todo)
  <2>1. /\ ToSet(stack[m].todo) \subseteq ToSet(parents[stack[m].id])
        /\ ToSet(parents[stack[m].id]) \subseteq visited \cup ToSet(stack[m].todo)
    BY DEF CallsOK
  <2>2. CASE m = Len(stack)
    BY <1>1, <1>2, <2>1, <2>2
  <2>3. CASE m # Len(stack)
    BY <1>1, <1>2, <2>1, <2>3
  <2> QED
    BY <2>2, <2>3
<1>6. ASSUME NEW m \in 2..Len(stack)
      PROVE  /\ Onward[m].id \in ToSet(parents[Onward[m - 1].id])
             /\ \A n \in 2..Len(stack) : Onward[m].id = Onward[n].id => m = n
  <2>1. m \in 1..Len(stack) /\ m - 1 \in 1..Len(stack) /\ 2..Len(stack) \subseteq 1..Len(stack)
    BY <1>1
  <2> QED
    BY <1>2, <2>1 DEF CallsOK
<1> QED
  BY <1>2, <1>3, <1>4, <1>5, <1>6 DEF CallsOK

-----------------------------------------------------------------------------
(* Types *)

\* Before the record is read, each variable has its type.
LEMMA TypeInit == Init => TypeOK
<1> SUFFICES ASSUME Init PROVE TypeOK
  OBVIOUS
<1>1. parents \in [Ids -> Seq(Ids)]
  <2>1. ParentLists \subseteq Seq(Ids)
    BY LineageAssumption DEF ParentLists
  <2> QED
    BY <2>1 DEF Init
<1> QED
  BY <1>1 DEF Init, TypeOK, Results

\* Each step of the command and of the seals keeps the types.
LEMMA TypeStep == TypeOK /\ [Next]_vars => TypeOK'
<1> SUFFICES ASSUME TypeOK, [Next]_vars PROVE TypeOK'
  OBVIOUS
<1>1. CASE Refuses
  <2>1. result' \in Results /\ result' # "walking"
    BY <1>1, LineageAssumption DEF Refuses, TypeOK, FileStates, Results
  <2> QED
    BY <1>1, <2>1 DEF Refuses, TypeOK
<1>2. CASE Begins
  <2>1. [id |-> Root, todo |-> parents[Root]] \in [id : Ids, todo : Seq(Ids)]
    BY LineageAssumption DEF TypeOK
  <2>2. stack' \in Seq([id : Ids, todo : Seq(Ids)]) /\ stack' # <<>>
    BY <1>2, <2>1 DEF Begins
  <2> QED
    BY <1>2, <2>2 DEF Begins, TypeOK, Results
<1>3. ASSUME Walking
      PROVE  /\ Onward \in Seq([id : Ids, todo : Seq(Ids)]) /\ Onward # <<>>
             /\ Parent \in Ids /\ Len(stack) \in Nat \ {0}
  BY <1>3, OnwardFacts, TopFacts DEF Walking, Frame
<1>4. CASE Skips
  BY <1>3, <1>4 DEF Skips, TypeOK
<1>5. CASE FindsNone
  BY <1>3, <1>5 DEF FindsNone, TypeOK
<1>6. CASE Descends
  <2>1. [id |-> Parent, todo |-> parents[Parent]] \in [id : Ids, todo : Seq(Ids)]
    BY <1>3, <1>6 DEF Descends, TypeOK
  <2>2. stack' \in Seq([id : Ids, todo : Seq(Ids)]) /\ stack' # <<>>
    BY <1>3, <1>6, <2>1 DEF Descends
  <2> QED
    BY <1>3, <1>6, <2>2 DEF Descends, TypeOK
<1>7. CASE Trips \/ Overflows
  BY <1>7 DEF Trips, Overflows, TypeOK, Results
<1>8. CASE Returns
  <2>1. /\ stack \in Seq(Frame) /\ Len(stack) \in Nat /\ Len(stack) > 1 /\ Top.id \in Ids
    BY <1>8, TopFacts DEF Returns
  <2>2. stack' \in Seq([id : Ids, todo : Seq(Ids)]) /\ Len(stack') > 0
    BY <1>8, <2>1, FrontFacts DEF Returns, Frame
  <2> QED
    BY <1>8, <2>1, <2>2 DEF Returns, TypeOK
<1>9. CASE Concludes
  BY <1>9 DEF Concludes, TypeOK, Results
<1>10. ASSUME NEW i \in Ids, SealStep(i) PROVE TypeOK'
  BY <1>10 DEF SealStep, TypeOK, FileStates
<1>11. CASE UNCHANGED vars
  BY <1>11 DEF TypeOK
<1> QED
  BY <1>1, <1>2, <1>4, <1>5, <1>6, <1>7, <1>8, <1>9, <1>10, <1>11 DEF Next, BridgeStep, Walks

-----------------------------------------------------------------------------
(* Calls made and returned *)

\* A call about a parent that no call is about yet.
LEMMA CallsPush ==
  ASSUME NEW s \in Seq(Frame), Len(s) > 0, NEW met, CallsOK(s, met),
         NEW new \in Frame, new.todo = parents[new.id],
         new.id \in ToSet(parents[s[Len(s)].id]), new.id \notin Frames(s)
  PROVE  /\ CallsOK(Append(s, new), met)
         /\ Callers(Append(s, new)) = Callers(s) \cup {new.id}
         /\ Frames(Append(s, new)) = Frames(s) \cup {new.id}
<1> DEFINE t == Append(s, new)
<1>1. /\ Len(s) \in Nat \ {0} /\ Len(t) = Len(s) + 1 /\ t[Len(s) + 1] = new
      /\ \A m \in 1..Len(s) : t[m] = s[m]
  OBVIOUS
<1> HIDE DEF t
<1>2. Callers(t) = Callers(s) \cup {new.id} /\ Frames(t) = Frames(s) \cup {new.id}
  BY <1>1 DEF Callers, Frames
<1>3. ASSUME NEW m \in 1..Len(t)
      PROVE  /\ ToSet(t[m].todo) \subseteq ToSet(parents[t[m].id])
             /\ ToSet(parents[t[m].id]) \subseteq met \cup ToSet(t[m].todo)
  <2>1. CASE m = Len(t)
    BY <1>1, <2>1
  <2>2. CASE m # Len(t)
    <3>1. m \in 1..Len(s) /\ t[m] = s[m]
      BY <1>1, <2>2
    <3> QED
      BY <3>1 DEF CallsOK
  <2> QED
    BY <2>1, <2>2
<1>4. ASSUME NEW m \in 2..Len(t)
      PROVE  t[m].id \in ToSet(parents[t[m - 1].id])
  <2>1. CASE m = Len(t)
    <3>1. m - 1 = Len(s) /\ Len(s) \in 1..Len(s)
      BY <1>1, <2>1
    <3> QED
      BY <1>1, <2>1, <3>1
  <2>2. CASE m # Len(t)
    <3>1. m \in 2..Len(s) /\ m \in 1..Len(s) /\ m - 1 \in 1..Len(s)
      BY <1>1, <2>2
    <3> QED
      BY <1>1, <3>1 DEF CallsOK
  <2> QED
    BY <2>1, <2>2
<1>5. ASSUME NEW m \in 2..Len(t), NEW n \in 2..Len(t), t[m].id = t[n].id
      PROVE  m = n
  <2>1. \A k \in 2..Len(t) : k # Len(t) => k \in 2..Len(s) /\ t[k] = s[k] /\ s[k].id # new.id
    BY <1>1 DEF Frames
  <2>2. CASE m # Len(t) /\ n # Len(t)
    BY <1>5, <2>1, <2>2 DEF CallsOK
  <2>3. CASE m = Len(t) \/ n = Len(t)
    BY <1>1, <1>5, <2>1, <2>3
  <2> QED
    BY <2>2, <2>3
<1> QED
  BY <1>2, <1>3, <1>4, <1>5 DEF CallsOK, t

\* The last call of several returns.
LEMMA CallsPop ==
  ASSUME NEW s \in Seq(Frame), Len(s) > 1, NEW met, CallsOK(s, met)
  PROVE  /\ CallsOK(Front(s), met)
         /\ Callers(s) = Callers(Front(s)) \cup {s[Len(s)].id}
         /\ Frames(s) = Frames(Front(s)) \cup {s[Len(s)].id}
         /\ s[Len(s)].id \notin Frames(Front(s))
         /\ \E j \in Callers(Front(s)) : s[Len(s)].id \in ToSet(parents[j])
<1>1. /\ Len(s) \in Nat /\ Len(Front(s)) = Len(s) - 1
      /\ \A m \in 1..(Len(s) - 1) : Front(s)[m] = s[m]
  <2>1. Len(s) \in Nat
    OBVIOUS
  <2>2. Len(s) > 0
    BY <2>1
  <2> QED
    BY <2>1, <2>2, FrontFacts
<1>2. /\ Callers(s) = Callers(Front(s)) \cup {s[Len(s)].id}
      /\ Frames(s) = Frames(Front(s)) \cup {s[Len(s)].id}
  BY <1>1 DEF Callers, Frames
<1>3. s[Len(s)].id \notin Frames(Front(s))
  <2>1. ASSUME NEW m \in 2..(Len(s) - 1) PROVE s[m].id # s[Len(s)].id
    <3>1. m \in 2..Len(s) /\ Len(s) \in 2..Len(s) /\ m # Len(s)
      BY <1>1
    <3> QED
      BY <3>1 DEF CallsOK
  <2> QED
    BY <1>1, <2>1 DEF Frames
<1>4. \E j \in Callers(Front(s)) : s[Len(s)].id \in ToSet(parents[j])
  <2>1. Len(s) \in 2..Len(s) /\ Len(s) - 1 \in 1..(Len(s) - 1)
    BY <1>1
  <2>2. s[Len(s)].id \in ToSet(parents[s[Len(s) - 1].id])
    BY <2>1 DEF CallsOK
  <2>3. s[Len(s) - 1].id \in Callers(Front(s))
    BY <1>1, <2>1 DEF Callers
  <2> QED
    BY <2>2, <2>3
<1>5. CallsOK(Front(s), met)
  <2>1. \A m \in 1..(Len(s) - 1) : m \in 1..Len(s)
    BY <1>1
  <2>2. \A m \in 2..(Len(s) - 1) : m \in 2..Len(s) /\ m \in 1..(Len(s) - 1) /\ m - 1 \in 1..(Len(s) - 1)
    BY <1>1
  <2> QED
    BY <1>1, <2>1, <2>2, ZenonT(60) DEF CallsOK
<1> QED
  BY <1>2, <1>3, <1>4, <1>5

-----------------------------------------------------------------------------
(* The invariant, step by step *)

\* Before the record is read, nothing has been met.
LEMMA WalkInit == Init => WalkInvariant
<1> SUFFICES ASSUME Init PROVE WalkInvariant
  OBVIOUS
<1>1. TypeOK
  BY TypeInit
<1>2. ToSet(<<>>) = {} /\ Frames(<<>>) = {} /\ IsInjective(<<>>)
  BY DEF ToSet, Frames, IsInjective
<1>3. ~Briefed /\ stack = <<>> /\ chain = <<>> /\ missing = <<>> /\ visited = {} /\ result = "reading"
  BY DEF Init, Briefed
<1>4. StackInv
  BY <1>3 DEF StackInv, CallsOK
<1>5. OnceInv
  BY <1>2, <1>3 DEF OnceInv, Found
<1>6. ClosedInv /\ LedInv /\ AgeInv
  BY <1>2, <1>3 DEF ClosedInv, LedInv, AgeInv
<1> QED
  BY <1>1, <1>4, <1>5, <1>6 DEF WalkInvariant

\* A step that leaves the walk alone, and at most ends the command without a briefing.
LEMMA WalkStill ==
  ASSUME WalkInvariant, TypeOK', UNCHANGED <<parents, walkVars>>,
         \/ result' = result
         \/ ~Briefed /\ result' \notin {"reading", "walking", "SUCCESS", "DEGRADED"}
  PROVE  WalkInvariant'
<1>1. /\ Leaders' = Leaders /\ Found' = Found /\ Ages' = Ages
      /\ Briefed' => Briefed
  BY DEF Leaders, Found, Ages, Briefed
<1>2. StackInv'
  BY DEF WalkInvariant, StackInv, Briefed, CallsOK
<1>3. OnceInv'
  BY <1>1 DEF WalkInvariant, OnceInv
<1>4. ClosedInv'
  BY DEF WalkInvariant, ClosedInv
<1>5. LedInv'
  BY <1>1 DEF WalkInvariant, LedInv
<1>6. AgeInv'
  BY <1>1 DEF WalkInvariant, AgeInv
<1> QED
  BY <1>2, <1>3, <1>4, <1>5, <1>6 DEF WalkInvariant

\* The first call is about the record itself.
LEMMA WalkBegins ==
  ASSUME WalkInvariant, TypeOK', Begins
  PROVE  WalkInvariant'
<1>1. /\ stack' = <<[id |-> Root, todo |-> parents[Root]]>> /\ parents' = parents
      /\ chain' = <<>> /\ missing' = <<>> /\ visited' = {} /\ result' = "walking"
  BY DEF WalkInvariant, StackInv, Begins
<1>2. ToSet(<<>>) = {} /\ IsInjective(<<>>)
  BY DEF ToSet, IsInjective
<1>3. Len(stack') = 1 /\ stack'[1].id = Root /\ stack'[1].todo = parents[Root]
  BY <1>1
<1>4. StackInv'
  BY <1>1, <1>3 DEF StackInv, CallsOK, Briefed
<1>5. OnceInv'
  BY <1>1, <1>2, <1>3 DEF OnceInv, Frames, Found
<1>6. ClosedInv' /\ LedInv'
  BY <1>1, <1>2 DEF ClosedInv, LedInv
<1>7. AgeInv'
  BY <1>1, <1>2, <1>3 DEF AgeInv
<1> QED
  BY <1>4, <1>5, <1>6, <1>7 DEF WalkInvariant

\* The cycle guard: a parent that was met is accounted for already.
LEMMA WalkSkips ==
  ASSUME WalkInvariant, TypeOK', Skips
  PROVE  WalkInvariant'
<1>1. /\ Walking /\ Parent \in visited /\ stack' = Onward
      /\ UNCHANGED <<parents, visited, chain, missing, result>>
      /\ TypeOK /\ StackInv /\ OnceInv /\ ClosedInv /\ LedInv /\ AgeInv /\ result = "walking"
  BY DEF WalkInvariant, Skips, Walking
<1>2. /\ CallsOK(Onward, visited)
      /\ Callers(Onward) = Callers(stack) /\ Frames(Onward) = Frames(stack)
      /\ Len(Onward) = Len(stack) /\ Len(stack) \in Nat \ {0}
      /\ \A m \in 1..Len(stack) : Onward[m].id = stack[m].id
  BY <1>1, OnwardCalls, OnwardFacts, TopFacts DEF StackInv
<1>3. Leaders' = Leaders /\ Found' = Found /\ Ages' = Ages /\ ~Briefed /\ ~Briefed'
  BY <1>1, <1>2 DEF Leaders, Found, Ages, Briefed
<1>4. StackInv'
  <2>1. CallsOK(stack, visited)'
    BY <1>1, <1>2 DEF CallsOK
  <2>2. stack'[1].id = Root
    BY <1>1, <1>2 DEF StackInv
  <2> QED
    BY <1>1, <1>3, <2>1, <2>2 DEF StackInv
<1>5. OnceInv'
  BY <1>1, <1>2, <1>3 DEF OnceInv
<1>6. ClosedInv' /\ LedInv'
  BY <1>1, <1>3 DEF ClosedInv, LedInv
<1>7. AgeInv'
  BY <1>1, <1>2, <1>3 DEF AgeInv
<1> QED
  BY <1>4, <1>5, <1>6, <1>7 DEF WalkInvariant

\* A parent without a record goes into missing, where nothing else led.
LEMMA WalkFindsNone ==
  ASSUME WalkInvariant, TypeOK', FindsNone
  PROVE  WalkInvariant'
<1>1. /\ Walking /\ Parent \notin visited /\ stack' = Onward
      /\ visited' = visited \cup {Parent} /\ missing' = Append(missing, Parent)
      /\ UNCHANGED <<parents, chain, result>>
      /\ TypeOK /\ StackInv /\ OnceInv /\ ClosedInv /\ LedInv /\ AgeInv /\ result = "walking"
  BY DEF WalkInvariant, FindsNone, Walking
<1>2. /\ CallsOK(Onward, visited \cup {Parent})
      /\ Callers(Onward) = Callers(stack) /\ Frames(Onward) = Frames(stack)
      /\ Parent \in ToSet(parents[Top.id]) /\ Top.id \in Callers(stack)
      /\ Len(Onward) = Len(stack) /\ Len(stack) \in Nat \ {0} /\ Parent \in Ids
      /\ \A m \in 1..Len(stack) : Onward[m].id = stack[m].id
  BY <1>1, OnwardCalls, OnwardFacts, TopFacts DEF StackInv
<1>3. /\ Leaders = Callers(stack) /\ Leaders' = Leaders /\ Ages' = Ages
      /\ ~Briefed /\ ~Briefed'
  BY <1>1, <1>2 DEF Leaders, Ages, Briefed
<1>4. /\ ToSet(missing') = ToSet(missing) \cup {Parent}
      /\ Found' = Found \cup {Parent} /\ Parent \notin Found /\ Parent \notin Frames(stack)
  <2>1. missing \in Seq(Ids)
    BY <1>1 DEF TypeOK
  <2>2. ToSet(missing') = ToSet(missing) \cup {Parent}
    BY <1>1, <1>2, <2>1, ToSetAppend
  <2> QED
    BY <1>1, <2>2 DEF Found, OnceInv
<1>5. StackInv'
  <2>1. CallsOK(stack, visited)'
    BY <1>1, <1>2 DEF CallsOK
  <2>2. stack'[1].id = Root
    BY <1>1, <1>2 DEF StackInv
  <2> QED
    BY <1>1, <1>3, <2>1, <2>2 DEF StackInv
<1>6. OnceInv'
  <2>1. IsInjective(missing')
    <3>1. missing \in Seq(Ids) /\ IsInjective(missing) /\ Parent \notin ToSet(missing)
      BY <1>1, <1>4 DEF TypeOK, OnceInv, Found
    <3> QED
      BY <1>1, <1>2, <3>1, InjectiveAppend
  <2>2. ToSet(chain') \cap ToSet(missing') = {}
    BY <1>1, <1>4 DEF OnceInv, Found
  <2> QED
    BY <1>1, <1>2, <1>4, <2>1, <2>2 DEF OnceInv
<1>7. ClosedInv'
  BY <1>1 DEF ClosedInv
<1>8. LedInv'
  BY <1>1, <1>2, <1>3, <1>4 DEF LedInv
<1>9. AgeInv'
  <2> SUFFICES ASSUME NEW age \in Ages
               PROVE  /\ \A m, n \in 1..Len(stack) : m < n => age[Onward[n].id] < age[Onward[m].id]
                      /\ \A n \in 1..Len(chain) : \A p \in ToSet(parents[chain[n]]) :
                           p \in ToSet(missing') \/ \E m \in 1..(n - 1) : chain[m] = p
    BY <1>1, <1>2, <1>3 DEF AgeInv
  <2>1. \A m, n \in 1..Len(stack) : m < n => age[Onward[n].id] < age[Onward[m].id]
    BY <1>1, <1>2 DEF AgeInv
  <2> QED
    BY <1>1, <1>4, <2>1 DEF AgeInv
<1> QED
  BY <1>5, <1>6, <1>7, <1>8, <1>9 DEF WalkInvariant

\* A parent with one gets a call of its own.
LEMMA WalkDescends ==
  ASSUME WalkInvariant, TypeOK', Descends
  PROVE  WalkInvariant'
<1> DEFINE new == [id |-> Parent, todo |-> parents[Parent]]
<1>1. /\ Walking /\ Parent \notin visited /\ stack' = Append(Onward, new)
      /\ visited' = visited \cup {Parent}
      /\ UNCHANGED <<parents, chain, missing, result>>
      /\ TypeOK /\ StackInv /\ OnceInv /\ ClosedInv /\ LedInv /\ AgeInv /\ result = "walking"
  BY DEF WalkInvariant, Descends, Walking
<1>2. /\ CallsOK(Onward, visited \cup {Parent})
      /\ Callers(Onward) = Callers(stack) /\ Frames(Onward) = Frames(stack)
      /\ Parent \in ToSet(parents[Top.id]) /\ Top.id \in Callers(stack)
      /\ Onward \in Seq(Frame) /\ Len(Onward) = Len(stack) /\ Len(stack) \in Nat \ {0}
      /\ Parent \in Ids /\ Top.id \in Ids /\ Top = stack[Len(stack)]
      /\ \A m \in 1..Len(stack) : Onward[m].id = stack[m].id
  BY <1>1, OnwardCalls, OnwardFacts, TopFacts DEF StackInv
<1>3. Parent \notin Found /\ Parent \notin Frames(stack)
  BY <1>1 DEF OnceInv
<1>4. new \in Frame /\ new.id = Parent /\ new.todo = parents[new.id]
  BY <1>1, <1>2 DEF TypeOK, Frame
<1> HIDE DEF new
<1>5. /\ CallsOK(stack', visited') /\ Callers(stack') = Callers(stack) \cup {Parent}
      /\ Frames(stack') = Frames(stack) \cup {Parent}
  <2>1. Len(Onward) > 0 /\ Len(stack) \in 1..Len(stack)
    BY <1>2
  <2>2. new.id \in ToSet(parents[Onward[Len(Onward)].id]) /\ new.id \notin Frames(Onward)
    BY <1>2, <1>3, <1>4, <2>1
  <2> QED
    BY <1>1, <1>2, <1>4, <2>1, <2>2, CallsPush
<1>6. /\ Len(stack') = Len(stack) + 1 /\ stack'[Len(stack) + 1].id = Parent
      /\ \A m \in 1..Len(stack) : stack'[m].id = stack[m].id
  BY <1>1, <1>2, <1>4
<1>7. /\ Leaders = Callers(stack) /\ Leaders' = Callers(stack') /\ Ages' = Ages
      /\ ~Briefed /\ ~Briefed' /\ Found' = Found
  BY <1>1, <1>2 DEF Leaders, Ages, Briefed, Found
<1>8. StackInv'
  <2>1. CallsOK(stack, visited)'
    BY <1>1, <1>5 DEF CallsOK
  <2>2. stack'[1].id = Root
    BY <1>1, <1>2, <1>6 DEF StackInv
  <2> QED
    BY <1>1, <1>7, <2>1, <2>2 DEF StackInv
<1>9. OnceInv'
  BY <1>1, <1>3, <1>5, <1>7 DEF OnceInv
<1>10. ClosedInv'
  BY <1>1 DEF ClosedInv
<1>11. LedInv'
  BY <1>1, <1>5, <1>7 DEF LedInv
<1>12. AgeInv'
  <2> SUFFICES ASSUME NEW age \in Ages
               PROVE  \A m, n \in 1..Len(stack') : m < n => age[stack'[n].id] < age[stack'[m].id]
    BY <1>1, <1>7 DEF AgeInv
  <2> SUFFICES ASSUME NEW m \in 1..Len(stack'), NEW n \in 1..Len(stack'), m < n
               PROVE  age[stack'[n].id] < age[stack'[m].id]
    OBVIOUS
  <2>1. \A k, l \in 1..Len(stack) : k < l => age[stack[l].id] < age[stack[k].id]
    BY <1>1 DEF AgeInv
  <2>2. m \in 1..Len(stack)
    BY <1>2, <1>6
  <2>3. CASE n \in 1..Len(stack)
    BY <1>6, <2>1, <2>2, <2>3
  <2>4. CASE n = Len(stack) + 1
    <3>1. age[Parent] < age[Top.id]
      BY <1>1, <1>2 DEF Ages, TypeOK
    <3>2. /\ Len(stack) \in 1..Len(stack)
          /\ age[Parent] \in Nat /\ age[Top.id] \in Nat /\ age[stack[m].id] \in Nat
      <4>1. stack \in Seq(Frame)
        BY <1>1, TopFacts
      <4>2. stack[m] \in Frame
        BY <2>2, <4>1
      <4>3. Cardinality(Ids) \in Nat
        BY LineageAssumption, FS_CardinalityType
      <4>4. \A i \in Ids : age[i] \in Nat
        <5> SUFFICES ASSUME NEW i \in Ids PROVE age[i] \in Nat
          OBVIOUS
        <5>1. age \in [Ids -> 1..Cardinality(Ids)]
          BY DEF Ages
        <5> QED
          BY <4>3, <5>1
      <4>5. Parent \in Ids /\ Top.id \in Ids /\ stack[m].id \in Ids
        BY <1>2, <4>2 DEF Frame
      <4>6. Len(stack) \in 1..Len(stack)
        BY <1>2
      <4> QED
        BY <4>4, <4>5, <4>6
    <3>3. m = Len(stack) \/ age[Top.id] < age[stack[m].id]
      BY <1>2, <2>1, <2>2, <3>2
    <3> QED
      BY <1>2, <1>6, <2>2, <2>4, <3>1, <3>2, <3>3
  <2>5. n \in 1..Len(stack) \/ n = Len(stack) + 1
    BY <1>2, <1>6, SMTT(30)
  <2> QED
    BY <2>3, <2>4, <2>5
<1> QED
  BY <1>8, <1>9, <1>10, <1>11, <1>12 DEF WalkInvariant

\* The call returned is that of a record all of whose parents were met; without a
\* cycle none of them is on the stack, so that all were found before.
LEMMA WalkReturns ==
  ASSUME WalkInvariant, TypeOK', Returns
  PROVE  WalkInvariant'
<1>1. /\ Top.todo = <<>> /\ Len(stack) > 1 /\ stack' = Front(stack)
      /\ chain' = Append(chain, Top.id)
      /\ UNCHANGED <<parents, visited, missing, result>>
      /\ TypeOK /\ StackInv /\ OnceInv /\ ClosedInv /\ LedInv /\ AgeInv /\ result = "walking"
  BY DEF WalkInvariant, Returns
<1>2. /\ stack \in Seq(Frame) /\ Len(stack) \in Nat \ {0}
      /\ Top = stack[Len(stack)] /\ Top.id \in Ids
  BY <1>1, TopFacts
<1>3. /\ CallsOK(stack', visited)
      /\ Callers(stack) = Callers(stack') \cup {Top.id}
      /\ Frames(stack) = Frames(stack') \cup {Top.id} /\ Top.id \notin Frames(stack')
      /\ \E j \in Callers(stack') : Top.id \in ToSet(parents[j])
  BY <1>1, <1>2, CallsPop DEF StackInv
<1>4. /\ Len(stack') = Len(stack) - 1
      /\ \A m \in 1..(Len(stack) - 1) : stack'[m] = stack[m]
  <2>1. Len(stack) > 0
    BY <1>2
  <2> QED
    BY <1>1, <1>2, <2>1, FrontFacts
<1>5. /\ chain \in Seq(Ids) /\ Len(chain) \in Nat
      /\ Len(chain') = Len(chain) + 1 /\ chain'[Len(chain) + 1] = Top.id
      /\ \A m \in 1..Len(chain) : chain'[m] = chain[m]
  <2>1. chain \in Seq(Ids) /\ chain' = Append(chain, Top.id) /\ Top.id \in Ids
    BY <1>1, <1>2 DEF TypeOK
  <2> QED
    BY <2>1
<1>6. /\ ToSet(chain') = ToSet(chain) \cup {Top.id}
      /\ Found' = Found \cup {Top.id} /\ Top.id \notin Found
  <2>1. ToSet(chain') = ToSet(chain) \cup {Top.id}
    BY <1>1, <1>2, <1>5, ToSetAppend
  <2> QED
    BY <1>1, <1>3, <2>1 DEF Found, OnceInv
<1>7. /\ Leaders = Callers(stack) /\ Leaders' = Callers(stack') /\ Ages' = Ages
      /\ ~Briefed /\ ~Briefed'
  BY <1>1 DEF Leaders, Ages, Briefed
<1>8. ToSet(parents[Top.id]) \subseteq visited
  <2>1. Len(stack) \in 1..Len(stack) /\ ToSet(<<>>) = {}
    BY <1>2 DEF ToSet
  <2>2. ToSet(parents[Top.id]) \subseteq visited \cup ToSet(Top.todo)
    BY <1>1, <1>2, <2>1 DEF StackInv, CallsOK
  <2> QED
    BY <1>1, <2>1, <2>2
<1>9. StackInv'
  <2>1. CallsOK(stack, visited)'
    BY <1>1, <1>3 DEF CallsOK
  <2>2. 1 \in 1..(Len(stack) - 1)
    BY <1>1, <1>2
  <2>3. stack'[1].id = Root
    BY <1>1, <1>4, <2>2 DEF StackInv
  <2> QED
    BY <1>1, <1>7, <2>1, <2>3 DEF StackInv
<1>10. OnceInv'
  <2>1. IsInjective(chain')
    BY <1>1, <1>2, <1>5, <1>6, InjectiveAppend DEF OnceInv, Found
  <2> QED
    BY <1>1, <1>3, <1>6, <2>1 DEF OnceInv, Found
<1>11. ClosedInv'
  BY <1>1, <1>6, <1>8 DEF ClosedInv
<1>12. LedInv'
  <2>1. ASSUME NEW m \in 1..Len(chain')
        PROVE  \/ \E j \in Callers(stack') : chain'[m] \in ToSet(parents[j])
               \/ \E n \in (m + 1)..Len(chain') : chain'[m] \in ToSet(parents[chain'[n]])
    <3>1. CASE m = Len(chain')
      BY <1>3, <1>5, <3>1
    <3>2. CASE m # Len(chain')
      <4>1. m \in 1..Len(chain) /\ chain'[m] = chain[m] /\ Len(chain) + 1 \in (m + 1)..Len(chain')
        BY <1>5, <3>2
      <4>2. CASE \E j \in Callers(stack) : chain[m] \in ToSet(parents[j])
        BY <1>3, <1>5, <4>1, <4>2
      <4>3. CASE \E n \in (m + 1)..Len(chain) : chain[m] \in ToSet(parents[chain[n]])
        <5>1. PICK n \in (m + 1)..Len(chain) : chain[m] \in ToSet(parents[chain[n]])
          BY <4>3
        <5>2. n \in (m + 1)..Len(chain') /\ chain'[n] = chain[n]
          BY <1>5, <4>1, <5>1
        <5> QED
          BY <4>1, <5>1, <5>2
      <4> QED
        BY <1>1, <1>7, <4>1, <4>2, <4>3 DEF LedInv
    <3> QED
      BY <3>1, <3>2
  <2>2. \A i \in ToSet(missing) : \E j \in Callers(stack') \cup ToSet(chain') : i \in ToSet(parents[j])
    BY <1>1, <1>3, <1>6, <1>7 DEF LedInv
  <2> QED
    BY <1>1, <1>7, <2>1, <2>2 DEF LedInv
<1>13. AgeInv'
  <2> SUFFICES ASSUME NEW age \in Ages
               PROVE  /\ \A m, n \in 1..Len(stack') : m < n => age[stack'[n].id] < age[stack'[m].id]
                      /\ \A i \in ToSet(chain') : age[i] < age[Root]
                      /\ \A n \in 1..Len(chain') : \A p \in ToSet(parents[chain'[n]]) :
                           p \in ToSet(missing) \/ \E m \in 1..(n - 1) : chain'[m] = p
    BY <1>1, <1>7 DEF AgeInv
  <2>1. /\ \A m, n \in 1..Len(stack) : m < n => age[stack[n].id] < age[stack[m].id]
        /\ \A i \in ToSet(chain) : age[i] < age[Root]
        /\ \A n \in 1..Len(chain) : \A p \in ToSet(parents[chain[n]]) :
             p \in ToSet(missing) \/ \E m \in 1..(n - 1) : chain[m] = p
    BY <1>1 DEF AgeInv
  <2>2. \A m, n \in 1..Len(stack') : m < n => age[stack'[n].id] < age[stack'[m].id]
    <3>1. \A m \in 1..Len(stack') : m \in 1..Len(stack) /\ stack'[m] = stack[m]
      BY <1>2, <1>4
    <3> QED
      BY <2>1, <3>1
  <2>3. age[Top.id] < age[Root]
    <3>1. 1 \in 1..Len(stack) /\ Len(stack) \in 1..Len(stack) /\ stack[1].id = Root
      BY <1>1, <1>2 DEF StackInv
    <3> QED
      BY <1>1, <1>2, <2>1, <3>1
  <2>4. \A i \in ToSet(chain') : age[i] < age[Root]
    BY <1>6, <2>1, <2>3
  <2>5. ToSet(parents[Top.id]) \cap Frames(stack) = {}
    <3> SUFFICES ASSUME NEW m \in 2..Len(stack), stack[m].id \in ToSet(parents[Top.id])
                 PROVE  FALSE
      BY DEF Frames
    <3>1. m \in 1..Len(stack) /\ Len(stack) \in 1..Len(stack)
      BY <1>2
    <3>2. stack[m] \in Frame
      BY <1>2, <3>1
    <3>3. Cardinality(Ids) \in Nat
      BY LineageAssumption, FS_CardinalityType
    <3>4. age[stack[m].id] < age[Top.id] /\ age[stack[m].id] \in Nat /\ age[Top.id] \in Nat
      BY <1>2, <3>2, <3>3 DEF Ages, Frame
    <3>5. m = Len(stack) \/ age[Top.id] < age[stack[m].id]
      BY <1>2, <2>1, <3>1
    <3> QED
      BY <1>2, <3>4, <3>5
  <2>6. ASSUME NEW n \in 1..Len(chain'), NEW p \in ToSet(parents[chain'[n]])
        PROVE  p \in ToSet(missing) \/ \E m \in 1..(n - 1) : chain'[m] = p
    <3>1. CASE n = Len(chain')
      <4>1. p \in ToSet(missing) \/ p \in ToSet(chain)
        BY <1>1, <1>5, <1>8, <2>5, <3>1 DEF OnceInv, Found
      <4>2. ASSUME p \in ToSet(chain) PROVE \E m \in 1..(n - 1) : chain'[m] = p
        <5>1. PICK m \in 1..Len(chain) : chain[m] = p
          BY <1>5, <4>2 DEF ToSet
        <5>2. m \in 1..(n - 1) /\ chain'[m] = p
          BY <1>5, <3>1, <5>1
        <5> QED
          BY <5>2
      <4> QED
        BY <4>1, <4>2
    <3>2. CASE n # Len(chain')
      <4>1. n \in 1..Len(chain) /\ chain'[n] = chain[n]
            /\ \A m \in 1..(n - 1) : chain'[m] = chain[m]
        BY <1>5, <3>2
      <4>2. p \in ToSet(parents[chain[n]])
        BY <4>1
      <4>3. p \in ToSet(missing) \/ \E m \in 1..(n - 1) : chain[m] = p
        BY <2>1, <4>1, <4>2
      <4> QED
        BY <4>1, <4>3
    <3> QED
      BY <3>1, <3>2
  <2> QED
    BY <2>2, <2>4, <2>6
<1> QED
  BY <1>9, <1>10, <1>11, <1>12, <1>13 DEF WalkInvariant

\* The first call returns: what was met is all in chain or missing.
LEMMA WalkConcludes ==
  ASSUME WalkInvariant, TypeOK', Concludes
  PROVE  WalkInvariant'
<1>1. /\ Top.todo = <<>> /\ Len(stack) = 1 /\ stack' = <<>>
      /\ UNCHANGED <<parents, visited, chain, missing>>
      /\ TypeOK /\ StackInv /\ OnceInv /\ ClosedInv /\ LedInv /\ AgeInv
      /\ result = "walking" /\ result' \in {"SUCCESS", "DEGRADED"}
  BY DEF WalkInvariant, Concludes
<1>2. Top = stack[1] /\ stack[1].id = Root
  BY <1>1 DEF Top, StackInv
<1>3. ToSet(parents[Root]) \subseteq visited
  <2>1. ToSet(parents[Root]) \subseteq visited \cup ToSet(Top.todo)
    BY <1>1, <1>2 DEF StackInv, CallsOK
  <2> QED
    BY <1>1, <2>1 DEF ToSet
<1>4. /\ Leaders = {Root} /\ Leaders' = {Root} /\ Found' = Found /\ Ages' = Ages
      /\ Briefed' /\ Frames(stack) = {} /\ Frames(stack') = {}
  BY <1>1, <1>2 DEF Leaders, Callers, Frames, Found, Ages, Briefed
<1>5. StackInv'
  BY <1>1, <1>3, <1>4 DEF StackInv, CallsOK
<1>6. OnceInv'
  BY <1>1, <1>4 DEF OnceInv
<1>7. ClosedInv' /\ LedInv'
  BY <1>1, <1>4 DEF ClosedInv, LedInv
<1>8. AgeInv'
  BY <1>1, <1>4 DEF AgeInv
<1> QED
  BY <1>5, <1>6, <1>7, <1>8 DEF WalkInvariant

\* Each step of the command and of the seals keeps the invariant.
LEMMA WalkStep == WalkInvariant /\ [Next]_vars => WalkInvariant'
<1> SUFFICES ASSUME WalkInvariant, [Next]_vars PROVE WalkInvariant'
  OBVIOUS
<1> TypeOK'
  BY TypeStep DEF WalkInvariant
<1>1. CASE Refuses
  <2>1. result' \in {"traceback", "error", "FAILED"} /\ ~Briefed
    BY <1>1, LineageAssumption DEF Refuses, Briefed, WalkInvariant, TypeOK, FileStates
  <2> QED
    BY <1>1, <2>1, WalkStill DEF Refuses
<1>2. CASE Trips \/ Overflows
  BY <1>2, WalkStill DEF Trips, Overflows, Walking, Briefed
<1>3. ASSUME NEW i \in Ids, SealStep(i) PROVE WalkInvariant'
  BY <1>3, WalkStill DEF SealStep
<1>4. CASE UNCHANGED vars
  BY <1>4, WalkStill
<1> QED
  BY <1>1, <1>2, <1>3, <1>4,
     WalkBegins, WalkSkips, WalkFindsNone, WalkDescends, WalkReturns, WalkConcludes
  DEF Next, BridgeStep, Walks

-----------------------------------------------------------------------------
(* Theorems *)

\* The walk keeps its invariant, of which every type is a part.
THEOREM WalkAccounted == Spec => []WalkInvariant
BY WalkInit, WalkStep, PTL DEF Spec

\* Of any parents, through any cycle, and whatever is sealed meanwhile: each variable
\* has its type.
THEOREM TypeCorrect == Spec => []TypeOK
<1>1. WalkInvariant => TypeOK
  BY DEF WalkInvariant
<1> QED
  BY <1>1, WalkAccounted, PTL

\* _resolve_parent_chain: no ancestor is left out of a briefing, or put into it twice.
THEOREM NothingIsLost == Spec => []NothingLost
<1>1. WalkInvariant => NothingLost
  <2> SUFFICES ASSUME WalkInvariant, Briefed
               PROVE  /\ \A i \in {Root} \cup ToSet(chain) :
                           ToSet(parents[i]) \subseteq ToSet(chain) \cup ToSet(missing)
                      /\ IsInjective(chain \o missing)
    BY DEF NothingLost, Named
  <2>1. visited = ToSet(chain) \cup ToSet(missing)
    BY DEF WalkInvariant, StackInv, OnceInv, Found, Frames
  <2>2. \A i \in {Root} \cup ToSet(chain) : ToSet(parents[i]) \subseteq visited
    BY DEF WalkInvariant, StackInv, ClosedInv
  <2>3. IsInjective(chain \o missing)
    BY InjectiveConcat DEF WalkInvariant, TypeOK, OnceInv
  <2> QED
    BY <2>1, <2>2, <2>3
<1> QED
  BY <1>1, WalkAccounted, PTL

\* Nor does the walk add one: all that it returns it was led to from the record.
THEOREM NothingIsAdded == Spec => []NothingAdded
<1>1. WalkInvariant => NothingAdded
  <2> SUFFICES ASSUME WalkInvariant, Briefed PROVE NothingAdded
    BY DEF NothingAdded
  <2>1. LedInv /\ Leaders = {Root}
    BY DEF WalkInvariant, Leaders
  <2> QED
    BY <2>1 DEF LedInv, NothingAdded, Named
<1> QED
  BY <1>1, WalkAccounted, PTL

\* wkb.py:207, 238: oldest first, wherever the ancestors have no cycle.
THEOREM OldestComesFirst == Spec => []OldestFirst
<1>1. WalkInvariant => OldestFirst
  <2> SUFFICES ASSUME WalkInvariant, Briefed, NEW age \in Ages
               PROVE  /\ Root \notin ToSet(chain)
                      /\ \A m, n \in 1..Len(chain) : chain[m] \in ToSet(parents[chain[n]]) => m < n
    BY DEF OldestFirst, Acyclic, Named, Ages
  <2>1. /\ \A i \in ToSet(chain) : age[i] < age[Root]
        /\ \A n \in 1..Len(chain) : \A p \in ToSet(parents[chain[n]]) :
             p \in ToSet(missing) \/ \E m \in 1..(n - 1) : chain[m] = p
    BY DEF WalkInvariant, AgeInv
  <2>2. Root \notin ToSet(chain)
    <3>1. age[Root] \in Nat
      BY LineageAssumption, FS_CardinalityType DEF Ages
    <3> QED
      BY <2>1, <3>1
  <2>3. ASSUME NEW m \in 1..Len(chain), NEW n \in 1..Len(chain), chain[m] \in ToSet(parents[chain[n]])
        PROVE  m < n
    <3>1. chain \in Seq(Ids) /\ Len(chain) \in Nat /\ DOMAIN chain = 1..Len(chain)
      BY DEF WalkInvariant, TypeOK
    <3>2. chain[m] \notin ToSet(missing)
      BY <3>1 DEF WalkInvariant, OnceInv, ToSet
    <3>3. PICK k \in 1..(n - 1) : chain[k] = chain[m]
      BY <2>1, <2>3, <3>2
    <3>4. k \in 1..Len(chain) /\ k < n
      BY <3>1, <3>3
    <3>5. k = m
      BY <3>1, <3>3, <3>4 DEF WalkInvariant, OnceInv, IsInjective
    <3> QED
      BY <3>4, <3>5
  <2> QED
    BY <2>2, <2>3
<1> QED
  BY <1>1, WalkAccounted, PTL

\* The calls that are running are about as many different records, so that one more,
\* about one that the walk has not met, needs room for no more than there are ids.
LEMMA CallsBounded ==
  ASSUME WalkInvariant, Walking, Parent \notin visited
  PROVE  Len(stack) <= Cardinality(Ids)
<1>1. /\ stack \in Seq(Frame) /\ Len(stack) \in Nat \ {0} /\ Parent \in Ids
      /\ CallsOK(stack, visited) /\ Frames(stack) \subseteq visited
  BY TopFacts, OnwardFacts DEF WalkInvariant, Walking, StackInv, OnceInv
<1> DEFINE about == [m \in 2..(Len(stack) + 1) |-> IF m = Len(stack) + 1 THEN Parent ELSE stack[m].id]
<1>2. ASSUME NEW m \in 2..Len(stack)
      PROVE  stack[m].id \in Ids /\ stack[m].id # Parent
  <2>1. m \in 1..Len(stack) /\ stack[m] \in Frame
    BY <1>1
  <2>2. stack[m].id \in Frames(stack)
    BY DEF Frames
  <2> QED
    BY <1>1, <2>1, <2>2 DEF Frame
<1>3. about \in Injection(2..(Len(stack) + 1), Ids)
  <2>1. \A m \in 2..(Len(stack) + 1) : m # Len(stack) + 1 => m \in 2..Len(stack)
    BY <1>1
  <2>2. about \in [2..(Len(stack) + 1) -> Ids]
    BY <1>1, <1>2, <2>1
  <2>3. ASSUME NEW m \in 2..(Len(stack) + 1), NEW n \in 2..(Len(stack) + 1), about[m] = about[n]
        PROVE  m = n
    BY <1>1, <1>2, <2>1, <2>3 DEF CallsOK
  <2> QED
    BY <2>2, <2>3 DEF Injection, IsInjective
<1> HIDE DEF about
<1>4. Cardinality(2..(Len(stack) + 1)) <= Cardinality(Ids)
  BY <1>3, FS_Injection, LineageAssumption
<1>5. Cardinality(2..(Len(stack) + 1)) = Len(stack)
  BY <1>1, FS_Interval
<1> QED
  BY <1>4, <1>5

\* wkb.py:213: no cycle, however it is made, runs the walk out of stack.  With room for
\* more calls than there are records, there is no RecursionError.
THEOREM NoCycleOverflows ==
  ASSUME Limit > Cardinality(Ids)
  PROVE  Spec => [](result # "overflow")
<1> DEFINE Inv == WalkInvariant /\ result # "overflow"
<1>1. Init => Inv
  BY WalkInit DEF Init
<1>2. Inv /\ [Next]_vars => Inv'
  <2> SUFFICES ASSUME Inv, [Next]_vars PROVE result' # "overflow"
    BY WalkStep
  <2>1. CASE Overflows
    <3>1. Len(stack) <= Cardinality(Ids) /\ Len(stack) = Limit
      BY <2>1, CallsBounded DEF Overflows
    <3>2. Cardinality(Ids) \in Nat /\ Limit \in Nat
      BY LineageAssumption, FS_CardinalityType
    <3> QED
      BY <3>1, <3>2
  <2>2. CASE Refuses
    BY <2>2, LineageAssumption DEF Refuses, WalkInvariant, TypeOK, FileStates
  <2> QED
    BY <2>1, <2>2
    DEF Next, BridgeStep, Walks, Begins, Skips, FindsNone, Descends, Trips, Returns, Concludes, SealStep
<1> QED
  BY <1>1, <1>2, PTL DEF Spec

-----------------------------------------------------------------------------
(* The walk comes to an end *)

\* The calls whose parents are to come, and those parents: of the first k calls, and of all.
RestOf(s, k) == SumFunctionOnSet([m \in DOMAIN s |-> 1 + Len(s[m].todo)], 1..k)
Rest(s) == RestOf(s, Len(s))

\* How many steps the walk has left at most.  A record that is met for the first time may
\* be called for, with all the parents it can have.
Work == Cardinality(Ids \ visited) * (MaxParents + 2) + Rest(stack)

WorkAtFirst == Cardinality(Ids) * (MaxParents + 2) + MaxParents + 1

\* wkb.py:213: each step of the walk brings it nearer to its end, in a cycle too, and no
\* seal takes it further away.
WalkShrinks ==
  [][result = "walking" =>
       /\ Work' <= Work
       /\ Walks => Work' < Work \/ result' # "walking"]_vars

\* A stack one call higher.
LEMMA RestNext ==
  ASSUME NEW s \in Seq(Frame), NEW t \in Seq(Frame), NEW k \in Nat, k < Len(s), k <= Len(t),
         \A m \in 1..k : s[m] = t[m]
  PROVE  /\ RestOf(s, k + 1) \in Nat /\ RestOf(t, k) \in Nat
         /\ RestOf(s, k + 1) = 1 + Len(s[k + 1].todo) + RestOf(t, k)
<1>1. PICK f : f = [m \in DOMAIN s |-> 1 + Len(s[m].todo)]
  OBVIOUS
<1>2. PICK g : g = [m \in DOMAIN t |-> 1 + Len(t[m].todo)]
  OBVIOUS
<1>3. DOMAIN s = 1..Len(s) /\ DOMAIN t = 1..Len(t) /\ Len(s) \in Nat /\ Len(t) \in Nat
  OBVIOUS
<1>4. \A m \in 1..(k + 1) : m \in DOMAIN s /\ Len(s[m].todo) \in Nat
  <2>1. \A m \in 1..(k + 1) : m \in DOMAIN s /\ s[m] \in Frame
    BY <1>3
  <2>2. \A r \in Frame : Len(r.todo) \in Nat
    BY DEF Frame
  <2> QED
    BY <2>1, <2>2
<1>5. \A m \in 1..(k + 1) : f[m] = 1 + Len(s[m].todo) /\ f[m] \in Nat
  BY <1>1, <1>4
<1>6. \A m \in 1..k : f[m] = g[m]
  <2>1. \A m \in 1..k : m \in DOMAIN t /\ m \in 1..(k + 1)
    BY <1>3
  <2> QED
    BY <1>2, <1>5, <2>1
<1>7. PICK x : x = k + 1
  OBVIOUS
<1>8. PICK A : A = 1..k
  OBVIOUS
<1>9. IsFiniteSet(A)
  BY <1>8, FS_Interval
<1>10. x \notin A /\ A \cup {x} = 1..x
  BY <1>7, <1>8
<1>11. /\ \A m \in A \cup {x} : f[m] \in Nat
       /\ \A m \in A : f[m] = g[m] /\ g[m] \in Nat
  <2>1. \A m \in A \cup {x} : f[m] \in Nat
    BY <1>5, <1>7, <1>10
  <2>2. \A m \in A : f[m] = g[m]
    BY <1>6, <1>8
  <2> QED
    BY <2>1, <2>2
<1>12. SumFunctionOnSet(f, A \cup {x}) = f[x] + SumFunctionOnSet(g, A)
  <2>1. x \notin A /\ (\A m \in A \cup {x} : f[m] \in Nat) /\ (\A m \in A : f[m] = g[m])
    BY <1>10, <1>11
  <2> QED
    BY <1>9, <2>1, SumAdd, Zenon
<1>13. PICK d : d = SumFunctionOnSet(g, A)
  OBVIOUS
<1>14. d \in Nat
  <2>1. A \in SUBSET A
    OBVIOUS
  <2> QED
    BY <1>9, <1>11, <1>13, <2>1, SumType
<1>15. PICK e \in Nat : e = Len(s[x].todo)
  <2>1. k + 1 \in 1..(k + 1)
    OBVIOUS
  <2> QED
    BY <1>4, <1>7, <2>1
<1>16. f[x] = 1 + e
  <2>1. k + 1 \in 1..(k + 1)
    OBVIOUS
  <2> QED
    BY <1>5, <1>7, <1>15, <2>1
<1>17. RestOf(s, x) = SumFunctionOnSet(f, 1..x) /\ RestOf(t, k) = d
  BY <1>1, <1>2, <1>8, <1>13 DEF RestOf
<1>18. RestOf(s, x) = 1 + e + d
  BY <1>10, <1>12, <1>13, <1>14, <1>16, <1>17
<1>19. RestOf(s, x) \in Nat
  BY <1>14, <1>18
<1> QED
  BY <1>7, <1>14, <1>15, <1>17, <1>18, <1>19

\* A stack that is not empty: its last call, and the rest of it.
LEMMA RestSplit ==
  ASSUME NEW s \in Seq(Frame), Len(s) > 0, NEW t \in Seq(Frame), Len(s) - 1 <= Len(t),
         \A m \in 1..(Len(s) - 1) : s[m] = t[m]
  PROVE  /\ RestOf(t, Len(s) - 1) \in Nat /\ Len(s[Len(s)].todo) \in Nat
         /\ Rest(s) = 1 + Len(s[Len(s)].todo) + RestOf(t, Len(s) - 1)
<1>1. PICK k \in Nat : Len(s) = k + 1
  <2>1. Len(s) \in Nat /\ Len(s) - 1 \in Nat /\ Len(s) = (Len(s) - 1) + 1
    OBVIOUS
  <2> QED
    BY <2>1
<1>2. Len(s) - 1 = k /\ k < Len(s) /\ k <= Len(t)
  BY <1>1
<1>3. /\ RestOf(t, k) \in Nat
      /\ RestOf(s, k + 1) = 1 + Len(s[k + 1].todo) + RestOf(t, k)
  BY <1>2, RestNext
<1>4. Len(s[Len(s)].todo) \in Nat
  <2>1. s[Len(s)] \in Frame
    OBVIOUS
  <2> QED
    BY <2>1 DEF Frame
<1> QED
  BY <1>1, <1>2, <1>3, <1>4 DEF Rest

LEMMA RestType == ASSUME NEW s \in Seq(Frame) PROVE Rest(s) \in Nat
<1>1. CASE Len(s) = 0
  <2>1. 1..0 = {}
    OBVIOUS
  <2> QED
    BY <1>1, <2>1, SumEmpty DEF Rest, RestOf
<1>2. CASE Len(s) > 0
  <2>1. Len(s) - 1 <= Len(s)
    OBVIOUS
  <2> QED
    BY <1>2, <2>1, RestSplit
<1> QED
  BY <1>1, <1>2

\* A call that goes on to its next parent has one less to come.
LEMMA RestOnward ==
  ASSUME TypeOK, Walking
  PROVE  Rest(stack) = Rest(Onward) + 1 /\ Rest(Onward) \in Nat /\ Onward \in Seq(Frame)
<1>1. /\ stack \in Seq(Frame) /\ Len(stack) \in Nat \ {0} /\ Top = stack[Len(stack)] /\ Top.todo \in Seq(Ids)
  BY TopFacts DEF Walking
<1>2. /\ Onward \in Seq(Frame) /\ Len(Onward) = Len(stack)
      /\ \A m \in 1..Len(stack) : m # Len(stack) => Onward[m] = stack[m]
      /\ Onward[Len(stack)].todo = Tail(Top.todo)
  BY OnwardFacts
<1>3. PICK s \in Seq(Frame) : s = stack
  BY <1>1
<1>4. PICK t \in Seq(Frame) : t = Onward
  BY <1>2
<1>5. Len(Tail(Top.todo)) = Len(Top.todo) - 1 /\ Len(Top.todo) \in Nat
  BY <1>1 DEF Walking
<1>6. /\ RestOf(s, Len(s) - 1) \in Nat
      /\ Rest(s) = 1 + Len(s[Len(s)].todo) + RestOf(s, Len(s) - 1)
  <2>1. Len(s) - 1 <= Len(s) /\ Len(s) > 0
    BY <1>1, <1>3
  <2> QED
    BY <2>1, RestSplit
<1>7. Rest(t) = 1 + Len(t[Len(t)].todo) + RestOf(s, Len(t) - 1)
  <2>1. Len(t) - 1 <= Len(s) /\ Len(t) > 0 /\ \A m \in 1..(Len(t) - 1) : t[m] = s[m]
    BY <1>1, <1>2, <1>3, <1>4
  <2> QED
    BY <2>1, RestSplit
<1>8. Len(s) = Len(t) /\ Len(s[Len(s)].todo) = Len(Top.todo) /\ Len(t[Len(t)].todo) = Len(Top.todo) - 1
  BY <1>1, <1>2, <1>3, <1>4, <1>5
<1>9. PICK d : d = RestOf(s, Len(s) - 1)
  OBVIOUS
<1>10. PICK e : e = Len(Top.todo)
  OBVIOUS
<1>11. Rest(s) = 1 + e + d /\ d \in Nat
  BY <1>6, <1>8, <1>9, <1>10
<1>12. Rest(t) = 1 + (e - 1) + d
  BY <1>7, <1>8, <1>9, <1>10
<1>13. Rest(t) \in Nat
  BY RestType
<1>14. Rest(s) = Rest(t) + 1
  BY <1>5, <1>10, <1>11, <1>12
<1> QED
  BY <1>2, <1>3, <1>4, <1>13, <1>14

\* A call that is made, and one that returns.
LEMMA RestAppend ==
  ASSUME NEW s \in Seq(Frame), NEW c \in Frame, NEW t, t = Append(s, c)
  PROVE  t \in Seq(Frame) /\ Rest(t) = Rest(s) + 1 + Len(c.todo)
<1>1. t \in Seq(Frame)
  OBVIOUS
<1>2. Len(t) = Len(s) + 1 /\ t[Len(t)] = c /\ Len(s) \in Nat /\ \A m \in 1..Len(s) : t[m] = s[m]
  OBVIOUS
<1>3. Rest(t) = 1 + Len(t[Len(t)].todo) + RestOf(s, Len(t) - 1)
  <2>1. Len(t) - 1 <= Len(s) /\ Len(t) > 0 /\ \A m \in 1..(Len(t) - 1) : t[m] = s[m]
    BY <1>2
  <2> QED
    BY <1>1, <2>1, RestSplit
<1>4. PICK d \in Nat : d = Rest(s)
  BY RestType
<1>5. PICK e \in Nat : e = Len(c.todo)
  BY DEF Frame
<1>6. RestOf(s, Len(t) - 1) = d /\ Len(t[Len(t)].todo) = e
  BY <1>2, <1>4, <1>5 DEF Rest
<1>7. PICK r : r = Rest(t)
  OBVIOUS
<1>8. r = d + 1 + e
  BY <1>3, <1>6, <1>7
<1> QED
  BY <1>1, <1>4, <1>5, <1>7, <1>8, Zenon

LEMMA RestFront ==
  ASSUME NEW s \in Seq(Frame), Len(s) > 0
  PROVE  Rest(Front(s)) < Rest(s)
<1>1. PICK t \in Seq(Frame) : t = Front(s)
  BY FrontFacts
<1>2. Len(t) = Len(s) - 1 /\ \A m \in 1..(Len(s) - 1) : s[m] = t[m]
  BY <1>1, FrontFacts
<1>3. /\ RestOf(t, Len(s) - 1) \in Nat /\ Len(s[Len(s)].todo) \in Nat
      /\ Rest(s) = 1 + Len(s[Len(s)].todo) + RestOf(t, Len(s) - 1)
  <2>1. Len(s) - 1 <= Len(t)
    BY <1>2
  <2> QED
    BY <1>2, <2>1, RestSplit
<1>4. Rest(t) = RestOf(t, Len(s) - 1)
  BY <1>2 DEF Rest
<1>5. PICK d \in Nat : d = Rest(t)
  BY <1>3, <1>4
<1>6. PICK e \in Nat : e = Len(s[Len(s)].todo)
  BY <1>3
<1>7. Rest(s) = 1 + e + d
  BY <1>3, <1>4, <1>5, <1>6
<1> QED
  BY <1>1, <1>5, <1>6, <1>7

LEMMA WorkType ==
  ASSUME TypeOK
  PROVE  Cardinality(Ids \ visited) \in Nat /\ Rest(stack) \in Nat /\ MaxParents \in Nat /\ stack \in Seq(Frame)
<1>1. IsFiniteSet(Ids \ visited) /\ MaxParents \in Nat
  BY LineageAssumption, FS_Subset
<1>2. stack \in Seq(Frame)
  BY DEF TypeOK, Frame
<1> QED
  BY <1>1, <1>2, FS_CardinalityType, RestType

\* A record that is met for the first time is one less to meet.
LEMMA OneMet ==
  ASSUME TypeOK, NEW i \in Ids \ visited
  PROVE  Cardinality(Ids \ (visited \cup {i})) = Cardinality(Ids \ visited) - 1
<1>1. PICK U : U = Ids \ visited
  OBVIOUS
<1>2. IsFiniteSet(U) /\ i \in U /\ Ids \ (visited \cup {i}) = U \ {i}
  BY <1>1, LineageAssumption, FS_Subset
<1> QED
  BY <1>1, <1>2, FS_RemoveElement

\* Each step of the walk.
LEMMA WalkGoesOn ==
  ASSUME TypeOK, TypeOK', \A i \in Ids : Len(parents[i]) <= MaxParents, Walks
  PROVE  Work' < Work \/ (result' # "walking" /\ Work' <= Work)
<1>1. PICK c \in Nat : c = Cardinality(Ids \ visited)
  BY WorkType
<1>2. PICK w \in Nat : w = Rest(stack)
  BY WorkType
<1>3. PICK k \in Nat : k = MaxParents
  BY WorkType
<1>4. Work = c * (k + 2) + w
  BY <1>1, <1>2, <1>3 DEF Work
<1>5. CASE Skips
  <2>1. Walking /\ stack' = Onward /\ visited' = visited
    BY <1>5 DEF Skips
  <2>2. Rest(stack') + 1 = w /\ Rest(stack') \in Nat
    BY <1>2, <2>1, RestOnward
  <2>3. Work' = c * (k + 2) + Rest(stack')
    BY <1>1, <1>3, <2>1 DEF Work
  <2>4. PICK v \in Nat : v = Rest(stack')
    BY <2>2
  <2> QED
    BY <1>4, <2>2, <2>3, <2>4
<1>6. CASE FindsNone \/ Descends
  <2>1. Walking /\ Parent \in Ids \ visited /\ visited' = visited \cup {Parent}
    <3>1. Walking /\ Parent \notin visited /\ visited' = visited \cup {Parent}
      BY <1>6 DEF FindsNone, Descends
    <3> QED
      BY <3>1, OnwardFacts
  <2>2. PICK d \in Nat : d + 1 = c /\ d = Cardinality(Ids \ visited')
    <3>1. Cardinality(Ids \ visited') = c - 1
      BY <1>1, <2>1, OneMet
    <3>2. Cardinality(Ids \ visited') \in Nat
      BY LineageAssumption, FS_Subset, FS_CardinalityType
    <3> QED
      BY <3>1, <3>2
  <2>3. PICK v \in Nat : v = Rest(stack') /\ v < w + k + 1
    <3>1. PICK o \in Nat : o = Rest(Onward) /\ o + 1 = w
      BY <1>2, <2>1, RestOnward
    <3>2. CASE stack' = Onward
      BY <1>3, <3>1, <3>2
    <3>3. CASE stack' = Append(Onward, [id |-> Parent, todo |-> parents[Parent]])
      <4>1. PICK f : f = [id |-> Parent, todo |-> parents[Parent]]
        OBVIOUS
      <4>2. f \in Frame /\ f.todo = parents[Parent] /\ Parent \in Ids
        BY <2>1, <4>1 DEF TypeOK, Frame
      <4>3. PICK e \in Nat : e = Len(f.todo)
        BY <4>2 DEF TypeOK
      <4>4. e <= k
        BY <1>3, <4>2, <4>3
      <4>5. Onward \in Seq(Frame)
        BY <2>1, RestOnward
      <4>6. PICK t : t = stack'
        OBVIOUS
      <4>7. Rest(t) = Rest(Onward) + 1 + Len(f.todo)
        BY <3>3, <4>1, <4>2, <4>5, <4>6, RestAppend
      <4>8. Rest(t) = o + 1 + e
        BY <3>1, <4>3, <4>7
      <4> QED
        BY <3>1, <4>4, <4>6, <4>8
    <3> QED
      BY <1>6, <3>2, <3>3 DEF FindsNone, Descends
  <2>4. Work' = d * (k + 2) + v
    BY <1>3, <2>2, <2>3 DEF Work
  <2>5. c * (k + 2) = d * (k + 2) + (k + 2)
    BY <2>2
  <2>6. PICK x \in Nat : x = d * (k + 2)
    OBVIOUS
  <2>7. Work = x + (k + 2) + w /\ Work' = x + v
    BY <1>4, <2>4, <2>5, <2>6
  <2> QED
    BY <2>3, <2>7
<1>7. CASE Trips \/ Overflows
  <2>1. UNCHANGED <<visited, stack>> /\ result' # "walking"
    BY <1>7 DEF Trips, Overflows
  <2>2. Work' = Work
    BY <2>1 DEF Work
  <2> QED
    BY <1>4, <2>1, <2>2
<1>8. CASE Returns \/ Concludes
  <2>1. visited' = visited /\ Len(stack) > 0 /\ stack' = Front(stack)
    <3>1. CASE Returns
      <4>1. result = "walking" /\ visited' = visited /\ stack' = Front(stack)
        BY <3>1 DEF Returns
      <4> QED
        BY <4>1, TopFacts
    <3>2. CASE Concludes
      <4>1. visited' = visited /\ stack' = <<>> /\ Len(stack) = 1
        BY <3>2 DEF Concludes
      <4>2. Front(stack) = <<>>
        <5>1. Front(stack) \in Seq(Frame) /\ Len(Front(stack)) = 0
          BY <4>1, WorkType, FrontFacts
        <5> QED
          BY <5>1
      <4> QED
        BY <4>1, <4>2
    <3> QED
      BY <1>8, <3>1, <3>2
  <2>2. PICK v \in Nat : v = Rest(stack') /\ v < w
    <3>1. Rest(Front(stack)) < Rest(stack) /\ Front(stack) \in Seq(Frame)
      BY <2>1, WorkType, RestFront, FrontFacts
    <3> QED
      BY <1>2, <2>1, <3>1, RestType
  <2>3. Work' = c * (k + 2) + v
    BY <1>1, <1>3, <2>1, <2>2 DEF Work
  <2> QED
    BY <1>4, <2>2, <2>3
<1> QED
  BY <1>5, <1>6, <1>7, <1>8 DEF Walks

\* What the parents are does not change, and how many there are stays bounded.
FewParents == parents \in [Ids -> ParentLists]

LEMMA FewParentsFacts == FewParents => \A i \in Ids : Len(parents[i]) <= MaxParents
<1> SUFFICES ASSUME FewParents, NEW i \in Ids PROVE Len(parents[i]) <= MaxParents
  OBVIOUS
<1>1. PICK n \in 0..MaxParents : parents[i] \in [1..n -> Ids]
  BY DEF FewParents, ParentLists
<1>2. Len(parents[i]) = n
  BY <1>1, LineageAssumption
<1> QED
  BY <1>2, LineageAssumption

\* The walk starts with the parents of the record.
LEMMA WalkStarts ==
  ASSUME TypeOK, StackInv, FewParents, Begins
  PROVE  Work' <= WorkAtFirst
<1>1. visited' = {} /\ stack' = <<[id |-> Root, todo |-> parents[Root]]>>
  BY DEF Begins, StackInv
<1>2. PICK f : f = [id |-> Root, todo |-> parents[Root]]
  OBVIOUS
<1>3. f \in Frame /\ f.todo = parents[Root]
  BY <1>2, LineageAssumption DEF TypeOK, Frame
<1>4. PICK e \in Nat : e = Len(f.todo) /\ e <= MaxParents
  BY <1>3, FewParentsFacts, LineageAssumption DEF TypeOK
<1>5. PICK t : t = <<f>>
  OBVIOUS
<1>6. Rest(t) = 1 + e
  <2>1. PICK s : s = <<>>
    OBVIOUS
  <2>2. s \in Seq(Frame) /\ t = Append(s, f)
    BY <1>3, <1>5, <2>1
  <2>3. Rest(s) = 0
    <3>1. Len(s) = 0 /\ 1..0 = {}
      BY <2>1
    <3> QED
      BY <3>1, SumEmpty DEF Rest, RestOf
  <2>4. Rest(t) = Rest(s) + 1 + Len(f.todo)
    BY <1>3, <2>2, RestAppend
  <2> QED
    BY <1>4, <2>3, <2>4
<1>7. PICK c \in Nat : c = Cardinality(Ids)
  BY LineageAssumption, FS_CardinalityType
<1>8. PICK k \in Nat : k = MaxParents
  BY LineageAssumption
<1>9. Ids \ {} = Ids
  OBVIOUS
<1>10. Work' = c * (k + 2) + (1 + e)
  BY <1>1, <1>2, <1>5, <1>6, <1>7, <1>8, <1>9 DEF Work
<1>11. WorkAtFirst = c * (k + 2) + k + 1
  BY <1>7, <1>8 DEF WorkAtFirst
<1>12. PICK x \in Nat : x = c * (k + 2)
  OBVIOUS
<1>13. PICK v : v = Work'
  OBVIOUS
<1>14. v = x + (1 + e)
  BY <1>10, <1>12, <1>13, Zenon
<1>15. WorkAtFirst = x + k + 1 /\ e <= k
  BY <1>4, <1>8, <1>11, <1>12
<1>16. v <= x + k + 1
  BY <1>14, <1>15
<1> QED
  BY <1>13, <1>15, <1>16, Zenon

WorkNat == Work \in Nat

LEMMA WorkIsNat == TypeOK => WorkNat
<1> SUFFICES ASSUME TypeOK PROVE Work \in Nat
  BY DEF WorkNat
<1>1. PICK c \in Nat, w \in Nat, k \in Nat : c = Cardinality(Ids \ visited) /\ w = Rest(stack) /\ k = MaxParents
  BY WorkType
<1> QED
  BY <1>1 DEF Work

\* wkb.py:213: for any parents, cyclic or not, and whatever is sealed meanwhile, the walk
\* has never more left than WorkAtFirst, and less with each of its steps.
THEOREM WalkComesToItsEnd ==
  Spec => WalkShrinks /\ [](Work \in Nat /\ (result = "walking" => Work <= WorkAtFirst))
<1> DEFINE Inv == WalkInvariant /\ FewParents
           InTime == result = "walking" => Work <= WorkAtFirst
           Shrinks == result = "walking" => Work' <= Work /\ (Walks => Work' < Work \/ result' # "walking")
<1>1. Init => Inv /\ InTime
  BY WalkInit DEF Init, FewParents
<1>2. Inv /\ [Next]_vars => Inv'
  <2> SUFFICES ASSUME Inv, [Next]_vars PROVE parents' = parents
    BY WalkStep DEF FewParents
  <2> QED
    BY DEF Next, BridgeStep, Walks, Refuses, Begins, Skips, FindsNone, Descends, Trips, Overflows, Returns,
           Concludes, SealStep
<1>3. Inv => Work \in Nat
  BY WorkIsNat DEF WalkInvariant, WorkNat
<1>3a. Inv' => Work' \in Nat
  <2>1. TypeOK' => WorkNat'
    BY WorkIsNat, PTL
  <2> QED
    BY <2>1 DEF WalkInvariant, WorkNat
<1>4. Inv /\ Inv' /\ [Next]_vars => [Shrinks]_vars
  <2> SUFFICES ASSUME Inv, Inv', Next, result = "walking"
               PROVE  Work' <= Work /\ (Walks => Work' < Work \/ result' # "walking")
    OBVIOUS
  <2>1. Work \in Nat /\ Work' \in Nat
    BY <1>3, <1>3a
  <2>2. CASE Walks
    <3>1. Work' < Work \/ (result' # "walking" /\ Work' <= Work)
      BY <2>2, WalkGoesOn, FewParentsFacts DEF WalkInvariant
    <3> QED
      BY <2>1, <3>1
  <2>3. CASE ~Walks
    <3>1. UNCHANGED <<visited, stack>>
      BY <2>3 DEF Next, BridgeStep, Refuses, Begins, SealStep
    <3>2. Work' = Work
      BY <3>1 DEF Work
    <3> QED
      BY <2>1, <2>3, <3>2
  <2> QED
    BY <2>2, <2>3
<1>5. Inv /\ Inv' /\ InTime /\ [Next]_vars => InTime'
  <2> SUFFICES ASSUME Inv, Inv', InTime, [Next]_vars, result' = "walking" PROVE Work' <= WorkAtFirst
    OBVIOUS
  <2>1. CASE result = "walking"
    <3>1. Work' <= Work
      <4>1. CASE UNCHANGED vars
        <5>1. Work' = Work
          BY <4>1 DEF Work
        <5> QED
          BY <1>3, <5>1
      <4>2. CASE ~UNCHANGED vars
        BY <1>4, <2>1, <4>2
      <4> QED
        BY <4>1, <4>2
    <3>2. Work \in Nat /\ Work' \in Nat /\ Work <= WorkAtFirst
      BY <1>3, <1>3a, <2>1
    <3>3. WorkAtFirst \in Nat
      <4>1. PICK c \in Nat, k \in Nat : c = Cardinality(Ids) /\ k = MaxParents
        BY LineageAssumption, FS_CardinalityType
      <4> QED
        BY <4>1 DEF WorkAtFirst
    <3> QED
      BY <3>1, <3>2, <3>3
  <2>2. CASE result # "walking"
    <3>1. Begins
      <4>1. ~Walks
        BY <2>2 DEF Walks, Walking, Skips, FindsNone, Descends, Trips, Overflows, Returns, Concludes
      <4>2. ~Refuses
        <5> SUFFICES ASSUME Refuses PROVE FALSE
          OBVIOUS
        <5>1. file[Root] \in FileStates
          BY LineageAssumption DEF WalkInvariant, TypeOK
        <5> QED
          BY <5>1 DEF Refuses, FileStates
      <4>3. ASSUME UNCHANGED vars \/ \E i \in Ids : SealStep(i) PROVE FALSE
        BY <2>2, <4>3 DEF SealStep
      <4> QED
        BY <4>1, <4>2, <4>3 DEF Next, BridgeStep
    <3> QED
      BY <3>1, WalkStarts DEF WalkInvariant
  <2> QED
    BY <2>1, <2>2
<1> QED
  BY <1>1, <1>2, <1>3, <1>4, <1>5, PTL DEF Spec, WalkShrinks

-----------------------------------------------------------------------------
(* The bridge: for any records, a bridge to "restore" is the walk, of which  *)
(* the theorems above hold, and a bridge to another target walks nowhere.   *)

USE DEF bridgeVars

\* A step of the bridge keeps the type invariant.
LEMMA BridgeTypes == TypeOK /\ [BridgeNext]_bridgeVars => TypeOK'
<1> SUFFICES ASSUME TypeOK, [BridgeNext]_bridgeVars PROVE TypeOK'
  OBVIOUS
<1>1. CASE Translates
  BY <1>1 DEF Translates, TypeOK, Results
<1>2. CASE [Next]_vars
  BY <1>2, TypeStep
<1> QED
  BY <1>1, <1>2 DEF BridgeNext, Command, Next, BridgeStep

\* KNOWN_TARGETS: a command with the target restore does what Lineage says, step by step.
THEOREM RestoreIsTheWalk == BridgeSpec /\ target = "restore" => Spec
<1>1. BridgeInit => Init
  BY DEF BridgeInit
<1>2. target = "restore" /\ [BridgeNext]_bridgeVars => (target = "restore")'
  BY DEF BridgeNext, Command, Translates
<1>3. target = "restore" /\ [BridgeNext]_bridgeVars => [Next]_vars
  BY DEF BridgeNext, Command, Translates, Next, BridgeStep
<1> QED
  BY <1>1, <1>2, <1>3, PTL DEF BridgeSpec, Spec

\* A bridge to another target never walks.
NoWalk == target # "restore" => result \in {"reading", "translated", "traceback", "error", "FAILED"}

LEMMA NoWalkKept == TypeOK /\ NoWalk /\ [BridgeNext]_bridgeVars => NoWalk'
<1> SUFFICES ASSUME TypeOK, NoWalk, [BridgeNext]_bridgeVars PROVE NoWalk'
  OBVIOUS
<1>1. target' = target
  BY DEF BridgeNext, Command, Translates
<1>2. CASE Refuses
  BY <1>1, <1>2, LineageAssumption DEF Refuses, TypeOK, FileStates, NoWalk
<1>3. CASE target = "restore"
  BY <1>1, <1>3 DEF NoWalk
<1>4. CASE Translates \/ (\E i \in Ids : SealStep(i)) \/ UNCHANGED bridgeVars
  BY <1>1, <1>4 DEF Translates, SealStep, NoWalk
<1> QED
  BY <1>2, <1>3, <1>4 DEF BridgeNext, Command

\* And so a bridge to restore keeps every ancestor, once, adds none, and has the oldest
\* first where there is no cycle; and no other bridge has a briefing.
THEOREM BridgeKeepsLineage ==
  BridgeSpec => [](TypeOK /\ NothingLost /\ NothingAdded /\ OldestFirst)
<1>1. BridgeInit => TypeOK /\ NoWalk
  BY TypeInit DEF BridgeInit, Init, NoWalk
<1>2. BridgeSpec => [](TypeOK /\ NoWalk)
  BY <1>1, BridgeTypes, NoWalkKept, PTL DEF BridgeSpec
<1>3. ~(target = "restore") /\ [BridgeNext]_bridgeVars => (~(target = "restore"))'
  BY DEF BridgeNext, Command, Translates
<1>4. ~(target = "restore") /\ NoWalk => NothingLost /\ NothingAdded /\ OldestFirst
  BY DEF NoWalk, Briefed, NothingLost, NothingAdded, OldestFirst
<1>5. BridgeSpec /\ ~(target = "restore") => [](~(target = "restore"))
  BY <1>3, PTL DEF BridgeSpec
<1> QED
  BY <1>2, <1>4, <1>5, RestoreIsTheWalk, NothingIsLost, NothingIsAdded, OldestComesFirst, PTL
=============================================================================
