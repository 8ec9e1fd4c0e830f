------------------------------ MODULE SumLemmas ------------------------------
(***************************************************************************)
(* Sums over finite sets: SumFunctionOnSet of the community modules is a     *)
(* recursion over the subsets of its set, each of which gives up one member  *)
(* at a time.  The recursion has one solution, its sums are natural numbers  *)
(* where the summands are, and do not depend on which member goes first.    *)
(***************************************************************************)
EXTENDS Integers, SequencesExt, FiniteSetTheorems, WellFoundedInduction, TLAPS

\* The element a sum takes next, and the recursion that its definition is.
AnyOf(S) == CHOOSE x \in S : TRUE
SumsUp(f, S, it) ==
  it = [T \in SUBSET S |-> IF T = {} THEN 0 ELSE f[AnyOf(T)] + it[T \ {AnyOf(T)}]]

\* A property of the subsets of a finite set that one of them lacks is lacked by one
\* whose own subsets all have it: this is how facts about sums are proved by induction.
LEMMA SmallestSubset ==
  ASSUME NEW S, IsFiniteSet(S), NEW B \in SUBSET (SUBSET S), B # {}
  PROVE  \E T \in B : \A U \in SUBSET T : U # T => U \notin B
<1>1. IsWellFoundedOn(StrictSubsetOrdering(S), SUBSET S)
  BY FS_StrictSubsetOrderingWellFounded, FS_FiniteSubsetsOfFinite
<1>2. PICK T \in B : \A U \in B : ~(<<U, T>> \in StrictSubsetOrdering(S))
  BY <1>1, WFMin
<1>3. ASSUME NEW U \in SUBSET T, U # T, U \in B PROVE FALSE
  BY <1>2, <1>3 DEF StrictSubsetOrdering
<1> QED
  BY <1>2, <1>3

\* What the library's definition of a sum comes to.
LEMMA SumDef ==
  ASSUME NEW f, NEW S
  PROVE  SumFunctionOnSet(f, S) = (CHOOSE it : SumsUp(f, S, it))[S]
BY DEF SumFunctionOnSet, FoldFunctionOnSet, MapThenFoldSet, SumsUp, AnyOf

\* The element that a sum takes next is one of the set.
LEMMA AnyOfIn == ASSUME NEW S, S # {} PROVE AnyOf(S) \in S
BY DEF AnyOf

\* What satisfies the recursion on a set agrees with what does on a subset of it.
LEMMA SumUnique ==
  ASSUME NEW S, IsFiniteSet(S), NEW T \in SUBSET S, NEW f, NEW g, \A x \in T : f[x] = g[x],
         NEW it, SumsUp(f, S, it), NEW jt, SumsUp(g, T, jt)
  PROVE  \A U \in SUBSET T : it[U] = jt[U]
<1> DEFINE B == {U \in SUBSET T : it[U] # jt[U]}
<1>1. ASSUME B # {} PROVE FALSE
  <2>1. B \in SUBSET (SUBSET S)
    OBVIOUS
  <2>2. PICK U \in B : \A V \in SUBSET U : V # U => V \notin B
    <3> HIDE DEF B
    <3> QED
      BY <1>1, <2>1, SmallestSubset
  <2>3. U \in SUBSET T /\ U \in SUBSET S /\ it[U] # jt[U]
    BY <2>2
  <2>4. /\ it[U] = IF U = {} THEN 0 ELSE f[AnyOf(U)] + it[U \ {AnyOf(U)}]
        /\ jt[U] = IF U = {} THEN 0 ELSE g[AnyOf(U)] + jt[U \ {AnyOf(U)}]
    BY <2>3 DEF SumsUp
  <2>5. U # {} /\ AnyOf(U) \in U
    BY <2>3, <2>4, AnyOfIn
  <2>6. it[U \ {AnyOf(U)}] = jt[U \ {AnyOf(U)}]
    BY <2>2, <2>5
  <2>7. f[AnyOf(U)] = g[AnyOf(U)]
    BY <2>3, <2>5
  <2> QED
    BY <2>3, <2>4, <2>6, <2>7
<1> QED
  BY <1>1

\* A solution on a set has the sums of its subsets for values.
LEMMA SumValue ==
  ASSUME NEW S, IsFiniteSet(S), NEW f, NEW it, SumsUp(f, S, it)
  PROVE  \A T \in SUBSET S : (\E jt : SumsUp(f, T, jt)) => SumFunctionOnSet(f, T) = it[T]
<1> SUFFICES ASSUME NEW T \in SUBSET S, \E jt : SumsUp(f, T, jt)
             PROVE  SumFunctionOnSet(f, T) = it[T]
  OBVIOUS
<1>1. PICK jt : jt = CHOOSE kt : SumsUp(f, T, kt)
  OBVIOUS
<1>2. SumsUp(f, T, jt)
  BY <1>1
<1>3. it[T] = jt[T]
  BY <1>2, SumUnique
<1> QED
  BY <1>1, <1>3, SumDef

\* On a finite set the recursion has a solution.
LEMMA SumExists ==
  ASSUME NEW S, IsFiniteSet(S), NEW f
  PROVE  \A T \in SUBSET S : \E it : SumsUp(f, T, it)
<1> DEFINE B == {T \in SUBSET S : ~\E it : SumsUp(f, T, it)}
<1>1. ASSUME B # {} PROVE FALSE
  <2>1. B \in SUBSET (SUBSET S)
    OBVIOUS
  <2>2. PICK T \in B : \A U \in SUBSET T : U # T => U \notin B
    <3> HIDE DEF B
    <3> QED
      BY <1>1, <2>1, SmallestSubset
  <2>3. \A U \in SUBSET T : U # T => \E it : SumsUp(f, U, it)
    BY <2>2
  <2> DEFINE it == [U \in SUBSET T |-> IF U = {} THEN 0 ELSE f[AnyOf(U)] + SumFunctionOnSet(f, U \ {AnyOf(U)})]
  <2>4. ASSUME NEW U \in SUBSET T, U # T PROVE it[U] = SumFunctionOnSet(f, U)
    <3>1. PICK jt : SumsUp(f, U, jt)
      BY <2>3, <2>4
    <3>2. IsFiniteSet(U)
      BY <2>2, FS_Subset
    <3>3. SumFunctionOnSet(f, U) = jt[U]
      BY <3>1, <3>2, SumValue
    <3>4. jt[U] = IF U = {} THEN 0 ELSE f[AnyOf(U)] + jt[U \ {AnyOf(U)}]
      BY <3>1 DEF SumsUp
    <3>5. CASE U = {}
      BY <3>3, <3>4, <3>5
    <3>6. CASE U # {}
      <4>1. AnyOf(U) \in U
        BY <3>6, AnyOfIn
      <4>2. \E kt : SumsUp(f, U \ {AnyOf(U)}, kt)
        BY <2>3, <4>1
      <4>3. SumFunctionOnSet(f, U \ {AnyOf(U)}) = jt[U \ {AnyOf(U)}]
        BY <3>1, <3>2, <4>2, SumValue
      <4> QED
        BY <3>3, <3>4, <3>6, <4>3
    <3> QED
      BY <3>5, <3>6
  <2>5. ASSUME NEW U \in SUBSET T, U # {} PROVE it[U \ {AnyOf(U)}] = SumFunctionOnSet(f, U \ {AnyOf(U)})
    BY <2>4, <2>5, AnyOfIn
  <2>6. it = [U \in SUBSET T |-> IF U = {} THEN 0 ELSE f[AnyOf(U)] + it[U \ {AnyOf(U)}]]
    BY <2>5
  <2>7. SumsUp(f, T, it)
    BY <2>6 DEF SumsUp
  <2> QED
    BY <2>2, <2>7
<1> QED
  BY <1>1

\* The sum over no member.
LEMMA SumEmpty == ASSUME NEW f PROVE SumFunctionOnSet(f, {}) = 0
<1>1. IsFiniteSet({})
  BY FS_EmptySet
<1>2. PICK it : SumsUp(f, {}, it)
  BY <1>1, SumExists
<1>3. it[{}] = 0
  BY <1>2 DEF SumsUp
<1> QED
  BY <1>1, <1>2, <1>3, SumValue

\* The sum over a set is what one member adds to the sum over the others.
LEMMA SumNext ==
  ASSUME NEW S, IsFiniteSet(S), S # {}, NEW f
  PROVE  AnyOf(S) \in S /\ SumFunctionOnSet(f, S) = f[AnyOf(S)] + SumFunctionOnSet(f, S \ {AnyOf(S)})
<1>1. PICK it : SumsUp(f, S, it)
  BY SumExists
<1>2. \A T \in SUBSET S : SumFunctionOnSet(f, T) = it[T]
  BY <1>1, SumExists, SumValue
<1>3. it[S] = f[AnyOf(S)] + it[S \ {AnyOf(S)}]
  BY <1>1 DEF SumsUp
<1> QED
  BY <1>2, <1>3, AnyOfIn

\* Functions that agree on a finite set have the same sum there.
LEMMA SumAgrees ==
  ASSUME NEW S, IsFiniteSet(S), NEW f, NEW g, \A x \in S : f[x] = g[x]
  PROVE  SumFunctionOnSet(f, S) = SumFunctionOnSet(g, S)
<1>1. PICK it : it = CHOOSE jt : SumsUp(f, S, jt)
  OBVIOUS
<1>2. PICK jt : jt = CHOOSE kt : SumsUp(g, S, kt)
  OBVIOUS
<1>3. SumsUp(f, S, it) /\ SumsUp(g, S, jt)
  BY <1>1, <1>2, SumExists
<1>4. S \in SUBSET S
  OBVIOUS
<1>5. \A T \in SUBSET S : it[T] = jt[T]
  BY <1>3, <1>4, SumUnique
<1> QED
  BY <1>1, <1>2, <1>4, <1>5, SumDef

\* A sum of natural numbers is one.
LEMMA SumType ==
  ASSUME NEW S, IsFiniteSet(S), NEW f, \A x \in S : f[x] \in Nat
  PROVE  \A T \in SUBSET S : SumFunctionOnSet(f, T) \in Nat
<1> DEFINE B == {T \in SUBSET S : SumFunctionOnSet(f, T) \notin Nat}
<1>1. ASSUME B # {} PROVE FALSE
  <2>1. B \in SUBSET (SUBSET S)
    OBVIOUS
  <2>2. PICK T \in B : \A U \in SUBSET T : U # T => U \notin B
    <3> HIDE DEF B
    <3> QED
      BY <1>1, <2>1, SmallestSubset
  <2>3. IsFiniteSet(T)
    BY <2>2, FS_Subset
  <2>4. SumFunctionOnSet(f, T) \notin Nat /\ SumFunctionOnSet(f, {}) = 0
    BY <2>2, SumEmpty
  <2>5. AnyOf(T) \in T /\ SumFunctionOnSet(f, T) = f[AnyOf(T)] + SumFunctionOnSet(f, T \ {AnyOf(T)})
    <3>1. T # {}
      BY <2>4
    <3> QED
      BY <2>3, <3>1, SumNext
  <2>6. SumFunctionOnSet(f, T \ {AnyOf(T)}) \in Nat /\ f[AnyOf(T)] \in Nat
    BY <2>2, <2>5
  <2> QED
    BY <2>2, <2>5, <2>6
<1> QED
  BY <1>1

\* Any of the numbers may be the one that is added last.
LEMMA SumRemove ==
  ASSUME NEW S, IsFiniteSet(S), NEW f, \A x \in S : f[x] \in Nat
  PROVE  \A T \in SUBSET S : \A x \in T :
           SumFunctionOnSet(f, T) = f[x] + SumFunctionOnSet(f, T \ {x})
<1> DEFINE B == {T \in SUBSET S : \E x \in T : SumFunctionOnSet(f, T) # f[x] + SumFunctionOnSet(f, T \ {x})}
<1>1. ASSUME B # {} PROVE FALSE
  <2>1. B \in SUBSET (SUBSET S)
    OBVIOUS
  <2>2. PICK T \in B : \A U \in SUBSET T : U # T => U \notin B
    <3> HIDE DEF B
    <3> QED
      BY <1>1, <2>1, SmallestSubset
  <2>3. PICK x \in T : SumFunctionOnSet(f, T) # f[x] + SumFunctionOnSet(f, T \ {x})
    BY <2>2
  <2>4. PICK a : a = AnyOf(T)
    OBVIOUS
  <2>5. IsFiniteSet(T) /\ T \in SUBSET S
    BY <2>2, FS_Subset
  <2>6. a \in T /\ SumFunctionOnSet(f, T) = f[a] + SumFunctionOnSet(f, T \ {a})
    BY <2>3, <2>4, <2>5, SumNext
  <2>7. a # x
    BY <2>3, <2>6
  <2>8. SumFunctionOnSet(f, T \ {a}) = f[x] + SumFunctionOnSet(f, (T \ {a}) \ {x})
    <3>1. T \ {a} \in SUBSET T /\ T \ {a} # T /\ x \in T \ {a}
      BY <2>6, <2>7
    <3> QED
      BY <2>2, <2>5, <3>1
  <2>9. SumFunctionOnSet(f, T \ {x}) = f[a] + SumFunctionOnSet(f, (T \ {x}) \ {a})
    <3>1. T \ {x} \in SUBSET T /\ T \ {x} # T /\ a \in T \ {x}
      BY <2>3, <2>6, <2>7
    <3> QED
      BY <2>2, <2>5, <3>1
  <2>10. (T \ {x}) \ {a} = (T \ {a}) \ {x}
    OBVIOUS
  <2>11. /\ f[a] \in Nat /\ f[x] \in Nat
         /\ SumFunctionOnSet(f, (T \ {a}) \ {x}) \in Nat
    BY <2>5, <2>6, SumType
  <2> QED
    BY <2>3, <2>6, <2>8, <2>9, <2>10, <2>11
<1> QED
  BY <1>1

\* One more member adds its number.
LEMMA SumAdd ==
  ASSUME NEW S, IsFiniteSet(S), NEW x, x \notin S,
         NEW f, \A y \in S \cup {x} : f[y] \in Nat,
         NEW g, \A y \in S : f[y] = g[y]
  PROVE  SumFunctionOnSet(f, S \cup {x}) = f[x] + SumFunctionOnSet(g, S)
<1>1. IsFiniteSet(S \cup {x})
  BY FS_AddElement
<1>2. S \cup {x} \in SUBSET (S \cup {x}) /\ x \in S \cup {x} /\ (S \cup {x}) \ {x} = S
  OBVIOUS
<1>3. SumFunctionOnSet(f, S \cup {x}) = f[x] + SumFunctionOnSet(f, (S \cup {x}) \ {x})
  BY <1>1, <1>2, SumRemove
<1> QED
  BY <1>2, <1>3, SumAgrees

\* Sums are added member by member.
LEMMA SumOfSums ==
  ASSUME NEW S, IsFiniteSet(S), NEW f, NEW g, NEW h,
         \A x \in S : f[x] \in Nat /\ g[x] \in Nat /\ h[x] \in Nat /\ f[x] = g[x] + h[x]
  PROVE  SumFunctionOnSet(f, S) = SumFunctionOnSet(g, S) + SumFunctionOnSet(h, S)
<1> DEFINE B == {T \in SUBSET S : SumFunctionOnSet(f, T) # SumFunctionOnSet(g, T) + SumFunctionOnSet(h, T)}
<1>1. ASSUME B # {} PROVE FALSE
  <2>1. B \in SUBSET (SUBSET S)
    OBVIOUS
  <2>2. PICK T \in B : \A U \in SUBSET T : U # T => U \notin B
    <3> HIDE DEF B
    <3> QED
      BY <1>1, <2>1, SmallestSubset
  <2>3. /\ T \in SUBSET S /\ IsFiniteSet(T)
        /\ SumFunctionOnSet(f, T) # SumFunctionOnSet(g, T) + SumFunctionOnSet(h, T)
    BY <2>2, FS_Subset
  <2>4. T # {}
    <3>1. SumFunctionOnSet(f, {}) = 0 /\ SumFunctionOnSet(g, {}) = 0 /\ SumFunctionOnSet(h, {}) = 0
      BY SumEmpty
    <3>2. SumFunctionOnSet(f, {}) = SumFunctionOnSet(g, {}) + SumFunctionOnSet(h, {})
      BY <3>1
    <3> QED
      BY <2>3, <3>2
  <2>5. PICK a : a = AnyOf(T)
    OBVIOUS
  <2>6. /\ a \in T /\ SumFunctionOnSet(f, T) = f[a] + SumFunctionOnSet(f, T \ {a})
        /\ SumFunctionOnSet(g, T) = g[a] + SumFunctionOnSet(g, T \ {a})
        /\ SumFunctionOnSet(h, T) = h[a] + SumFunctionOnSet(h, T \ {a})
    BY <2>3, <2>4, <2>5, SumNext
  <2>7. SumFunctionOnSet(f, T \ {a}) = SumFunctionOnSet(g, T \ {a}) + SumFunctionOnSet(h, T \ {a})
    BY <2>2, <2>3, <2>6
  <2>8. /\ SumFunctionOnSet(g, T \ {a}) \in Nat /\ SumFunctionOnSet(h, T \ {a}) \in Nat
        /\ g[a] \in Nat /\ h[a] \in Nat /\ f[a] = g[a] + h[a]
    <3>1. T \ {a} \in SUBSET S /\ a \in S
      BY <2>3, <2>6
    <3> QED
      BY <3>1, SumType
  <2>9. SumFunctionOnSet(f, T) = SumFunctionOnSet(g, T) + SumFunctionOnSet(h, T)
    BY <2>6, <2>7, <2>8
  <2> QED
    BY <2>3, <2>9
<1> QED
  BY <1>1

\* A sum of zeros and ones counts the ones.
LEMMA SumCounts ==
  ASSUME NEW S, IsFiniteSet(S), NEW f, \A x \in S : f[x] \in {0, 1}
  PROVE  SumFunctionOnSet(f, S) = Cardinality({x \in S : f[x] = 1})
<1> DEFINE Ones(T) == {x \in T : f[x] = 1}
           B == {T \in SUBSET S : SumFunctionOnSet(f, T) # Cardinality(Ones(T))}
<1>1. ASSUME B # {} PROVE FALSE
  <2>1. B \in SUBSET (SUBSET S)
    OBVIOUS
  <2>2. PICK T \in B : \A U \in SUBSET T : U # T => U \notin B
    <3> HIDE DEF B
    <3> QED
      BY <1>1, <2>1, SmallestSubset
  <2>3. T \in SUBSET S /\ IsFiniteSet(T) /\ SumFunctionOnSet(f, T) # Cardinality(Ones(T))
    BY <2>2, FS_Subset
  <2>4. T # {}
    <3>1. SumFunctionOnSet(f, {}) = 0 /\ Cardinality({}) = 0 /\ Ones({}) = {}
      BY SumEmpty, FS_EmptySet
    <3> QED
      BY <2>3, <3>1
  <2>5. PICK a : a = AnyOf(T)
    OBVIOUS
  <2>6. a \in T /\ SumFunctionOnSet(f, T) = f[a] + SumFunctionOnSet(f, T \ {a})
    BY <2>3, <2>4, <2>5, SumNext
  <2>7. SumFunctionOnSet(f, T \ {a}) = Cardinality(Ones(T \ {a}))
    BY <2>2, <2>3, <2>6
  <2>8. IsFiniteSet(Ones(T)) /\ Ones(T \ {a}) = Ones(T) \ {a}
    BY <2>3, FS_Subset
  <2>9. Cardinality(Ones(T)) \in Nat
    BY <2>8, FS_CardinalityType
  <2>10. Cardinality(Ones(T \ {a})) = IF a \in Ones(T) THEN Cardinality(Ones(T)) - 1 ELSE Cardinality(Ones(T))
    <3> HIDE DEF Ones
    <3> QED
      BY <2>8, FS_RemoveElement, ZenonT(60)
  <2>11. f[a] = IF a \in Ones(T) THEN 1 ELSE 0
    BY <2>3, <2>6
  <2> HIDE DEF Ones
  <2> QED
    BY <2>3, <2>6, <2>7, <2>9, <2>10, <2>11
<1> QED
  BY <1>1
=============================================================================
