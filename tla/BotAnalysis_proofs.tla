-------------------------- MODULE BotAnalysis_proofs --------------------------
(***************************************************************************)
(* For any users, trees and simulated sessions: the funnel of the log       *)
(* balances at each node, and counts the users and sessions that are there. *)
(***************************************************************************)
EXTENDS BotAnalysis, TreeBot_proofs, SumLemmas, SequenceTheorems

USE DEF simVars, allVars, botVars, telegramVars, taskVars, countVars

-----------------------------------------------------------------------------
(* The loop of compute_funnel: what one more event makes of a session.  The  *)
(* fold of the community modules is a recursion over the sets of the indices *)
(* of the log, each of which gives up its largest.                          *)

NoSession == [visited |-> <<>>, finished |-> FALSE]

ReadsUp(l, S, it) ==
  it = [T \in SUBSET S |-> IF T = {} THEN NoSession ELSE Reads(it[T \ {Max(T)}], l[Max(T)])]

LEMMA SessionDef ==
  ASSUME NEW l
  PROVE  Session(l) = (CHOOSE it : ReadsUp(l, DOMAIN l, it))[DOMAIN l]
BY DEF Session, FoldLeft, MapThenFoldSet, ReadsUp, NoSession

\* The largest of a set of indices.
LEMMA MaxIs ==
  ASSUME NEW n \in Nat, NEW T \in SUBSET (1..n), T # {}
  PROVE  Max(T) \in T /\ \A i \in T : i <= Max(T)
<1>1. \E i \in T : \A j \in T : i >= j
  <2>1. PICK i \in T : \A j \in T : j <= i
    BY LargestExists
  <2> QED
    BY <2>1
<1>2. Max(T) \in T /\ \A j \in T : Max(T) >= j
  BY <1>1 DEF Max
<1> QED
  BY <1>2

\* Two logs that agree on some indices have been read alike there.
LEMMA ReadsUnique ==
  ASSUME NEW n \in Nat, NEW k \in Nat, k <= n, NEW l, NEW m, \A i \in 1..k : l[i] = m[i],
         NEW it, ReadsUp(l, 1..n, it), NEW jt, ReadsUp(m, 1..k, jt)
  PROVE  \A U \in SUBSET (1..k) : it[U] = jt[U]
<1> DEFINE B == {U \in SUBSET (1..k) : it[U] # jt[U]}
<1>1. ASSUME B # {} PROVE FALSE
  <2>1. B \in SUBSET (SUBSET (1..k)) /\ IsFiniteSet(1..k)
    BY FS_Interval
  <2>2. PICK U \in B : \A V \in SUBSET U : V # U => V \notin B
    <3> HIDE DEF B
    <3> QED
      BY <1>1, <2>1, SmallestSubset
  <2>3. U \in SUBSET (1..k) /\ U \in SUBSET (1..n) /\ it[U] # jt[U]
    BY <2>2
  <2>4. /\ it[U] = IF U = {} THEN NoSession ELSE Reads(it[U \ {Max(U)}], l[Max(U)])
        /\ jt[U] = IF U = {} THEN NoSession ELSE Reads(jt[U \ {Max(U)}], m[Max(U)])
    BY <2>3 DEF ReadsUp
  <2>5. U # {} /\ Max(U) \in U
    BY <2>3, <2>4, MaxIs
  <2>6. it[U \ {Max(U)}] = jt[U \ {Max(U)}]
    BY <2>2, <2>5
  <2>7. l[Max(U)] = m[Max(U)]
    BY <2>3, <2>5
  <2> QED
    BY <2>3, <2>4, <2>6, <2>7
<1> QED
  BY <1>1

\* A set of natural numbers has a least: how facts are proved by induction on a length.
LEMMA LeastExists ==
  ASSUME NEW B \in SUBSET Nat, B # {}
  PROVE  \E n \in B : n = 0 \/ (n - 1 \in Nat /\ n - 1 \notin B)
<1>1. PICK n \in B : \A m \in B : ~(<<m, n>> \in OpToRel(<, Nat))
  BY WFMin, NatLessThanWellFounded
<1>2. \A m \in B : ~(m < n)
  BY <1>1 DEF OpToRel
<1> QED
  BY <1>2

\* The recursion has a solution: that of a log with one event less, and of the sets with
\* the last event what that event makes of it.
LEMMA ReadsExist ==
  ASSUME NEW l
  PROVE  \A n \in Nat : \E it : ReadsUp(l, 1..n, it)
<1> DEFINE B == {n \in Nat : ~\E it : ReadsUp(l, 1..n, it)}
<1>1. ASSUME B # {} PROVE FALSE
  <2>1. PICK n \in B : n = 0 \/ (n - 1 \in Nat /\ n - 1 \notin B)
    <3> HIDE DEF B
    <3> QED
      BY <1>1, LeastExists DEF B
  <2>2. n \in Nat /\ ~\E it : ReadsUp(l, 1..n, it)
    BY <2>1
  <2>3. n # 0
    <3>1. ReadsUp(l, {}, [T \in SUBSET {} |-> NoSession])
      BY DEF ReadsUp
    <3> QED
      BY <2>2, <3>1
  <2>4. PICK k \in Nat : n = k + 1
    BY <2>1, <2>2, <2>3
  <2>5. PICK it : ReadsUp(l, 1..k, it)
    BY <2>1, <2>3, <2>4
  <2> DEFINE jt == [T \in SUBSET (1..n) |-> IF n \in T THEN Reads(it[T \ {n}], l[n]) ELSE it[T]]
  <2>6. ASSUME NEW T \in SUBSET (1..n)
        PROVE  jt[T] = IF T = {} THEN NoSession ELSE Reads(jt[T \ {Max(T)}], l[Max(T)])
    <3>1. CASE n \in T
      <4>1. Max(T) = n
        <5>1. Max(T) \in T /\ \A i \in T : i <= Max(T)
          BY <2>2, <3>1, MaxIs
        <5>2. Max(T) \in 1..n /\ n <= Max(T)
          BY <3>1, <5>1
        <5> QED
          BY <2>2, <5>2
      <4>2. jt[T \ {n}] = it[T \ {n}]
        OBVIOUS
      <4> QED
        BY <3>1, <4>1, <4>2
    <3>2. CASE n \notin T
      <4>1. T \in SUBSET (1..k)
        BY <2>4, <3>2
      <4>2. it[T] = IF T = {} THEN NoSession ELSE Reads(it[T \ {Max(T)}], l[Max(T)])
        BY <2>5, <4>1 DEF ReadsUp
      <4>3. jt[T] = it[T] /\ jt[T \ {Max(T)}] = it[T \ {Max(T)}]
        BY <3>2
      <4> QED
        BY <4>2, <4>3
    <3> QED
      BY <3>1, <3>2
  <2>7. jt = [T \in SUBSET (1..n) |-> IF T = {} THEN NoSession ELSE Reads(jt[T \ {Max(T)}], l[Max(T)])]
    BY <2>6
  <2>8. ReadsUp(l, 1..n, jt)
    BY <2>7 DEF ReadsUp
  <2> QED
    BY <2>2, <2>8
<1> QED
  BY <1>1

\* An empty log is no session.
LEMMA SessionOfNone == Session(<<>>) = NoSession
<1>1. DOMAIN <<>> = 1..0 /\ 1..0 = {}
  OBVIOUS
<1>2. PICK it : it = CHOOSE jt : ReadsUp(<<>>, 1..0, jt)
  OBVIOUS
<1>3. ReadsUp(<<>>, 1..0, it)
  BY <1>2, ReadsExist
<1>4. it[1..0] = NoSession
  BY <1>1, <1>3 DEF ReadsUp
<1> QED
  BY <1>1, <1>2, <1>4, SessionDef

\* One more event is read after all those before it.
LEMMA SessionAppend ==
  ASSUME NEW S, NEW l \in Seq(S), NEW e \in S
  PROVE  Session(Append(l, e)) = Reads(Session(l), e)
<1>1. PICK m : m = Append(l, e)
  OBVIOUS
<1>2. PICK k \in Nat : k = Len(l)
  OBVIOUS
<1>3. PICK n \in Nat : n = k + 1
  OBVIOUS
<1>4. DOMAIN l = 1..k /\ DOMAIN m = 1..n /\ m[n] = e /\ \A i \in 1..k : m[i] = l[i]
  BY <1>1, <1>2, <1>3
<1>5. PICK it : it = CHOOSE jt : ReadsUp(m, 1..n, jt)
  OBVIOUS
<1>6. PICK jt : jt = CHOOSE kt : ReadsUp(l, 1..k, kt)
  OBVIOUS
<1>7. ReadsUp(m, 1..n, it) /\ ReadsUp(l, 1..k, jt)
  BY <1>5, <1>6, ReadsExist
<1>8. 1..n # {} /\ (1..n) \ {n} = 1..k /\ Max(1..n) = n
  <2>1. 1..n # {} /\ 1..n \in SUBSET (1..n) /\ n \in 1..n
    <3>1. n \in 1..n
      BY <1>3
    <3> QED
      BY <3>1
  <2>2. Max(1..n) \in 1..n /\ \A i \in 1..n : i <= Max(1..n)
    BY <2>1, MaxIs
  <2> QED
    BY <1>3, <2>1, <2>2
<1>9. it[1..n] = Reads(it[1..k], e)
  <2>1. it[1..n] = IF 1..n = {} THEN NoSession ELSE Reads(it[(1..n) \ {Max(1..n)}], m[Max(1..n)])
    BY <1>7 DEF ReadsUp
  <2> QED
    BY <1>4, <1>8, <2>1
<1>10. it[1..k] = jt[1..k]
  <2>1. k <= n /\ 1..k \in SUBSET (1..k)
    BY <1>3
  <2>2. \A U \in SUBSET (1..k) : it[U] = jt[U]
    BY <1>4, <1>7, <2>1, ReadsUnique, SMTT(30)
  <2> QED
    BY <2>1, <2>2
<1> QED
  BY <1>1, <1>4, <1>5, <1>6, <1>9, <1>10, SessionDef

-----------------------------------------------------------------------------
(* What a session says of any log. *)

\* The visits of a session are a sequence, and the last of them is where the log has come to.
SaysWhere(N, l) ==
  /\ Session(l) \in [visited : Seq(N), finished : BOOLEAN]
  /\ Session(l).visited = <<>> => Where(l) = NoNode
  /\ Session(l).visited # <<>> => Last(Session(l).visited) = Where(l)

\* Lines of a log that name nodes of N where compute_funnel looks for them.
Lines(S, N) ==
  \A e \in S : (e.event = "start" => e.node \in N) /\ (e.event = "choice" => e.next \in N)

\* What one more line makes of what is said.
LEMMA SaysAppend ==
  ASSUME NEW S, NEW N, Lines(S, N), NEW l \in Seq(S), NEW e \in S, SaysWhere(N, l)
  PROVE  SaysWhere(N, Append(l, e))
<1>1. PICK r : r = Session(l)
  OBVIOUS
<1>2. PICK q : q = Session(Append(l, e))
  OBVIOUS
<1>3. q = Reads(r, e)
  BY <1>1, <1>2, SessionAppend
<1>4. Where(Append(l, e)) = IF e.event \in Moves THEN Goal(e) ELSE Where(l)
  BY WhereAppend
<1>5. r \in [visited : Seq(N), finished : BOOLEAN]
  BY <1>1 DEF SaysWhere
<1>6. CASE e.event = "start"
  <2>1. q = [visited |-> <<e.node>>, finished |-> FALSE] /\ e.node \in N
    BY <1>3, <1>6 DEF Reads, Lines
  <2>2. Where(Append(l, e)) = e.node
    BY <1>4, <1>6 DEF Moves, Goal
  <2>3. <<e.node>> \in Seq(N) /\ <<e.node>> # <<>> /\ Last(<<e.node>>) = e.node
    BY <2>1 DEF Last
  <2> QED
    BY <1>2, <2>1, <2>2, <2>3 DEF SaysWhere
<1>7. CASE e.event = "choice"
  <2>1. q = [r EXCEPT !.visited = Append(r.visited, e.next)] /\ e.next \in N
    BY <1>3, <1>7 DEF Reads, Lines
  <2>2. Where(Append(l, e)) = e.next
    BY <1>4, <1>7 DEF Moves, Goal
  <2>3. /\ Append(r.visited, e.next) \in Seq(N) /\ Append(r.visited, e.next) # <<>>
        /\ Last(Append(r.visited, e.next)) = e.next
    BY <1>5, <2>1, SMTT(30) DEF Last
  <2>4. q \in [visited : Seq(N), finished : BOOLEAN] /\ q.visited = Append(r.visited, e.next)
    BY <1>5, <2>1, <2>3
  <2> QED
    BY <1>2, <2>2, <2>3, <2>4 DEF SaysWhere
<1>8. CASE e.event \notin Moves
  <2>1. q \in [visited : Seq(N), finished : BOOLEAN] /\ q.visited = r.visited
    <3>1. q = r \/ q = [r EXCEPT !.finished = TRUE]
      BY <1>3, <1>8 DEF Reads, Moves
    <3> QED
      BY <1>5, <3>1
  <2>2. Where(Append(l, e)) = Where(l)
    BY <1>4, <1>8
  <2> QED
    BY <1>1, <1>2, <2>1, <2>2 DEF SaysWhere
<1> QED
  BY <1>6, <1>7, <1>8 DEF Moves

LEMMA SaysOfNone == ASSUME NEW N PROVE SaysWhere(N, <<>>)
<1>1. NoSession \in [visited : Seq(N), finished : BOOLEAN] /\ NoSession.visited = <<>>
  BY DEF NoSession
<1>2. MovesOf(<<>>) = {}
  BY DEF MovesOf
<1>3. Where(<<>>) = NoNode
  BY <1>2 DEF Where
<1> QED
  BY <1>1, <1>3, SessionOfNone DEF SaysWhere

\* It is said of every log.
LEMMA SessionSays ==
  ASSUME NEW S, NEW N, Lines(S, N)
  PROVE  \A l \in Seq(S) : SaysWhere(N, l)
<1> DEFINE B == {n \in Nat : \E l \in Seq(S) : Len(l) = n /\ ~SaysWhere(N, l)}
<1>1. ASSUME B # {} PROVE FALSE
  <2>1. PICK n \in B : n = 0 \/ (n - 1 \in Nat /\ n - 1 \notin B)
    <3> HIDE DEF B
    <3> QED
      BY <1>1, LeastExists DEF B
  <2>2. PICK l \in Seq(S) : Len(l) = n /\ ~SaysWhere(N, l)
    BY <2>1
  <2>3. l # <<>>
    BY <2>2, SaysOfNone
  <2>4. PICK k \in Seq(S), e \in S : l = Append(k, e)
    BY <2>3, SequenceEmptyOrAppend
  <2>5. Len(l) = Len(k) + 1 /\ Len(k) \in Nat
    BY <2>4
  <2>6. Len(k) = n - 1 /\ n # 0
    BY <2>2, <2>5
  <2>7. SaysWhere(N, k)
    BY <2>1, <2>6
  <2> QED
    BY <2>2, <2>4, <2>7, SaysAppend
<1>2. \A l \in Seq(S) : Len(l) \in Nat
  OBVIOUS
<1> QED
  BY <1>1, <1>2

-----------------------------------------------------------------------------
(* A node in one session: the visits to it, and those that went on from it. *)

\* The visits to a node are those before the last one, and the last one if it was there.
LEMMA TimesSplit ==
  ASSUME NEW N, NEW v \in Seq(N), NEW n
  PROVE  /\ Times(n, v) \in Nat /\ Times(n, SubSeq(v, 1, Len(v) - 1)) \in Nat /\ Ended(v, n) \in {0, 1}
         /\ Times(n, v) = Times(n, SubSeq(v, 1, Len(v) - 1)) + Ended(v, n)
<1>1. PICK k \in Nat : k = Len(v)
  OBVIOUS
<1>2. PICK w : w = SubSeq(v, 1, k - 1)
  OBVIOUS
<1>3. PICK A : A = {i \in DOMAIN v : v[i] = n}
  OBVIOUS
<1>4. PICK C : C = {i \in DOMAIN w : w[i] = n}
  OBVIOUS
<1>5. DOMAIN v = 1..k
  BY <1>1
<1>6. IsFiniteSet(A)
  BY <1>3, <1>5, FS_Interval, FS_Subset
<1>7. Ended(v, n) \in {0, 1}
  BY DEF Ended
<1>8. CASE v = <<>>
  <2>1. k = 0 /\ DOMAIN w = {}
    BY <1>1, <1>2, <1>8
  <2>2. A = {} /\ C = {} /\ Ended(v, n) = 0
    BY <1>3, <1>4, <1>5, <1>8, <2>1 DEF Ended
  <2>3. Cardinality(A) = 0 /\ Cardinality(C) = 0
    BY <2>2, FS_EmptySet
  <2>4. Times(n, v) = Cardinality(A) /\ Times(n, SubSeq(v, 1, Len(v) - 1)) = Cardinality(C)
    BY <1>1, <1>2, <1>3, <1>4 DEF Times
  <2> QED
    BY <2>2, <2>3, <2>4
<1>9. CASE v # <<>>
  <2>1. k \in 1..k /\ k >= 1
    BY <1>1, <1>9
  <2>2. DOMAIN w = 1..(k - 1) /\ \A i \in 1..(k - 1) : w[i] = v[i]
    BY <1>1, <1>2, <2>1
  <2>3. C = A \ {k}
    BY <1>3, <1>4, <1>5, <2>1, <2>2
  <2>4. /\ IsFiniteSet(C)
        /\ Cardinality(C) = IF k \in A THEN Cardinality(A) - 1 ELSE Cardinality(A)
    BY <1>6, <2>3, FS_RemoveElement
  <2>5. Ended(v, n) = IF k \in A THEN 1 ELSE 0
    BY <1>1, <1>3, <1>5, <1>9, <2>1 DEF Ended, Last
  <2>6. Cardinality(A) \in Nat /\ Cardinality(C) \in Nat
    BY <1>6, <2>4, FS_CardinalityType
  <2>7. Times(n, v) = Cardinality(A) /\ Times(n, SubSeq(v, 1, Len(v) - 1)) = Cardinality(C)
    BY <1>1, <1>2, <1>3, <1>4 DEF Times
  <2> QED
    BY <1>7, <2>4, <2>5, <2>6, <2>7
<1> QED
  BY <1>8, <1>9

\* A session: each visit to a node went on, or the session was dropped there.
LEMMA SessionBalances ==
  ASSUME NEW N, NEW s \in [visited : Seq(N), finished : BOOLEAN], NEW n,
         NEW t, t = Times(n, s.visited),
         NEW c, c = Times(n, SubSeq(s.visited, 1, Len(s.visited) - 1)) + (IF s.finished THEN Ended(s.visited, n) ELSE 0),
         NEW d, d = IF s.finished THEN 0 ELSE Ended(s.visited, n)
  PROVE  t \in Nat /\ c \in Nat /\ d \in {0, 1} /\ t = c + d
<1>1. s.visited \in Seq(N) /\ s.finished \in BOOLEAN
  OBVIOUS
<1>2. PICK p : p = Times(n, SubSeq(s.visited, 1, Len(s.visited) - 1))
  OBVIOUS
<1>3. PICK e : e = Ended(s.visited, n)
  OBVIOUS
<1>4. t \in Nat /\ p \in Nat /\ e \in {0, 1} /\ t = p + e
  BY <1>1, <1>2, <1>3, TimesSplit
<1>5. c = p + (IF s.finished THEN e ELSE 0) /\ d = IF s.finished THEN 0 ELSE e
  BY <1>2, <1>3
<1> QED
  BY <1>4, <1>5

\* The funnel of any logs: what holds of each session holds of them all.
LEMMA Balances ==
  ASSUME NEW N, NEW L, IsFiniteSet(DOMAIN L), NEW n,
         \A u \in DOMAIN L : Session(L[u]) \in [visited : Seq(N), finished : BOOLEAN]
  PROVE  Reached(L, n) = Completed(L, n) + Dropped(L, n)
<1> DEFINE S(u) == Session(L[u])
           T(u) == Times(n, S(u).visited)
           C(u) == Times(n, SubSeq(S(u).visited, 1, Len(S(u).visited) - 1))
                   + (IF S(u).finished THEN Ended(S(u).visited, n) ELSE 0)
           D(u) == IF S(u).finished THEN 0 ELSE Ended(S(u).visited, n)
<1>1. PICK U : U = DOMAIN L
  OBVIOUS
<1>2. ASSUME NEW u \in U PROVE T(u) \in Nat /\ C(u) \in Nat /\ D(u) \in Nat /\ T(u) = C(u) + D(u)
  <2>1. S(u) \in [visited : Seq(N), finished : BOOLEAN]
    BY <1>1
  <2>2. T(u) \in Nat /\ C(u) \in Nat /\ D(u) \in {0, 1} /\ T(u) = C(u) + D(u)
    BY <2>1, SessionBalances
  <2> QED
    BY <2>2
<1>3. /\ Reached(L, n) = SumFunctionOnSet([u \in U |-> T(u)], U)
      /\ Completed(L, n) = SumFunctionOnSet([u \in U |-> C(u)], U)
      /\ Dropped(L, n) = SumFunctionOnSet([u \in U |-> D(u)], U)
  BY <1>1 DEF Reached, Completed, Dropped, SumFunction
<1> HIDE DEF T, C, D, S
<1>4. PICK f : f = [u \in U |-> T(u)]
  OBVIOUS
<1>5. PICK g : g = [u \in U |-> C(u)]
  OBVIOUS
<1>6. PICK h : h = [u \in U |-> D(u)]
  OBVIOUS
<1>7. \A u \in U : f[u] \in Nat /\ g[u] \in Nat /\ h[u] \in Nat /\ f[u] = g[u] + h[u]
  BY <1>2, <1>4, <1>5, <1>6
<1>8. SumFunctionOnSet(f, U) = SumFunctionOnSet(g, U) + SumFunctionOnSet(h, U)
  BY <1>1, <1>7, SumOfSums
<1> QED
  BY <1>3, <1>4, <1>5, <1>6, <1>8

-----------------------------------------------------------------------------
(* The simulated sessions *)

SimNodes == {START, NoNode} \cup UNION {DOMAIN t : t \in SimTrees}
SimEvents == [event : Moves \cup {"invalid_input", "complete"}, node : SimNodes, next : SimNodes]

SimTypeOK ==
  /\ simTree \in [Sessions -> {t \in SimTrees : Loads(t)}]
  /\ simAt \in [Sessions -> SimNodes] /\ \A s \in Sessions : simAt[s] # NoNode => simAt[s] \in DOMAIN simTree[s]
  /\ simLog \in [Sessions -> Seq(SimEvents)]

\* A session that has not begun is nowhere; its end is its last line, and leaves it nowhere.
EndsLast ==
  \A s \in Sessions :
    /\ simLog[s] = <<>> => simAt[s] = NoNode
    /\ simLog[s] # <<>> => (Session(simLog[s]).finished <=> simLog[s][Len(simLog[s])].event = "complete")
    /\ Session(simLog[s]).finished => simAt[s] = NoNode

SimInv == SimTypeOK /\ EndsLast

LEMMA SimLines == Lines(SimEvents, SimNodes)
  BY DEF Lines, SimEvents

\* What one more line makes of whether a log has been read to its end.
LEMMA EndRead ==
  ASSUME NEW S, NEW N, Lines(S, N), NEW l \in Seq(S), NEW e \in S
  PROVE  Session(Append(l, e)).finished =
           (IF e.event = "start" THEN FALSE ELSE IF e.event = "complete" THEN TRUE ELSE Session(l).finished)
<1>1. PICK r : r = Session(l)
  OBVIOUS
<1>2. r \in [visited : Seq(N), finished : BOOLEAN]
  BY <1>1, SessionSays DEF SaysWhere
<1>3. Session(Append(l, e)) = Reads(r, e)
  BY <1>1, SessionAppend
<1>4. Reads(r, e).finished = (IF e.event = "start" THEN FALSE ELSE IF e.event = "complete" THEN TRUE ELSE r.finished)
  BY <1>2 DEF Reads
<1> QED
  BY <1>1, <1>3, <1>4

\* A session that takes a step: what its line and the node it goes to have to be.
LEMMA SessionGoesOn ==
  ASSUME SimInv, NEW s \in Sessions, NEW e \in SimEvents, NEW n \in SimNodes,
         simTree' = simTree, simLog' = [simLog EXCEPT ![s] = Append(@, e)], simAt' = [simAt EXCEPT ![s] = n],
         n # NoNode => n \in DOMAIN simTree[s],
         e.event = "complete" => n = NoNode,
         simAt[s] # NoNode \/ e.event = "start"
  PROVE  SimInv'
<1>1. /\ simLog'[s] = Append(simLog[s], e) /\ simAt'[s] = n /\ simLog[s] \in Seq(SimEvents)
      /\ \A r \in Sessions : r # s => simLog'[r] = simLog[r] /\ simAt'[r] = simAt[r]
  BY DEF SimInv, SimTypeOK
<1>2. SimTypeOK'
  <2>1. Append(simLog[s], e) \in Seq(SimEvents)
    BY <1>1
  <2>2. simLog' \in [Sessions -> Seq(SimEvents)] /\ simAt' \in [Sessions -> SimNodes]
    BY <2>1 DEF SimInv, SimTypeOK
  <2> QED
    BY <1>1, <2>2 DEF SimInv, SimTypeOK
<1>3. /\ simLog'[s] # <<>> /\ simLog'[s][Len(simLog'[s])] = e
  BY <1>1
<1>4. Session(simLog'[s]).finished =
        (IF e.event = "start" THEN FALSE ELSE IF e.event = "complete" THEN TRUE ELSE Session(simLog[s]).finished)
  <2>1. PICK l \in Seq(SimEvents) : l = simLog[s]
    BY <1>1
  <2>2. Session(Append(l, e)).finished =
          (IF e.event = "start" THEN FALSE ELSE IF e.event = "complete" THEN TRUE ELSE Session(l).finished)
    BY SimLines, EndRead
  <2> QED
    BY <1>1, <2>1, <2>2
<1>5. e.event # "start" => ~Session(simLog[s]).finished
  BY DEF SimInv, EndsLast
<1>6. Session(simLog'[s]).finished <=> e.event = "complete"
  BY <1>4, <1>5
<1>7. ASSUME NEW r \in Sessions
      PROVE  /\ simLog'[r] = <<>> => simAt'[r] = NoNode
             /\ simLog'[r] # <<>> => (Session(simLog'[r]).finished <=> simLog'[r][Len(simLog'[r])].event = "complete")
             /\ Session(simLog'[r]).finished => simAt'[r] = NoNode
  <2>1. CASE r = s
    BY <1>1, <1>3, <1>6, <2>1
  <2>2. CASE r # s
    BY <1>1, <2>2 DEF SimInv, EndsLast
  <2> QED
    BY <2>1, <2>2
<1> QED
  BY <1>2, <1>7 DEF SimInv, EndsLast

LEMMA SimInvInit == SimInit => SimInv
<1> SUFFICES ASSUME SimInit PROVE SimInv
  OBVIOUS
<1>1. SimTypeOK
  BY DEF SimInit, SimTypeOK, SimNodes
<1>2. \A s \in Sessions : simAt[s] = NoNode /\ simLog[s] = <<>>
  BY DEF SimInit
<1> QED
  BY <1>1, <1>2 DEF SimInv, EndsLast

LEMMA SimInvKept == SimInv /\ [SimNext]_simVars => SimInv'
<1> SUFFICES ASSUME SimInv, [SimNext]_simVars PROVE SimInv'
  OBVIOUS
<1> DEFINE L(e, n, x) == [event |-> e, node |-> n, next |-> x]
<1>1. NoNode \in SimNodes /\ START \in SimNodes
  BY DEF SimNodes
<1>2. ASSUME NEW s \in Sessions
      PROVE  /\ START \in DOMAIN simTree[s] /\ simAt[s] \in SimNodes
             /\ simLog \in [Sessions -> Seq(SimEvents)] /\ simAt \in [Sessions -> SimNodes]
             /\ \A n, x \in SimNodes : \A e \in Moves \cup {"invalid_input", "complete"} : L(e, n, x) \in SimEvents
  BY DEF SimInv, SimTypeOK, SimEvents, Loads
<1>3. ASSUME NEW s \in Sessions, SimStarts(s) PROVE SimInv'
  <2>1. PICK e \in SimEvents : e = L("start", START, NoNode)
    BY <1>1, <1>2 DEF Moves
  <2>2. /\ simLog' = [simLog EXCEPT ![s] = Append(@, e)] /\ simAt' = [simAt EXCEPT ![s] = START]
        /\ simTree' = simTree /\ e.event = "start"
    BY <1>3, <2>1 DEF SimStarts, SimLogs
  <2> QED
    BY <1>1, <1>2, <2>2, SessionGoesOn
<1>4. ASSUME NEW s \in Sessions, SimCompletes(s) PROVE SimInv'
  <2>1. PICK e \in SimEvents : e = L("complete", simAt[s], NoNode)
    BY <1>1, <1>2
  <2>2. /\ simLog' = [simLog EXCEPT ![s] = Append(@, e)] /\ simAt' = [simAt EXCEPT ![s] = NoNode]
        /\ simTree' = simTree /\ simAt[s] # NoNode
    BY <1>4, <2>1 DEF SimCompletes, SimLogs
  <2> QED
    BY <1>1, <2>2, SessionGoesOn
<1>5. ASSUME NEW s \in Sessions, SimQuits(s) PROVE SimInv'
  <2>1. PICK e \in SimEvents : e = L("invalid_input", simAt[s], NoNode)
    BY <1>1, <1>2
  <2>2. /\ simLog' = [simLog EXCEPT ![s] = Append(@, e)] /\ simAt' = [simAt EXCEPT ![s] = NoNode]
        /\ simTree' = simTree /\ simAt[s] # NoNode /\ e.event # "complete"
    BY <1>5, <2>1 DEF SimQuits, SimLogs, AtPrompt
  <2> QED
    BY <1>1, <2>2, SessionGoesOn
<1>6. ASSUME NEW s \in Sessions, SimDies(s) PROVE SimInv'
  <2>1. simAt' = [simAt EXCEPT ![s] = NoNode] /\ UNCHANGED <<simTree, simLog>>
    BY <1>6 DEF SimDies
  <2> QED
    BY <1>1, <2>1 DEF SimInv, SimTypeOK, EndsLast
<1>7. ASSUME NEW s \in Sessions, SimMistakes(s) PROVE SimInv'
  <2>1. PICK e \in SimEvents : e = L("invalid_input", simAt[s], NoNode)
    BY <1>1, <1>2
  <2>2. /\ simLog' = [simLog EXCEPT ![s] = Append(@, e)] /\ simAt' = [simAt EXCEPT ![s] = simAt[s]]
        /\ simTree' = simTree /\ simAt[s] # NoNode /\ e.event # "complete"
    BY <1>2, <1>7, <2>1 DEF SimMistakes, SimLogs, AtPrompt
  <2>3. simAt[s] \in DOMAIN simTree[s]
    BY <2>2 DEF SimInv, SimTypeOK
  <2> QED
    BY <1>2, <2>2, <2>3, SessionGoesOn
<1>8. ASSUME NEW s \in Sessions, SimChooses(s) PROVE SimInv'
  <2>1. /\ simAt[s] # NoNode /\ simTree' = simTree
        /\ \E i \in 0..(Len(simTree[s][simAt[s]]) - 1) :
             LET next == Resolve(simTree[s], simAt[s], i) IN
             SimLogs(s, "choice", simAt[s], next) /\ simAt' = [simAt EXCEPT ![s] = next]
    BY <1>8 DEF SimChooses, AtPrompt
  <2>2. PICK i \in 0..(Len(simTree[s][simAt[s]]) - 1) :
          LET next == Resolve(simTree[s], simAt[s], i) IN
          SimLogs(s, "choice", simAt[s], next) /\ simAt' = [simAt EXCEPT ![s] = next]
    BY <2>1
  <2>3. PICK t : t = simTree[s]
    OBVIOUS
  <2>4. PICK n : n = Resolve(t, simAt[s], i)
    OBVIOUS
  <2>5. t \in SimTrees /\ Loads(t) /\ t \in [DOMAIN t -> Seq(DOMAIN t)] /\ simAt[s] \in DOMAIN t
    BY <2>1, <2>3, AnalysisAssumption DEF SimInv, SimTypeOK
  <2>6. n \in DOMAIN t
    <3>1. t[simAt[s]] \in Seq(DOMAIN t)
      BY <2>5
    <3>2. i \in Nat /\ i < Len(t[simAt[s]])
      BY <2>3, <3>1
    <3> QED
      BY <2>4, <3>1, <3>2 DEF Resolve
  <2>7. n \in SimNodes
    BY <2>5, <2>6 DEF SimNodes
  <2>8. PICK e \in SimEvents : e = L("choice", simAt[s], n)
    BY <1>2, <2>7 DEF Moves
  <2>9. /\ simLog' = [simLog EXCEPT ![s] = Append(@, e)] /\ simAt' = [simAt EXCEPT ![s] = n] /\ e.event # "complete"
    BY <2>2, <2>3, <2>4, <2>8 DEF SimLogs
  <2> QED
    BY <2>1, <2>3, <2>6, <2>7, <2>9, SessionGoesOn
<1>9. CASE UNCHANGED simVars
  BY <1>9 DEF SimInv, SimTypeOK, EndsLast
<1> QED
  BY <1>3, <1>4, <1>5, <1>6, <1>7, <1>8, <1>9 DEF SimNext

-----------------------------------------------------------------------------
(* The funnel balances *)

LEMMA BotLines == Lines(Events, Nodes \cup {NoNode})
  BY DEF Lines, Events

\* The logs of users and of sessions, as compute_funnel has them.
LEMMA LogsRead ==
  ASSUME TypeOK, SimTypeOK
  PROVE  /\ DOMAIN logs = Users \cup Sessions /\ IsFiniteSet(DOMAIN logs)
         /\ \A u \in Users : logs[u] = log[u] /\ SaysWhere(Nodes \cup {NoNode}, log[u])
         /\ \A s \in Sessions : logs[s] = simLog[s] /\ SaysWhere(SimNodes, simLog[s])
<1>1. DOMAIN logs = Users \cup Sessions /\ Users \cap Sessions = {}
  BY AnalysisAssumption DEF logs
<1>2. IsFiniteSet(DOMAIN logs)
  BY <1>1, AnalysisAssumption, FS_Union
<1>3. ASSUME NEW u \in Users PROVE logs[u] = log[u] /\ SaysWhere(Nodes \cup {NoNode}, log[u])
  <2>1. logs[u] = log[u] /\ log[u] \in Seq(Events)
    BY DEF logs, TypeOK
  <2> QED
    BY <2>1, BotLines, SessionSays
<1>4. ASSUME NEW s \in Sessions PROVE logs[s] = simLog[s] /\ SaysWhere(SimNodes, simLog[s])
  <2>1. logs[s] = simLog[s] /\ simLog[s] \in Seq(SimEvents)
    BY <1>1 DEF logs, SimTypeOK
  <2> QED
    BY <2>1, SimLines, SessionSays
<1> QED
  BY <1>1, <1>2, <1>3, <1>4

LEMMA LogsBalance == TypeOK /\ SimTypeOK => FunnelBalances
<1> SUFFICES ASSUME TypeOK, SimTypeOK, NEW n \in Nodes
             PROVE  Reached(logs, n) = Completed(logs, n) + Dropped(logs, n)
  BY DEF FunnelBalances
<1>1. PICK N : N = Nodes \cup {NoNode} \cup SimNodes
  OBVIOUS
<1>2. ASSUME NEW u \in DOMAIN logs PROVE Session(logs[u]) \in [visited : Seq(N), finished : BOOLEAN]
  <2>1. CASE u \in Users
    <3>1. Session(logs[u]) \in [visited : Seq(Nodes \cup {NoNode}), finished : BOOLEAN]
      BY <2>1, LogsRead DEF SaysWhere
    <3>2. Nodes \cup {NoNode} \subseteq N
      BY <1>1
    <3> QED
      BY <3>1, <3>2
  <2>2. CASE u \in Sessions
    <3>1. Session(logs[u]) \in [visited : Seq(SimNodes), finished : BOOLEAN]
      BY <2>2, LogsRead DEF SaysWhere
    <3>2. SimNodes \subseteq N
      BY <1>1
    <3> QED
      BY <3>1, <3>2
  <2> QED
    BY <2>1, <2>2, LogsRead
<1> QED
  BY <1>2, LogsRead, Balances

\* The bot goes on beside the sessions as it does alone, and they as they do beside it.
LEMMA Beside == [AllNext]_allVars => [BotNext]_botVars /\ [SimNext]_simVars
  BY DEF AllNext

LEMMA AllTypes == AllSpec => [](TypeOK /\ LogInv /\ SimInv)
<1>1. AllSpec => BotSpec
  <2>1. AllInit => Init
    BY DEF AllInit
  <2> QED
    BY <2>1, Beside, PTL DEF AllSpec, BotSpec
<1>2. AllInit => LogInv /\ SimInv
  BY LogInvInit, SimInvInit DEF AllInit
<1> QED
  BY <1>1, <1>2, TypeCorrect, LogInvKept, SimInvKept, Beside, PTL DEF AllSpec

\* analyze.py:3: for any trees, users and sessions, after any crash, redelivery or failed
\* call: of the visits to a node, each went on or was dropped there.
THEOREM FunnelIsBalanced == AllSpec => []FunnelBalances
<1>1. TypeOK /\ LogInv /\ SimInv => FunnelBalances
  BY LogsBalance DEF SimInv
<1> QED
  BY <1>1, AllTypes, PTL

-----------------------------------------------------------------------------
(* The funnel says where users are *)

\* Nothing has gone wrong so far.
Calm == crashes = 0 /\ failures = 0

\* A choice has led the user to a leaf, and the message shows it.
AtEnd(u) ==
  /\ state[u] \notin {NoNode, START} /\ IsLeaf(tree, state[u])
  /\ ~(awaits = "edit" /\ User = u /\ shows.at = state[u])

\* While nothing goes wrong, a session in the log is at its end exactly if its user is.  From
\* a root that is a leaf nobody goes on.
EndsWithUsers ==
  Calm =>
    /\ up
    /\ \A u \in Users : state[u] = NoNode => Where(log[u]) = NoNode
    /\ \A u \in Users : Session(log[u]).finished <=> AtEnd(u)
    /\ IsLeaf(tree, START) => \A u \in Users : state[u] \in {NoNode, START}
    /\ awaits = "edit" /\ shows.at # NoNode => state[User] = shows.at /\ ~IsLeaf(tree, START)

\* What a line of a user makes of the sessions of all.
LEMMA LineRead ==
  ASSUME TypeOK, NEW v \in Users, NEW e \in Events, Logs(v, e)
  PROVE  /\ Where(log'[v]) = IF e.event \in Moves THEN Goal(e) ELSE Where(log[v])
         /\ Session(log'[v]).finished =
              (IF e.event = "start" THEN FALSE ELSE IF e.event = "complete" THEN TRUE ELSE Session(log[v]).finished)
         /\ \A u \in Users : u # v => log'[u] = log[u]
<1>1. /\ log'[v] = Append(log[v], e) /\ \A u \in Users : u # v => log'[u] = log[u]
      /\ Where(log'[v]) = IF e.event \in Moves THEN Goal(e) ELSE Where(log[v])
  BY LogsFacts DEF TypeOK
<1>2. PICK l \in Seq(Events) : l = log[v]
  BY DEF TypeOK
<1>3. Session(Append(l, e)).finished =
        (IF e.event = "start" THEN FALSE ELSE IF e.event = "complete" THEN TRUE ELSE Session(l).finished)
  BY BotLines, EndRead
<1> QED
  BY <1>1, <1>2, <1>3

LEMMA EndsNext ==
  ASSUME EndsWithUsers, UNCHANGED <<tree, up, crashes, failures>>,
         Calm => /\ \A u \in Users : state'[u] = NoNode => Where(log'[u]) = NoNode
                 /\ \A u \in Users : Session(log'[u]).finished <=> AtEnd(u)'
                 /\ IsLeaf(tree, START) => \A u \in Users : state'[u] \in {NoNode, START}
                 /\ awaits' = "edit" /\ shows'.at # NoNode => state'[User'] = shows'.at /\ ~IsLeaf(tree, START)
  PROVE  EndsWithUsers'
<1>1. Calm' <=> Calm
  BY DEF Calm
<1>2. IsLeaf(tree, START)' <=> IsLeaf(tree, START)
  BY DEF IsLeaf
<1>3. Calm => up'
  BY DEF EndsWithUsers
<1> QED
  BY <1>1, <1>2, <1>3 DEF EndsWithUsers

LEMMA BeginKeepsEnds ==
  ASSUME TypeOK, EndsWithUsers, HandlerBegins
  PROVE  EndsWithUsers'
<1>1. PICK q : q = Head(inbox)
  OBVIOUS
<1>2. /\ q.user \in Users /\ awaits' \in {"reply", "answer"}
      /\ \/ /\ StartBegins(q) /\ Logs(q.user, Line("start", START, NoNode))
            /\ Line("start", START, NoNode) \in Events
            /\ state' = [state EXCEPT ![q.user] = START]
         \/ \E n \in Nodes : /\ TextBegins(q) /\ Logs(q.user, Line("invalid_input", n, NoNode))
                             /\ Line("invalid_input", n, NoNode) \in Events /\ state' = state
         \/ TapBegins(q) /\ UNCHANGED <<state, log>>
  BY <1>1, BeginsLog
<1>3. Begins(q)
  BY <1>2 DEF StartBegins, TextBegins, TapBegins
<1>4. current = NoUpdate /\ UNCHANGED <<tree, up, crashes, failures>>
  BY <1>3 DEF Begins
<1>5. awaits # "edit" /\ awaits' # "edit"
  BY <1>2, <1>4 DEF TypeOK
<1> SUFFICES ASSUME Calm
             PROVE  /\ \A u \in Users : state'[u] = NoNode => Where(log'[u]) = NoNode
                    /\ \A u \in Users : Session(log'[u]).finished <=> AtEnd(u)'
                    /\ IsLeaf(tree, START) => \A u \in Users : state'[u] \in {NoNode, START}
  BY <1>4, <1>5, EndsNext
<1>6. ASSUME NEW u \in Users, state'[u] = state[u] PROVE AtEnd(u)' <=> AtEnd(u)
  BY <1>4, <1>5, <1>6 DEF AtEnd, IsLeaf
<1>7. CASE /\ Logs(q.user, Line("start", START, NoNode)) /\ Line("start", START, NoNode) \in Events
           /\ state' = [state EXCEPT ![q.user] = START]
  <2>1. Line("start", START, NoNode).event = "start"
    BY DEF Line
  <2>2. ~Session(log'[q.user]).finished /\ \A u \in Users : u # q.user => log'[u] = log[u]
    BY <1>2, <1>7, <2>1, LineRead
  <2>3. state'[q.user] = START /\ \A u \in Users : u # q.user => state'[u] = state[u]
    BY <1>2, <1>7 DEF TypeOK
  <2>4. START # NoNode
    BY BotAssumption DEF Nodes
  <2>5. ~AtEnd(q.user)'
    BY <2>3 DEF AtEnd
  <2>6. \A u \in Users : u # q.user => (AtEnd(u)' <=> AtEnd(u))
    BY <1>6, <2>3
  <2> QED
    BY <2>2, <2>3, <2>4, <2>5, <2>6 DEF EndsWithUsers
<1>8. CASE \E n \in Nodes : /\ Logs(q.user, Line("invalid_input", n, NoNode))
                            /\ Line("invalid_input", n, NoNode) \in Events /\ state' = state
  <2>1. PICK e \in Events : Logs(q.user, e) /\ e.event = "invalid_input" /\ state' = state
    BY <1>8 DEF Line
  <2>2. /\ Where(log'[q.user]) = Where(log[q.user])
        /\ Session(log'[q.user]).finished <=> Session(log[q.user]).finished
        /\ \A u \in Users : u # q.user => log'[u] = log[u]
    BY <1>2, <2>1, LineRead DEF Moves
  <2>3. \A u \in Users : AtEnd(u)' <=> AtEnd(u)
    BY <1>6, <2>1
  <2> QED
    BY <2>1, <2>2, <2>3 DEF EndsWithUsers
<1>9. CASE UNCHANGED <<state, log>>
  <2>1. \A u \in Users : AtEnd(u)' <=> AtEnd(u)
    BY <1>6, <1>9
  <2> QED
    BY <1>9, <2>1 DEF EndsWithUsers
<1> QED
  BY <1>2, <1>7, <1>8, <1>9

LEMMA RefusalKeepsEnds ==
  ASSUME TypeOK, EndsWithUsers, TapStale \/ TapBad
  PROVE  EndsWithUsers'
<1>1. User \in Users /\ state' = state /\ shows'.at = NoNode
  BY RefusedLog, PlainType
<1>2. awaits = "answer" /\ UNCHANGED <<tree, up, current, crashes, failures>>
  BY DEF TapStale, TapBad, TapAnswered, Awaits
<1>3. PICK e \in Events : Logs(User, e) /\ e.event = "invalid_input"
  <2>1. Line("invalid_input", current.at, NoNode).event = "invalid_input"
    BY DEF Line
  <2> QED
    BY <2>1, RefusedLog
<1>4. /\ Where(log'[User]) = Where(log[User])
      /\ Session(log'[User]).finished <=> Session(log[User]).finished
      /\ \A u \in Users : u # User => log'[u] = log[u]
  BY <1>1, <1>3, LineRead DEF Moves
<1>5. ASSUME NEW u \in Users PROVE AtEnd(u)' <=> AtEnd(u)
  <2>1. state'[u] # NoNode => shows'.at # state'[u]
    BY <1>1
  <2> QED
    BY <1>1, <1>2, <2>1 DEF AtEnd, IsLeaf
<1>6. Calm => /\ \A u \in Users : state'[u] = NoNode => Where(log'[u]) = NoNode
              /\ \A u \in Users : Session(log'[u]).finished <=> AtEnd(u)'
              /\ IsLeaf(tree, START) => \A u \in Users : state'[u] \in {NoNode, START}
  BY <1>1, <1>4, <1>5 DEF EndsWithUsers
<1> QED
  BY <1>1, <1>2, <1>6, EndsNext

LEMMA ChoiceKeepsEnds ==
  ASSUME TypeOK, EndsWithUsers, TapChooses
  PROVE  EndsWithUsers'
<1>1. PICK next : next = Resolve(tree, current.at, current.button)
  OBVIOUS
<1>2. /\ awaits = "answer" /\ next \in DOMAIN tree /\ next \in Range(tree[current.at]) /\ state[User] = current.at
      /\ User \in Users /\ current.at \in DOMAIN tree
      /\ Logs(User, Line("choice", current.at, next)) /\ Line("choice", current.at, next) \in Events
      /\ state' = [state EXCEPT ![User] = next]
      /\ awaits' = "edit" /\ shows' = Render(tree, next) /\ UNCHANGED current
      /\ UNCHANGED <<tree, up, screen, telegramVars, countVars>>
  BY <1>1, ChoiceFacts
<1>3. shows'.at = next /\ next # NoNode /\ User' = User
  <2>1. next \in Nodes
    BY <1>2 DEF Nodes, TypeOK
  <2> QED
    BY <1>2, <2>1, BotAssumption DEF Render, User
<1>4. ~IsLeaf(tree, state[User])
  <2>1. DOMAIN <<>> = {} /\ Range(<<>>) = {}
    BY DEF Range
  <2> QED
    BY <1>2, <2>1 DEF IsLeaf
<1>5. Session(log'[User]).finished <=> Session(log[User]).finished
  <2>1. Line("choice", current.at, next).event = "choice"
    BY DEF Line
  <2> QED
    BY <1>2, <2>1, LineRead
<1>6. state'[User] = next /\ \A u \in Users : u # User => state'[u] = state[u] /\ log'[u] = log[u]
  BY <1>2, LineRead DEF TypeOK
<1>7. Calm => ~IsLeaf(tree, START)
  <2>1. state[User] # NoNode
    BY <1>2, BotAssumption DEF Nodes, TypeOK
  <2> QED
    BY <1>2, <1>4, <2>1 DEF EndsWithUsers
<1>8. ~AtEnd(User) /\ ~AtEnd(User)'
  <2>1. ~AtEnd(User)
    BY <1>4 DEF AtEnd
  <2>2. awaits' = "edit" /\ User' = User /\ shows'.at = state'[User]
    BY <1>2, <1>3, <1>6
  <2> QED
    BY <2>1, <2>2 DEF AtEnd
<1>9. ASSUME NEW u \in Users, u # User PROVE AtEnd(u)' <=> AtEnd(u)
  BY <1>2, <1>3, <1>6, <1>9 DEF AtEnd, IsLeaf
<1>10. Calm => /\ \A u \in Users : state'[u] = NoNode => Where(log'[u]) = NoNode
               /\ \A u \in Users : Session(log'[u]).finished <=> AtEnd(u)'
  BY <1>2, <1>3, <1>5, <1>6, <1>8, <1>9 DEF EndsWithUsers
<1>11. state'[User'] = shows'.at /\ UNCHANGED <<tree, up, crashes, failures>>
  BY <1>2, <1>3, <1>6
<1> QED
  BY <1>7, <1>10, <1>11, EndsNext

LEMMA CallKeepsEnds ==
  ASSUME TypeOK, EndsWithUsers, Replied \/ Edited
  PROVE  EndsWithUsers'
<1> DEFINE Leaf == shows.at # NoNode /\ IsLeaf(tree, shows.at)
<1>1. awaits' = "nothing" /\ UNCHANGED <<tree, up, state, crashes, failures>>
  BY DEF Replied, Edited, Done
<1>2. \/ log' = log /\ (awaits = "reply" \/ (awaits = "edit" /\ ~Leaf))
      \/ awaits = "edit" /\ Leaf /\ Logs(User, Line("complete", shows.at, NoNode))
  <2>1. CASE Replied
    BY <2>1 DEF Replied
  <2>2. CASE Edited
    <3>1. CASE Leaf
      BY <2>2, <3>1 DEF Edited
    <3>2. CASE ~Leaf
      BY <2>2, <3>2 DEF Edited
    <3> QED
      BY <3>1, <3>2
  <2> QED
    BY <2>1, <2>2
<1> SUFFICES ASSUME Calm
             PROVE  /\ \A u \in Users : state[u] = NoNode => Where(log'[u]) = NoNode
                    /\ \A u \in Users : Session(log'[u]).finished <=> AtEnd(u)'
  <2>1. IsLeaf(tree, START) /\ Calm => \A u \in Users : state[u] \in {NoNode, START}
    BY DEF EndsWithUsers
  <2> QED
    BY <1>1, <2>1, EndsNext
<1>3. ASSUME NEW u \in Users PROVE AtEnd(u)' <=> (state[u] \notin {NoNode, START} /\ IsLeaf(tree, state[u]))
  BY <1>1 DEF AtEnd, IsLeaf
<1>4. CASE log' = log /\ (awaits = "reply" \/ (awaits = "edit" /\ ~Leaf))
  <2>1. ASSUME NEW u \in Users PROVE AtEnd(u)' <=> AtEnd(u)
    BY <1>3, <1>4 DEF AtEnd
  <2> QED
    BY <1>4, <2>1 DEF EndsWithUsers
<1>5. CASE awaits = "edit" /\ Leaf /\ Logs(User, Line("complete", shows.at, NoNode))
  <2>1. PICK v \in Users : v = User
    BY <1>5, TapType
  <2>2. PICK e \in Events : Logs(v, e) /\ e.event = "complete"
    <3>1. Line("complete", shows.at, NoNode).event = "complete"
      BY DEF Line
    <3> QED
      BY <1>5, <2>1, <3>1, EndType
  <2>3. /\ Where(log'[v]) = Where(log[v]) /\ Session(log'[v]).finished
        /\ \A u \in Users : u # v => log'[u] = log[u]
    BY <2>2, LineRead DEF Moves
  <2>4. state[v] = shows.at /\ ~IsLeaf(tree, START)
    BY <1>5, <2>1 DEF EndsWithUsers
  <2>5. state[v] \notin {NoNode, START} /\ IsLeaf(tree, state[v])
    BY <1>5, <2>4
  <2>6. AtEnd(v)'
    BY <1>3, <2>5
  <2>7. ASSUME NEW u \in Users, u # v PROVE AtEnd(u)' <=> AtEnd(u)
    BY <1>3, <2>1, <2>7 DEF AtEnd
  <2> QED
    BY <2>3, <2>6, <2>7 DEF EndsWithUsers
<1> QED
  BY <1>2, <1>4, <1>5

LEMMA EndsKept == TypeOK /\ EndsWithUsers /\ [BotNext]_botVars => EndsWithUsers'
<1> SUFFICES ASSUME TypeOK, EndsWithUsers, [BotNext]_botVars PROVE EndsWithUsers'
  OBVIOUS
<1>1. ASSUME UNCHANGED <<state, log, tree, up, taskVars, crashes, failures>> PROVE EndsWithUsers'
  <2>1. User' = User
    BY <1>1 DEF User
  <2>2. \A u \in Users : AtEnd(u)' <=> AtEnd(u)
    BY <1>1, <2>1 DEF AtEnd, IsLeaf
  <2>3. Calm => /\ \A u \in Users : state'[u] = NoNode => Where(log'[u]) = NoNode
                /\ \A u \in Users : Session(log'[u]).finished <=> AtEnd(u)'
                /\ IsLeaf(tree, START) => \A u \in Users : state'[u] \in {NoNode, START}
                /\ awaits' = "edit" /\ shows'.at # NoNode => state'[User'] = shows'.at /\ ~IsLeaf(tree, START)
    BY <1>1, <2>1, <2>2 DEF EndsWithUsers
  <2> QED
    BY <1>1, <2>3, EndsNext
<1>2. CASE \E u \in Users : UserStep(u)
  BY <1>1, <1>2 DEF UserStep, Writes, Taps, Send
<1>3. CASE Fetch
  BY <1>1, <1>3 DEF Fetch
<1>4. CASE UNCHANGED botVars
  BY <1>1, <1>4
<1>5. CASE Crash
  <2>1. crashes' = crashes + 1 /\ crashes \in Nat
    BY <1>5 DEF Crash, TypeOK
  <2>2. ~Calm'
    BY <2>1 DEF Calm
  <2> QED
    BY <2>2 DEF EndsWithUsers
<1>6. CASE CallFails
  <2>1. failures' = failures + 1 /\ failures \in Nat
    BY <1>6 DEF CallFails, TypeOK
  <2>2. ~Calm'
    BY <2>1 DEF Calm
  <2> QED
    BY <2>2 DEF EndsWithUsers
<1>7. CASE Boots
  <2>1. ~up /\ UNCHANGED <<crashes, failures>>
    BY <1>7 DEF Boots
  <2>2. ~Calm /\ (Calm' <=> Calm)
    BY <2>1 DEF EndsWithUsers, Calm
  <2> QED
    BY <2>2 DEF EndsWithUsers
<1> QED
  BY <1>2, <1>3, <1>4, <1>5, <1>6, <1>7, BeginKeepsEnds, RefusalKeepsEnds, ChoiceKeepsEnds, CallKeepsEnds
     DEF BotNext, HandlerGoesOn

LEMMA EndsInit == Init => EndsWithUsers
<1> SUFFICES ASSUME Init PROVE EndsWithUsers
  OBVIOUS
<1>1. up /\ awaits = "nothing" /\ \A u \in Users : state[u] = NoNode /\ log[u] = <<>>
  BY DEF Init
<1>2. Where(<<>>) = NoNode
  BY DEF Where, MovesOf
<1>3. ~Session(<<>>).finished
  BY SessionOfNone DEF NoSession
<1> QED
  BY <1>1, <1>2, <1>3 DEF EndsWithUsers, AtEnd

\* Where one log counts among the dropped.
LEMMA DroppedThere ==
  ASSUME NEW N, NEW l, SaysWhere(N, l), NEW n, n # NoNode,
         NEW d, d = IF Session(l).finished THEN 0 ELSE Ended(Session(l).visited, n)
  PROVE  d \in {0, 1} /\ (d = 1 <=> ~Session(l).finished /\ Where(l) = n)
<1>1. PICK v : v = Session(l).visited
  OBVIOUS
<1>2. (v = <<>> => Where(l) = NoNode) /\ (v # <<>> => Last(v) = Where(l))
  BY <1>1 DEF SaysWhere
<1>3. Ended(v, n) = IF Where(l) = n THEN 1 ELSE 0
  BY <1>2 DEF Ended
<1> QED
  BY <1>1, <1>3

\* The dropped of a node are the logs that have come to it and not to their end.
LEMMA DroppedCounts ==
  ASSUME TypeOK, SimTypeOK, NEW n \in Nodes
  PROVE  Dropped(logs, n) = Cardinality({u \in Users \cup Sessions : ~Session(logs[u]).finished /\ Where(logs[u]) = n})
<1> DEFINE D(u) == IF Session(logs[u]).finished THEN 0 ELSE Ended(Session(logs[u]).visited, n)
           There(u) == ~Session(logs[u]).finished /\ Where(logs[u]) = n
<1>1. PICK U : U = Users \cup Sessions
  OBVIOUS
<1>2. IsFiniteSet(U) /\ DOMAIN logs = U
  BY <1>1, LogsRead
<1>3. PICK f : f = [u \in U |-> D(u)]
  OBVIOUS
<1>4. ASSUME NEW u \in U PROVE D(u) \in {0, 1} /\ (D(u) = 1 <=> There(u))
  <2>1. n # NoNode
    BY BotAssumption
  <2>2. PICK N : SaysWhere(N, logs[u])
    BY <1>1, LogsRead
  <2> QED
    BY <2>1, <2>2, DroppedThere
<1>5. Dropped(logs, n) = SumFunctionOnSet(f, U)
  BY <1>2, <1>3 DEF Dropped, SumFunction
<1> HIDE DEF D, There
<1>6. \A u \in U : f[u] \in {0, 1} /\ (f[u] = 1 <=> There(u))
  BY <1>3, <1>4
<1>7. SumFunctionOnSet(f, U) = Cardinality({u \in U : f[u] = 1})
  BY <1>2, <1>6, SumCounts
<1>8. {u \in U : f[u] = 1} = {u \in U : There(u)}
  BY <1>6
<1> QED
  BY <1>1, <1>5, <1>7, <1>8 DEF There

\* While nothing goes wrong, the log of a user has come to a node and not to its end
\* exactly if the bot has the user there.
LEMMA UsersThere ==
  ASSUME StateIsLogged, EndsWithUsers, Calm, NEW u \in Users, NEW n \in Nodes
  PROVE  ~Session(log[u]).finished /\ Where(log[u]) = n <=>
           /\ state[u] = n
           /\ IsLeaf(tree, n) => n = START \/ (awaits = "edit" /\ User = u /\ shows.at = n)
<1>1. n # NoNode
  BY BotAssumption
<1>2. Where(log[u]) = n <=> state[u] = n
  BY <1>1 DEF StateIsLogged, EndsWithUsers
<1>3. Session(log[u]).finished <=> AtEnd(u)
  BY DEF EndsWithUsers
<1> QED
  BY <1>1, <1>2, <1>3 DEF AtEnd

LEMMA SessionsThere ==
  ASSUME SimInv, NEW s \in Sessions, NEW n \in Nodes
  PROVE  ~Session(simLog[s]).finished /\ Where(simLog[s]) = n <=>
           Where(simLog[s]) = n /\ simLog[s][Len(simLog[s])].event # "complete"
<1>1. n # NoNode
  BY BotAssumption
<1>2. Where(<<>>) = NoNode
  BY DEF Where, MovesOf
<1>3. Where(simLog[s]) = n => simLog[s] # <<>>
  BY <1>1, <1>2
<1> QED
  BY <1>3 DEF SimInv, EndsLast

LEMMA FunnelShows == TypeOK /\ StateIsLogged /\ EndsWithUsers /\ SimInv => FunnelShowsUsers
<1> SUFFICES ASSUME TypeOK, StateIsLogged, EndsWithUsers, SimInv, Calm, NEW n \in Nodes
             PROVE  Dropped(logs, n) =
                      Cardinality({u \in Users :
                                     /\ state[u] = n
                                     /\ IsLeaf(tree, n) => n = START \/ (awaits = "edit" /\ User = u /\ shows.at = n)})
                      + Cardinality({s \in Sessions : Where(simLog[s]) = n /\ simLog[s][Len(simLog[s])].event # "complete"})
  BY DEF FunnelShowsUsers, Calm
<1> DEFINE At(u) == /\ state[u] = n
                    /\ IsLeaf(tree, n) => n = START \/ (awaits = "edit" /\ User = u /\ shows.at = n)
           Left(s) == Where(simLog[s]) = n /\ simLog[s][Len(simLog[s])].event # "complete"
           There(u) == ~Session(logs[u]).finished /\ Where(logs[u]) = n
<1>1. PICK A : A = {u \in Users : At(u)}
  OBVIOUS
<1>2. PICK B : B = {s \in Sessions : Left(s)}
  OBVIOUS
<1>3. PICK C : C = {u \in Users \cup Sessions : There(u)}
  OBVIOUS
<1>4. Dropped(logs, n) = Cardinality(C)
  BY <1>3, DroppedCounts DEF SimInv
<1>5. /\ \A u \in Users : There(u) <=> At(u)
      /\ \A s \in Sessions : There(s) <=> Left(s)
  <2>1. /\ \A u \in Users : logs[u] = log[u]
        /\ \A s \in Sessions : logs[s] = simLog[s]
    BY LogsRead DEF SimInv
  <2> QED
    BY <2>1, UsersThere, SessionsThere
<1> HIDE DEF At, Left, There
<1>6. C = A \cup B /\ A \cap B = {}
  BY <1>1, <1>2, <1>3, <1>5, AnalysisAssumption
<1>7. IsFiniteSet(A) /\ IsFiniteSet(B)
  BY <1>1, <1>2, AnalysisAssumption, FS_Subset
<1>8. Cardinality(A) \in Nat /\ Cardinality(B) \in Nat
  BY <1>7, FS_CardinalityType
<1>9. Cardinality(A \cup B) = Cardinality(A) + Cardinality(B) - Cardinality(A \cap B)
  BY <1>7, FS_Union
<1>10. Cardinality(A \cap B) = 0
  BY <1>6, FS_EmptySet
<1>11. Cardinality(C) = Cardinality(A) + Cardinality(B)
  BY <1>6, <1>8, <1>9, <1>10
<1> QED
  BY <1>1, <1>2, <1>4, <1>11 DEF At, Left

\* analyze.py:3: for any trees, users and sessions, while no call has failed and the bot
\* has not crashed: what the funnel says was dropped at a node is who is there.
THEOREM FunnelIsWhereUsersAre == AllSpec => []FunnelShowsUsers
<1>1. AllInit => EndsWithUsers
  BY EndsInit DEF AllInit
<1>2. AllSpec => []EndsWithUsers
  BY <1>1, AllTypes, EndsKept, Beside, PTL DEF AllSpec
<1>3. TypeOK /\ LogInv /\ SimInv /\ EndsWithUsers => FunnelShowsUsers
  BY FunnelShows DEF LogInv
<1> QED
  BY <1>2, <1>3, AllTypes, PTL
=============================================================================
