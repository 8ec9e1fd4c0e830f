---------------------------- MODULE Records_proofs ----------------------------
(***************************************************************************)
(* For any seals, ids and bodies: what the codec returns of a text, of a     *)
(* whole one or of one that is cut, and so what a check says of a record      *)
(* whose id no other seal has drawn, and what a listing says of it.          *)
(***************************************************************************)
EXTENDS Records, WellFoundedInduction, FiniteSetTheorems, SequenceTheorems, TLAPS

Words == Seq({"rule", "nl", "cr", "word"})

-----------------------------------------------------------------------------
(* Sequences *)

\* A set of numbers has a smallest, ...
LEMMA SmallestExists ==
  ASSUME NEW S, S \subseteq Nat, S # {}
  PROVE  Min(S) \in S /\ \A j \in S : Min(S) <= j
<1>1. PICK m \in S : \A j \in S : ~(<<j, m>> \in OpToRel(<, Nat))
  BY WFMin, NatLessThanWellFounded
<1>2. ASSUME NEW j \in S PROVE m <= j
  <2>1. ~(j < m)
    BY <1>1 DEF OpToRel
  <2> QED
    BY <2>1
<1> QED
  BY <1>2 DEF Min

\* ... and one of numbers up to n a largest.
LEMMA LargestExists ==
  ASSUME NEW n \in Nat, NEW S, S \subseteq 1..n, S # {}
  PROVE  Max(S) \in S /\ \A j \in S : j <= Max(S)
<1> DEFINE T == {n - i : i \in S}
<1>1. T \subseteq Nat /\ T # {}
  <2>1. \A i \in S : i \in 1..n /\ n - i \in Nat
    OBVIOUS
  <2> QED
    BY <2>1
<1>2. PICK i \in S : Min(T) = n - i
  BY <1>1, SmallestExists
<1>3. ASSUME NEW j \in S PROVE j <= i
  <2>1. n - j \in T
    OBVIOUS
  <2>2. n - i <= n - j
    BY <1>1, <1>2, <2>1, SmallestExists
  <2> QED
    BY <2>2
<1> QED
  BY <1>3 DEF Max

UpTo(S, k) == {j \in S : j <= k}

\* Of a set of numbers up to m there is an n-th, for each n up to how many they are.
LEMMA NthExists ==
  ASSUME NEW m \in Nat, NEW S, S \subseteq 1..m, NEW n \in Nat \ {0}, n <= Cardinality(S)
  PROVE  \E k \in S : Cardinality(UpTo(S, k)) = n
<1> DEFINE U(k) == {j \in S : j <= k}
           C(k) == Cardinality(U(k))
           R == {k \in 1..m : C(k) >= n}
<1>1. IsFiniteSet(S) /\ Cardinality(S) \in Nat
  <2>1. IsFiniteSet(1..m)
    BY 1 \in Int, m \in Int, FS_Interval
  <2> QED
    BY <2>1, FS_Subset, FS_CardinalityType
<1>2. \A j \in S : j \in Nat /\ 1 <= j /\ j <= m
  <2>1. \A j \in 1..m : j \in Nat /\ 1 <= j /\ j <= m
    OBVIOUS
  <2> QED
    BY <2>1
<1>3. ASSUME NEW k \in Nat PROVE IsFiniteSet(U(k)) /\ C(k) \in Nat
  <2>1. U(k) \subseteq S
    OBVIOUS
  <2> HIDE DEF U
  <2> QED
    BY <1>1, <2>1, FS_Subset, FS_CardinalityType
<1>4. C(0) = 0
  <2>1. \A j \in S : ~(j <= 0)
    BY <1>2
  <2>2. U(0) = {}
    BY <2>1
  <2> HIDE DEF U
  <2> QED
    BY <2>2, FS_EmptySet
<1>5. C(m) >= n
  <2>1. U(m) = S
    BY <1>2
  <2> HIDE DEF U
  <2> QED
    BY <2>1
<1>6. ASSUME NEW k \in Nat \ {0}
      PROVE  C(k) = IF k \in S THEN C(k - 1) + 1 ELSE C(k - 1)
  <2>1. k - 1 \in Nat /\ \A j \in S : j <= k <=> j <= k - 1 \/ j = k
    BY <1>2
  <2>2. k \notin U(k - 1)
    OBVIOUS
  <2>3. CASE k \in S
    <3>1. U(k) = U(k - 1) \cup {k}
      BY <2>1, <2>3
    <3> HIDE DEF U
    <3> QED
      BY <1>3, <2>1, <2>2, <2>3, <3>1, FS_AddElement
  <2>4. CASE k \notin S
    <3>1. U(k) = U(k - 1)
      BY <2>1, <2>4
    <3> HIDE DEF U
    <3> QED
      BY <2>4, <3>1
  <2> QED
    BY <2>3, <2>4
<1> HIDE DEF C
<1>7. R \subseteq Nat /\ R # {}
  <2>1. m # 0
    BY <1>3, <1>4, <1>5
  <2>2. m \in R
    BY <1>5, <2>1
  <2> QED
    BY <2>2
<1> DEFINE k == Min(R)
<1>8. k \in R /\ \A j \in R : k <= j
  <2> HIDE DEF R
  <2> QED
    BY <1>7, SmallestExists
<1> HIDE DEF k
<1>9. k \in Nat \ {0} /\ k - 1 \in Nat /\ k \in 1..m /\ C(k) >= n
  BY <1>8
<1>10. C(k - 1) < n
  <2>1. CASE k = 1
    BY <1>4, <2>1
  <2>2. CASE k # 1
    <3>1. k - 1 \in 1..m /\ ~(k <= k - 1)
      BY <1>9, <2>2
    <3>2. ~(C(k - 1) >= n)
      BY <1>8, <3>1
    <3>3. C(k - 1) \in Nat
      BY <1>3, <1>9
    <3> QED
      BY <3>2, <3>3
  <2> QED
    BY <2>1, <2>2
<1>11. k \in S /\ C(k) = n
  <2>1. C(k) \in Nat /\ C(k - 1) \in Nat
    BY <1>3, <1>9
  <2>2. C(k) = IF k \in S THEN C(k - 1) + 1 ELSE C(k - 1)
    BY <1>6, <1>9
  <2> QED
    BY <1>9, <1>10, <2>1, <2>2
<1> QED
  BY <1>11 DEF C, UpTo

\* A sequence is one over whatever set its elements are in.
LEMMA SeqOver ==
  ASSUME NEW A, NEW B, NEW f \in Seq(A), \A k \in 1..Len(f) : f[k] \in B
  PROVE  f \in Seq(B)
OBVIOUS

-----------------------------------------------------------------------------
(* What the codec returns *)

\* What lstrip leaves is shorter if there is something to strip, and all of it if not.
LEMMA LStripOf ==
  ASSUME NEW b \in Seq(Tokens)
  PROVE  /\ b = <<>> => LStrip(b) = <<>>
         /\ b # <<>> /\ b[1] # "nl" => LStrip(b) = b
         /\ b # <<>> /\ b[1] = "nl" => Len(LStrip(b)) < Len(b)
         /\ Len(b) > 1 /\ b[1] = "nl" /\ b[2] # "nl" => LStrip(b) = SubSeq(b, 2, Len(b))
         /\ Len(b) > 1 /\ b[1] = "nl" /\ b[2] = "nl" => Len(LStrip(b)) < Len(b) - 1
<1> DEFINE I == {i \in 1..Len(b) : b[i] # "nl"}
           first == IF I # {} THEN Min(I) ELSE 0
<1>1. LStrip(b) = IF first = 0 THEN <<>> ELSE SubSeq(b, first, Len(b))
  BY DEF LStrip, SelectInSeq
<1>2. I = {} => first = 0
  OBVIOUS
<1>3. I # {} => first \in I /\ \A j \in I : first <= j
  <2>1. I \subseteq Nat
    OBVIOUS
  <2> QED
    BY <2>1, SmallestExists
<1>4. first \in 0..Len(b)
  BY <1>2, <1>3
<1>5. first # 0 => Len(SubSeq(b, first, Len(b))) = Len(b) - first + 1
  BY <1>4
<1> HIDE DEF first
<1>6. b = <<>> => LStrip(b) = <<>>
  BY <1>1, <1>4
<1>7. b # <<>> /\ b[1] # "nl" => LStrip(b) = b
  <2> SUFFICES ASSUME b # <<>>, b[1] # "nl" PROVE LStrip(b) = b
    OBVIOUS
  <2>1. first = 1
    BY <1>3, <1>4
  <2> QED
    BY <1>1, <2>1
<1>8. b # <<>> /\ b[1] = "nl" => first # 1
  BY <1>2, <1>3
<1>9. Len(b) > 1 /\ b[1] = "nl" /\ b[2] # "nl" => first = 2
  <2> SUFFICES ASSUME Len(b) > 1, b[1] = "nl", b[2] # "nl" PROVE first = 2
    OBVIOUS
  <2>1. 2 \in I
    OBVIOUS
  <2> QED
    BY <1>3, <1>4, <1>8, <2>1
<1>10. Len(b) > 1 /\ b[1] = "nl" /\ b[2] = "nl" => first \notin {1, 2}
  BY <1>2, <1>3
<1>11. b # <<>> => Len(b) > 0
  OBVIOUS
<1> QED
  BY <1>1, <1>4, <1>5, <1>6, <1>7, <1>8, <1>9, <1>10, <1>11

\* Of a text that begins as a record of s does, the header ends with its second rule,
\* and has the sha.
LEMMA CodecOf ==
  ASSUME NEW f \in Seq(Tokens), NEW s \in Seals, Len(f) >= 5,
         f[2] = "nl", f[3] = "word", f[4] = s, f[5] = "rule"
  PROVE  /\ Sha(f) = 3 /\ Header(f)[Sha(f)] = s
         /\ Body(f) = LStrip(SubSeq(f, 6, Len(f)))
<1>1. Tail(f) \in Seq(Tokens) /\ Len(Tail(f)) = Len(f) - 1 /\ \A k \in 1..(Len(f) - 1) : Tail(f)[k] = f[k + 1]
  OBVIOUS
<1>2. s \notin {"rule", "nl", "cr", "word", "half", "nul"}
  BY RecordsAssumption
<1>3. Close(f) = 5
  <2> DEFINE I == {k \in 1..Len(Tail(f)) : Tail(f)[k] = "rule"}
  <2>1. Close(f) = (IF I # {} THEN Min(I) ELSE 0) + 1
    BY DEF Close, SelectInSeq
  <2>2. 4 \in I /\ 1 \notin I /\ 2 \notin I /\ 3 \notin I /\ I \subseteq Nat \ {0}
    BY <1>1, <1>2
  <2> HIDE DEF I
  <2>3. Min(I) \in I /\ Min(I) <= 4
    BY <2>2, SmallestExists
  <2>4. Min(I) \in Nat \ {0, 1, 2, 3}
    BY <2>2, <2>3
  <2> QED
    BY <2>1, <2>2, <2>3, <2>4
<1>4. Len(Header(f)) = 3 /\ Header(f)[1] = "nl" /\ Header(f)[2] = "word" /\ Header(f)[3] = s
  <2>1. Header(f) = SubSeq(f, 2, 4)
    BY <1>3 DEF Header
  <2> QED
    BY <2>1
<1>5. Sha(f) = 3
  <2> DEFINE I == {k \in 1..Len(Header(f)) : Header(f)[k] \in Seals}
  <2>1. Sha(f) = IF I # {} THEN Max(I) ELSE 0
    BY DEF Sha, SelectLastInSeq
  <2>2. 3 \in I /\ I \subseteq 1..3
    BY <1>4
  <2> HIDE DEF I
  <2>3. Max(I) \in I /\ 3 <= Max(I)
    BY <2>2, 3 \in Nat, LargestExists
  <2>4. Max(I) \in 1..3 /\ I # {}
    BY <2>2, <2>3
  <2> QED
    BY <2>1, <2>3, <2>4
<1> QED
  BY <1>3, <1>4, <1>5 DEF Body

\* A text splits only if it has a rule beyond its first token, ...
LEMMA SplitsOnly ==
  ASSUME NEW f \in Seq(Tokens), Splits(f)
  PROVE  \E k \in 2..Len(f) : f[k] = "rule"
<1> SUFFICES ASSUME \A k \in 2..Len(f) : f[k] # "rule" PROVE FALSE
  OBVIOUS
<1>1. Rules(f) \subseteq {1}
  BY DEF Rules
<1>2. Cardinality(Rules(f)) <= 1 /\ Cardinality(Rules(f)) \in Nat
  <2>1. IsFiniteSet({1}) /\ Cardinality({1}) = 1
    BY FS_Singleton
  <2>2. IsFiniteSet(Rules(f)) /\ Cardinality(Rules(f)) <= Cardinality({1})
    BY <1>1, <2>1, FS_Subset
  <2> QED
    BY <2>1, <2>2, FS_CardinalityType
<1> QED
  BY <1>2 DEF Splits

\* ... and does if it has one, and begins with one.
LEMMA SplitsIf ==
  ASSUME NEW f \in Seq(Tokens), NEW k \in 2..Len(f), f[1] = "rule", f[k] = "rule"
  PROVE  Splits(f)
<1>1. {1, k} \subseteq Rules(f) /\ Rules(f) \subseteq 1..Len(f)
  BY DEF Rules
<1>2. IsFiniteSet(Rules(f))
  <2>1. IsFiniteSet(1..Len(f))
    BY Len(f) \in Int, 1 \in Int, FS_Interval
  <2> QED
    BY <1>1, <2>1, FS_Subset
<1>3. Cardinality({1, k}) = 2
  <2>1. IsFiniteSet({1}) /\ Cardinality({1}) = 1
    BY FS_Singleton
  <2>2. Cardinality({1} \cup {k}) = Cardinality({1}) + 1
    <3> DEFINE one == {1}
    <3>1. k \notin one /\ IsFiniteSet(one)
      BY <2>1
    <3> HIDE DEF one
    <3>2. Cardinality(one \cup {k}) = Cardinality(one) + 1
      BY <3>1, FS_AddElement
    <3> QED
      BY <3>2 DEF one
  <2>3. {1, k} = {1} \cup {k}
    OBVIOUS
  <2>4. 1 + 1 = 2
    OBVIOUS
  <2> QED
    BY <2>1, <2>2, <2>3, <2>4, Zenon
<1>4. Cardinality({1, k}) <= Cardinality(Rules(f))
  BY <1>1, <1>2, FS_Subset
<1>5. Cardinality(Rules(f)) \in Nat
  BY <1>2, FS_CardinalityType
<1>6. f # <<>> /\ Head(f) = "rule"
  OBVIOUS
<1> QED
  BY <1>3, <1>4, <1>5, <1>6 DEF Splits

-----------------------------------------------------------------------------
(* What a check says of a text *)

\* What a seal has once it has drawn an id.
Begun(s) == header[s] \in Headers(s) /\ body[s] \in Words /\ body[s] # <<>>

\* f is what s has written so far, where a character may be cut in two at the end.
Part(f, s) ==
  /\ f \in Seq(Tokens) /\ at[s] \in Nat
  /\ at[s] < Len(Text(s)) /\ Len(f) \in {at[s], at[s] + 1}
  /\ \A k \in 1..at[s] : f[k] = Text(s)[k]
  /\ Len(f) = at[s] + 1 => f[at[s] + 1] = "half"

\* One text after another.
LEMMA JoinOf ==
  ASSUME NEW a \in Seq(Tokens), NEW b \in Seq(Tokens)
  PROVE  /\ a \o b \in Seq(Tokens) /\ Len(a \o b) = Len(a) + Len(b)
         /\ \A k \in 1..Len(a) : (a \o b)[k] = a[k]
         /\ \A k \in (Len(a) + 1)..(Len(a) + Len(b)) : (a \o b)[k] = b[k - Len(a)]
<1>1. Len(a) \in Nat /\ Len(b) \in Nat
  OBVIOUS
<1>2. a \o b \in Seq(Tokens) /\ Len(a \o b) = Len(a) + Len(b)
  BY ConcatProperties
<1>3. \A k \in 1..(Len(a) + Len(b)) : (a \o b)[k] = IF k <= Len(a) THEN a[k] ELSE b[k - Len(a)]
  BY ConcatProperties
<1> QED
  BY <1>1, <1>2, <1>3

\* A record as it is rendered: where its header and its body are.
LEMMA RenderOf ==
  ASSUME NEW h \in Seq(Tokens), NEW b \in Seq(Tokens)
  PROVE  LET r == render_record(h, b)
             n == Len(h) + 4
         IN  /\ r \in Seq(Tokens) /\ Len(r) = n + Len(b)
             /\ r[1] = "rule" /\ r[2] = "nl" /\ r[n - 1] = "rule" /\ r[n] = "nl"
             /\ \A k \in 3..(n - 2) : r[k] = h[k - 2]
             /\ \A k \in (n + 1)..(n + Len(b)) : r[k] = b[k - n]
<1> DEFINE e == <<"rule", "nl">>
           p == e \o h
           q == p \o e
           r == q \o b
           n == Len(h) + 4
<1>1. e \in Seq(Tokens) /\ Len(e) = 2 /\ e[1] = "rule" /\ e[2] = "nl"
  BY DEF Tokens
<1>2. Len(b) \in Nat /\ n \in Nat /\ Len(h) = n - 4 /\ n >= 4
  OBVIOUS
<1>3. render_record(h, b) = r
  BY DEF render_record
<1> HIDE DEF e, n
<1>4. /\ p \in Seq(Tokens) /\ Len(p) = n - 2 /\ p[1] = "rule" /\ p[2] = "nl"
      /\ \A k \in 3..(n - 2) : p[k] = h[k - 2]
  <2>1. /\ p \in Seq(Tokens) /\ Len(p) = Len(e) + Len(h) /\ \A k \in 1..Len(e) : p[k] = e[k]
        /\ \A k \in (Len(e) + 1)..(Len(e) + Len(h)) : p[k] = h[k - Len(e)]
    BY <1>1, JoinOf
  <2> HIDE DEF p
  <2>2. /\ Len(p) = n - 2 /\ p[1] = e[1] /\ p[2] = e[2]
        /\ \A k \in 3..(n - 2) : p[k] = h[k - 2]
    BY <1>1, <1>2, <2>1
  <2> QED
    BY <1>1, <2>1, <2>2
<1> HIDE DEF p
<1>5. /\ q \in Seq(Tokens) /\ Len(q) = n /\ \A k \in 1..(n - 2) : q[k] = p[k]
      /\ q[n - 1] = "rule" /\ q[n] = "nl"
  <2>1. /\ q \in Seq(Tokens) /\ Len(q) = Len(p) + Len(e) /\ \A k \in 1..Len(p) : q[k] = p[k]
        /\ \A k \in (Len(p) + 1)..(Len(p) + Len(e)) : q[k] = e[k - Len(p)]
    BY <1>1, <1>4, JoinOf
  <2> HIDE DEF q
  <2>2. Len(q) = n /\ \A k \in 1..(n - 2) : q[k] = p[k]
    BY <1>1, <1>2, <1>4, <2>1
  <2>3. q[n - 1] = e[(n - 1) - (n - 2)] /\ q[n] = e[n - (n - 2)]
    BY <1>1, <1>2, <1>4, <2>1
  <2>4. (n - 1) - (n - 2) = 1 /\ n - (n - 2) = 2
    BY <1>2
  <2> QED
    BY <1>1, <2>1, <2>2, <2>3, <2>4
<1> HIDE DEF q
<1>6. /\ r \in Seq(Tokens) /\ Len(r) = n + Len(b) /\ \A k \in 1..n : r[k] = q[k]
      /\ \A k \in (n + 1)..(n + Len(b)) : r[k] = b[k - n]
  <2>1. /\ r \in Seq(Tokens) /\ Len(r) = Len(q) + Len(b) /\ \A k \in 1..Len(q) : r[k] = q[k]
        /\ \A k \in (Len(q) + 1)..(Len(q) + Len(b)) : r[k] = b[k - Len(q)]
    BY <1>5, JoinOf
  <2> HIDE DEF r
  <2> QED
    BY <1>5, <2>1
<1> HIDE DEF r
<1>7. /\ r[1] = "rule" /\ r[2] = "nl" /\ r[n - 1] = "rule" /\ r[n] = "nl"
      /\ \A k \in 3..(n - 2) : r[k] = h[k - 2]
  BY <1>2, <1>4, <1>5, <1>6
<1> QED
  BY <1>3, <1>6, <1>7 DEF n

\* What a record is made of: no character is cut in two, no sha is that of another, and
\* a "cr" can only be in the body.
LEMMA MadeOf ==
  ASSUME NEW s \in Seals, Begun(s)
  PROVE  LET V == {"rule", "nl", "word", s}
         IN  /\ header[s] \in Seq(V) /\ body[s] \in Seq(V \cup {"cr"})
             /\ Text(s) \in Seq(V \cup {"cr"})
             /\ Contains(Text(s), "cr") => Contains(body[s], "cr")
             /\ V \cup {"cr"} \subseteq Tokens /\ {"half", "cr"} \cap V = {}
<1> DEFINE V == {"rule", "nl", "word", s}
           Whole == V \cup {"cr"}
<1>1. Whole \subseteq Tokens /\ "half" \notin Whole /\ "cr" \notin V
  BY RecordsAssumption DEF Tokens
<1>2. header[s] \in Seq(V)
  <2>1. /\ <<"word", s>> \in Seq(V) /\ <<"rule", s>> \in Seq(V)
        /\ <<"word", s, "rule", "word", "rule", "nl">> \in Seq(V)
    OBVIOUS
  <2> QED
    BY <2>1 DEF Begun, Headers
<1>3. body[s] \in Seq(Whole)
  BY DEF Begun, Words
<1>4. header[s] \in Seq(Tokens) /\ body[s] \in Seq(Tokens)
  BY <1>1, <1>2, <1>3
<1> DEFINE T == Text(s)
           n == Len(header[s]) + 4
<1>5. /\ T \in Seq(Tokens) /\ Len(T) = n + Len(body[s])
      /\ T[1] = "rule" /\ T[2] = "nl" /\ T[n - 1] = "rule" /\ T[n] = "nl"
      /\ \A k \in 3..(n - 2) : T[k] = header[s][k - 2]
      /\ \A k \in (n + 1)..(n + Len(body[s])) : T[k] = body[s][k - n]
  BY <1>4, RenderOf DEF Text
<1>6. Len(header[s]) = n - 4 /\ Len(header[s]) \in Nat /\ n \in Nat /\ Len(body[s]) \in Nat
  BY <1>4
<1> HIDE DEF T, n, V, Whole
<1>7. ASSUME NEW k \in 1..Len(T) PROVE T[k] \in V \/ \E j \in 1..Len(body[s]) : T[k] = body[s][j]
  <2>1. CASE k \in {1, 2, n - 1, n}
    BY <1>5, <2>1 DEF V
  <2>2. CASE k \in 3..(n - 2)
    <3>1. k - 2 \in 1..Len(header[s])
      BY <1>6, <2>2
    <3>2. header[s][k - 2] \in V
      BY <1>2, <3>1
    <3> QED
      BY <1>5, <2>2, <3>2
  <2>3. CASE k > n
    <3>1. PICK m \in Nat : m = Len(body[s])
      BY <1>6
    <3>2. k \in 1..(n + m)
      BY <1>5, <3>1
    <3>3. k - n \in 1..m /\ k \in (n + 1)..(n + m)
      BY <1>6, <2>3, <3>2
    <3> QED
      BY <1>5, <3>1, <3>3
  <2>4. k \in {1, 2, n - 1, n} \/ k \in 3..(n - 2) \/ k > n
    BY <1>5, <1>6
  <2> QED
    BY <2>1, <2>2, <2>3, <2>4
<1>8. \A k \in 1..Len(T) : T[k] \in Whole
  <2>1. \A j \in 1..Len(body[s]) : body[s][j] \in Whole
    BY <1>3
  <2> QED
    BY <1>7, <2>1 DEF Whole
<1>9. T \in Seq(Whole)
  BY <1>5, <1>8, SeqOver
<1>10. Contains(T, "cr") => Contains(body[s], "cr")
  BY <1>1, <1>7 DEF Contains
<1> QED
  BY <1>1, <1>2, <1>3, <1>9, <1>10 DEF V, Whole, T

LEMMA WholeTokens ==
  ASSUME NEW s \in Seals, Begun(s)
  PROVE  /\ header[s] \in Seq(Tokens) /\ body[s] \in Seq(Tokens)
         /\ Text(s) \in Seq(Tokens) /\ Decodes(Text(s))
<1> DEFINE V == {"rule", "nl", "word", s}
           Whole == V \cup {"cr"}
<1>1. /\ header[s] \in Seq(V) /\ body[s] \in Seq(Whole) /\ Text(s) \in Seq(Whole)
      /\ Whole \subseteq Tokens /\ "half" \notin Whole
  BY MadeOf
<1> HIDE DEF V
<1>2. V \subseteq Tokens
  BY <1>1
<1> HIDE DEF Whole
<1>3. header[s] \in Seq(Tokens) /\ body[s] \in Seq(Tokens) /\ Text(s) \in Seq(Tokens)
  BY <1>1, <1>2
<1>4. Decodes(Text(s))
  BY <1>1 DEF Decodes, Contains
<1> QED
  BY <1>3, <1>4

\* How a record begins, for each of the headers.
LEMMA TextOf ==
  ASSUME NEW s \in Seals, Begun(s)
  PROVE  LET T == Text(s)
             b == body[s]
         IN  /\ Len(b) \in Nat \ {0}
             /\ header[s] = <<"word", s>>
                  => /\ Len(T) = 6 + Len(b) /\ T[1] = "rule" /\ T[2] = "nl" /\ T[3] = "word"
                     /\ T[4] = s /\ T[5] = "rule" /\ T[6] = "nl"
                     /\ \A k \in 7..(6 + Len(b)) : T[k] = b[k - 6]
             /\ header[s] = <<"rule", s>> => Len(T) = 6 + Len(b) /\ T[2] = "nl" /\ T[3] = "rule"
             /\ header[s] = <<"word", s, "rule", "word", "rule", "nl">>
                  => /\ Len(T) = 10 + Len(b) /\ T[2] = "nl" /\ T[3] = "word"
                     /\ T[4] = s /\ T[5] = "rule" /\ T[6] = "word"
<1> DEFINE T == Text(s)
           n == Len(header[s]) + 4
<1>1. header[s] \in Seq(Tokens) /\ body[s] \in Seq(Tokens)
  BY WholeTokens
<1>2. /\ Len(T) = n + Len(body[s])
      /\ T[1] = "rule" /\ T[2] = "nl" /\ T[n - 1] = "rule" /\ T[n] = "nl"
      /\ \A k \in 3..(n - 2) : T[k] = header[s][k - 2]
      /\ \A k \in (n + 1)..(n + Len(body[s])) : T[k] = body[s][k - n]
  BY <1>1, RenderOf, ZenonT(60) DEF Text
<1>3. Len(body[s]) \in Nat \ {0}
  BY <1>1 DEF Begun
<1> HIDE DEF T
<1>4. ASSUME header[s] = <<"word", s>>
      PROVE  /\ Len(T) = 6 + Len(body[s]) /\ T[1] = "rule" /\ T[2] = "nl" /\ T[3] = "word"
             /\ T[4] = s /\ T[5] = "rule" /\ T[6] = "nl"
             /\ \A k \in 7..(6 + Len(body[s])) : T[k] = body[s][k - 6]
  <2>1. n = 6
    BY <1>4
  <2> HIDE DEF n
  <2>2. T[3] = header[s][1] /\ T[4] = header[s][2]
    BY <1>2, <2>1
  <2> QED
    BY <1>2, <1>3, <1>4, <2>1, <2>2
<1>5. ASSUME header[s] = <<"rule", s>>
      PROVE  Len(T) = 6 + Len(body[s]) /\ T[2] = "nl" /\ T[3] = "rule"
  <2>1. n = 6
    BY <1>5
  <2> HIDE DEF n
  <2>2. T[3] = header[s][1]
    BY <1>2, <2>1
  <2> QED
    BY <1>2, <1>3, <1>5, <2>1, <2>2
<1>6. ASSUME header[s] = <<"word", s, "rule", "word", "rule", "nl">>
      PROVE  /\ Len(T) = 10 + Len(body[s]) /\ T[2] = "nl" /\ T[3] = "word"
             /\ T[4] = s /\ T[5] = "rule" /\ T[6] = "word"
  <2>1. n = 10
    BY <1>6
  <2> HIDE DEF n
  <2>2. T[3] = header[s][1] /\ T[4] = header[s][2] /\ T[5] = header[s][3] /\ T[6] = header[s][4]
    BY <1>2, <2>1
  <2> QED
    BY <1>2, <1>3, <1>6, <2>1, <2>2
<1> QED
  BY <1>3, <1>4, <1>5, <1>6 DEF T

\* What follows the second rule of a record.
LEMMA RestOf ==
  ASSUME NEW f \in Seq(Tokens), Len(f) >= 5
  PROVE  LET c == SubSeq(f, 6, Len(f))
         IN  c \in Seq(Tokens) /\ Len(c) = Len(f) - 5 /\ \A k \in 1..Len(c) : c[k] = f[k + 5]
<1> DEFINE c == SubSeq(f, 6, Len(f))
<1>1. Len(f) \in Int /\ 6 \in Int /\ \A k \in 6..Len(f) : f[k] \in Tokens
  OBVIOUS
<1>2. /\ c \in Seq(Tokens) /\ Len(c) = IF 6 <= Len(f) THEN Len(f) - 6 + 1 ELSE 0
      /\ \A k \in 1..(Len(f) - 6 + 1) : c[k] = f[6 + k - 1]
  BY <1>1, SubSeqProperties
<1> HIDE DEF c
<1>3. Len(c) = Len(f) - 5
  <2> DEFINE n == Len(f)
  <2>1. n \in Int /\ n >= 5
    OBVIOUS
  <2>2. Len(c) = IF 6 <= n THEN n - 6 + 1 ELSE 0
    BY <1>2
  <2> HIDE DEF n
  <2>3. Len(c) = n - 5
    BY <2>1, <2>2
  <2> QED
    BY <2>3 DEF n
<1>4. \A k \in 1..Len(c) : c[k] = f[k + 5]
  <2>1. ASSUME NEW k \in 1..Len(c) PROVE c[k] = f[k + 5]
    <3>1. k \in 1..(Len(f) - 6 + 1) /\ 6 + k - 1 = k + 5
      BY <1>1, <1>3
    <3> QED
      BY <1>2, <3>1
  <2> QED
    BY <2>1
<1> QED
  BY <1>2, <1>3, <1>4 DEF c

LEMMA RuleFreeIf ==
  ASSUME NEW s \in Seals, Begun(s)
  PROVE  RuleFree(s) <=> header[s] = <<"word", s>>
<1>1. s # "rule"
  BY RecordsAssumption
<1>2. ~Contains(<<"word", s>>, "rule")
  BY <1>1 DEF Contains
<1>3. Contains(<<"rule", s>>, "rule")
  <2>1. <<"rule", s>>[1] = "rule" /\ 1 \in 1..Len(<<"rule", s>>)
    OBVIOUS
  <2> QED
    BY <2>1 DEF Contains
<1>4. Contains(<<"word", s, "rule", "word", "rule", "nl">>, "rule")
  <2> DEFINE h == <<"word", s, "rule", "word", "rule", "nl">>
  <2>1. h[3] = "rule" /\ 3 \in 1..Len(h)
    OBVIOUS
  <2> QED
    BY <2>1 DEF Contains
<1> QED
  BY <1>2, <1>3, <1>4, Zenon DEF RuleFree, Begun, Headers

\* A record that is whole, and read as it is, passes exactly if it is plain.
LEMMA UnchangedPasses ==
  ASSUME NEW s \in Seals, Begun(s), ~Contains(body[s], "cr")
  PROVE  Passes(Text(s)) <=> Plain(s)
<1> DEFINE T == Text(s)
           b == body[s]
           c == SubSeq(T, 6, Len(T))
<1>1. T \in Seq(Tokens) /\ b \in Seq(Tokens) /\ Decodes(T)
  BY WholeTokens
<1>2. s \notin {"rule", "nl", "cr", "word", "half", "nul"} /\ ReadText(T) = T
  <2>1. ~Contains(T, "cr")
    BY MadeOf
  <2> QED
    BY <2>1, RecordsAssumption DEF ReadText
<1>3. CASE header[s] = <<"word", s>>
  <2>1. /\ Len(T) = 6 + Len(b) /\ Len(b) \in Nat \ {0}
        /\ T[1] = "rule" /\ T[2] = "nl" /\ T[3] = "word" /\ T[4] = s /\ T[5] = "rule" /\ T[6] = "nl"
        /\ \A k \in 7..(6 + Len(b)) : T[k] = b[k - 6]
    BY <1>3, TextOf
  <2>2. Splits(T)
    BY <1>1, <2>1, 5 \in 2..Len(T), SplitsIf
  <2>3. Sha(T) = 3 /\ Header(T)[Sha(T)] = s /\ Body(T) = LStrip(c)
    BY <1>1, <2>1, CodecOf, SMTT(30)
  <2>4. Passes(T) <=> LStrip(c) = b
    BY <1>1, <1>2, <2>2, <2>3 DEF Passes
  <2>5. Plain(s) <=> b[1] # "nl"
    <3>1. Head(b) = b[1]
      BY <1>1, <2>1
    <3> QED
      BY <1>3, <3>1, RuleFreeIf DEF Plain
  <2>6. /\ c \in Seq(Tokens) /\ Len(c) = 1 + Len(b)
        /\ \A k \in 1..Len(c) : c[k] = T[k + 5]
    BY <1>1, <2>1, RestOf
  <2> HIDE DEF c, T
  <2>7. c[1] = "nl" /\ \A k \in 1..Len(b) : c[k + 1] = b[k]
    <3>1. c[1] = "nl"
      BY <2>1, <2>6
    <3>2. ASSUME NEW k \in 1..Len(b) PROVE c[k + 1] = b[k]
      <4>1. k + 1 \in 1..Len(c) /\ (k + 1) + 5 = k + 6 /\ (k + 6) - 6 = k
        BY <2>1, <2>6
      <4>2. k + 6 \in 7..(6 + Len(b)) /\ k + 1 \in 1..Len(c)
        BY <2>1, <2>6
      <4>3. c[k + 1] = T[k + 6]
        BY <2>6, <4>1, <4>2
      <4>4. T[k + 6] = b[k]
        BY <2>1, <4>1, <4>2
      <4> QED
        BY <4>3, <4>4
    <3> QED
      BY <3>1, <3>2
  <2>8. c[2] = b[1]
    BY <2>1, <2>7
  <2> HIDE DEF b
  <2>9. CASE b[1] # "nl"
    <3>1. LStrip(c) = SubSeq(c, 2, Len(c))
      <4>1. c \in Seq(Tokens) /\ Len(c) > 1 /\ c[1] = "nl" /\ c[2] # "nl"
        BY <2>1, <2>6, <2>7, <2>8, <2>9
      <4> HIDE DEF c
      <4> QED
        BY <4>1, LStripOf
    <3>2. /\ SubSeq(c, 2, Len(c)) \in Seq(Tokens) /\ Len(SubSeq(c, 2, Len(c))) = Len(b)
          /\ \A k \in 1..Len(b) : SubSeq(c, 2, Len(c))[k] = c[k + 1]
      BY <2>1, <2>6
    <3>3. SubSeq(c, 2, Len(c)) = b
      BY <1>1, <2>7, <3>2, SeqEqual
    <3> QED
      BY <2>4, <2>5, <2>9, <3>1, <3>3 DEF T
  <2>10. CASE b[1] = "nl"
    <3>1. Len(LStrip(c)) < Len(b)
      BY <2>1, <2>6, <2>7, <2>8, <2>10, LStripOf
    <3> QED
      BY <1>1, <2>1, <2>4, <2>5, <2>10, <3>1 DEF T
  <2> QED
    BY <2>9, <2>10
<1>4. CASE header[s] = <<"rule", s>>
  <2>1. Len(T) > 6 /\ T[2] = "nl" /\ T[3] = "rule"
    BY <1>4, TextOf
  <2>2. Close(T) = 3
    <3> DEFINE I == {k \in 1..Len(Tail(T)) : Tail(T)[k] = "rule"}
    <3>1. Close(T) = (IF I # {} THEN Min(I) ELSE 0) + 1
      BY DEF Close, SelectInSeq
    <3>2. Len(Tail(T)) = Len(T) - 1 /\ \A k \in 1..(Len(T) - 1) : Tail(T)[k] = T[k + 1]
      BY <1>1, <2>1
    <3>3. 2 \in I /\ 1 \notin I /\ I \subseteq Nat \ {0}
      BY <1>1, <2>1, <3>2
    <3> HIDE DEF I
    <3>4. Min(I) \in I /\ Min(I) <= 2
      BY <3>3, SmallestExists
    <3>5. Min(I) \in Nat \ {0, 1}
      BY <3>3, <3>4
    <3> QED
      BY <3>1, <3>3, <3>4, <3>5
  <2>3. Sha(T) = 0
    <3>1. Header(T) = SubSeq(T, 2, 2)
      BY <2>2 DEF Header
    <3>2. Len(Header(T)) = 1 /\ Header(T)[1] = "nl"
      BY <1>1, <2>1, <3>1
    <3>3. {k \in 1..Len(Header(T)) : Header(T)[k] \in Seals} = {}
      BY <3>2, RecordsAssumption
    <3> QED
      BY <3>3 DEF Sha, SelectLastInSeq
  <2>4. ~RuleFree(s)
    <3>1. <<"rule", s>>[1] # <<"word", s>>[1]
      OBVIOUS
    <3> QED
      BY <1>4, <3>1, RuleFreeIf
  <2> QED
    BY <1>2, <2>3, <2>4 DEF Passes, Plain
<1>5. CASE header[s] = <<"word", s, "rule", "word", "rule", "nl">>
  <2>1. /\ Len(T) = 10 + Len(b) /\ Len(b) \in Nat \ {0}
        /\ T[2] = "nl" /\ T[3] = "word" /\ T[4] = s /\ T[5] = "rule" /\ T[6] = "word"
    BY <1>5, TextOf
  <2>2. Sha(T) = 3 /\ Header(T)[Sha(T)] = s /\ Body(T) = LStrip(c)
    BY <1>1, <2>1, CodecOf
  <2>3. c \in Seq(Tokens) /\ Len(c) = 5 + Len(b) /\ c[1] = "word"
    BY <1>1, <2>1, RestOf
  <2> HIDE DEF c
  <2>4. LStrip(c) = c
    BY <2>1, <2>3, LStripOf
  <2>5. ~Passes(T)
    BY <1>2, <2>1, <2>2, <2>3, <2>4 DEF Passes
  <2>6. ~RuleFree(s)
    <3>1. Len(<<"word", s, "rule", "word", "rule", "nl">>) # Len(<<"word", s>>)
      OBVIOUS
    <3> QED
      BY <1>5, <3>1, RuleFreeIf
  <2> QED
    BY <2>5, <2>6 DEF Plain
<1> QED
  BY <1>3, <1>4, <1>5 DEF Begun, Headers

\* What read_text() returns has no "cr", and nothing that is not in the file but line ends.
LEMMA ReadOf ==
  ASSUME NEW V, "nl" \in V, "cr" \notin V, NEW f \in Seq(V \cup {"cr"})
  PROVE  ReadText(f) \in Seq(V)
<1> DEFINE Taken == {k \in 2..Len(f) : f[k - 1] = "cr" /\ f[k] = "nl"}
           Kept == (1..Len(f)) \ Taken
           Nth(n) == CHOOSE k \in Kept : Cardinality({j \in Kept : j <= k}) = n
           text == [n \in 1..Cardinality(Kept) |-> IF f[Nth(n)] = "cr" THEN "nl" ELSE f[Nth(n)]]
<1>1. CASE ~Contains(f, "cr")
  <2>1. \A k \in 1..Len(f) : f[k] \in V
    BY <1>1 DEF Contains
  <2>2. f \in Seq(V)
    BY <2>1
  <2> QED
    BY <1>1, <2>2 DEF ReadText
<1>2. CASE Contains(f, "cr")
  <2>1. ReadText(f) = text
    BY <1>2 DEF ReadText
  <2>2. Len(f) \in Nat /\ Kept \subseteq 1..Len(f)
    OBVIOUS
  <2>3. \A k \in 1..Len(f) : f[k] \in V \cup {"cr"}
    OBVIOUS
  <2> HIDE DEF Kept
  <2>4. IsFiniteSet(Kept) /\ Cardinality(Kept) \in Nat
    <3>1. IsFiniteSet(1..Len(f))
      BY <2>2, 1 \in Int, Len(f) \in Int, FS_Interval
    <3> QED
      BY <2>2, <3>1, FS_Subset, FS_CardinalityType
  <2>5. ASSUME NEW n \in 1..Cardinality(Kept) PROVE Nth(n) \in Kept
    <3>1. n \in Nat \ {0} /\ n <= Cardinality(Kept)
      BY <2>4
    <3> HIDE DEF Nth
    <3>2. PICK m \in Nat : m = Len(f)
      BY <2>2
    <3>3. Kept \subseteq 1..m
      BY <2>2, <3>2
    <3>4. \E k \in Kept : Cardinality(UpTo(Kept, k)) = n
      BY <3>1, <3>3, NthExists
    <3> QED
      BY <3>4 DEF Nth, UpTo
  <2> HIDE DEF Nth
  <2>6. ASSUME NEW n \in 1..Cardinality(Kept)
        PROVE  (IF f[Nth(n)] = "cr" THEN "nl" ELSE f[Nth(n)]) \in V
    BY <2>2, <2>3, <2>5
  <2>7. text \in [1..Cardinality(Kept) -> V]
    BY <2>6
  <2> QED
    BY <2>1, <2>4, <2>7
<1> QED
  BY <1>1, <1>2

\* What the codec takes from a text is made of what the text is made of.
LEMMA PartsOf ==
  ASSUME NEW V, NEW f \in Seq(V), f # <<>>
  PROVE  Header(f) \in Seq(V) /\ Body(f) \in Seq(V)
<1> DEFINE c == Close(f)
           I == {k \in 1..Len(Tail(f)) : Tail(f)[k] = "rule"}
<1>1. Len(f) \in Nat \ {0} /\ Tail(f) \in Seq(V) /\ Len(Tail(f)) = Len(f) - 1
  OBVIOUS
<1>2. c \in 1..Len(f)
  <2>1. c = (IF I # {} THEN Min(I) ELSE 0) + 1
    BY DEF Close, SelectInSeq
  <2>2. I \subseteq 1..(Len(f) - 1) /\ I \subseteq Nat
    BY <1>1
  <2>3. I # {} => Min(I) \in I
    BY <2>2, SmallestExists
  <2> HIDE DEF I, c
  <2>4. CASE I = {}
    BY <1>1, <2>1, <2>4
  <2>5. CASE I # {}
    <3>1. PICK k \in 1..(Len(f) - 1) : k = Min(I)
      BY <2>2, <2>3, <2>5
    <3>2. c = k + 1
      BY <2>1, <2>5, <3>1
    <3> QED
      BY <1>1, <3>2
  <2> QED
    BY <2>4, <2>5
<1> HIDE DEF c
<1>3. Header(f) = SubSeq(f, 2, c - 1) /\ Body(f) = LStrip(SubSeq(f, c + 1, Len(f)))
  BY DEF Header, Body, c
<1>4. SubSeq(f, 2, c - 1) \in Seq(V)
  BY <1>1, <1>2
<1>5. SubSeq(f, c + 1, Len(f)) \in Seq(V)
  BY <1>1, <1>2
<1>6. ASSUME NEW b \in Seq(V) PROVE LStrip(b) \in Seq(V)
  <2> DEFINE J == {i \in 1..Len(b) : b[i] # "nl"}
             first == IF J # {} THEN Min(J) ELSE 0
  <2>1. LStrip(b) = IF first = 0 THEN <<>> ELSE SubSeq(b, first, Len(b))
    BY DEF LStrip, SelectInSeq
  <2>2. J \subseteq 1..Len(b) /\ J \subseteq Nat /\ Len(b) \in Nat
    OBVIOUS
  <2>3. J # {} => Min(J) \in J
    BY <2>2, SmallestExists
  <2>4. first \in 0..Len(b)
    BY <2>2, <2>3
  <2> HIDE DEF first
  <2> QED
    BY <2>1, <2>2, <2>4
<1> QED
  BY <1>3, <1>4, <1>5, <1>6

\* What is read of a record with a "cr" in its body has none, so that it is no text
\* that the sha is of.
LEMMA CrFails ==
  ASSUME NEW s \in Seals, NEW f \in Seq({"rule", "nl", "word", s} \cup {"cr"}),
         Contains(body[s], "cr"), body[s] \in Seq(Tokens)
  PROVE  ~Passes(f)
<1> DEFINE V == {"rule", "nl", "word", s}
           text == ReadText(f)
           I == {k \in 1..Len(Header(text)) : Header(text)[k] \in Seals}
<1> SUFFICES ASSUME Splits(text), Sha(text) # 0, Body(text) = body[Header(text)[Sha(text)]]
             PROVE  FALSE
  BY DEF Passes
<1>1. "cr" \notin V /\ "nl" \in V /\ Seals \cap V = {s}
  BY RecordsAssumption
<1>2. f \in Seq(V \cup {"cr"})
  OBVIOUS
<1> HIDE DEF V
<1>3. text \in Seq(V) /\ text # <<>>
  BY <1>1, <1>2, ReadOf DEF Splits
<1> HIDE DEF text
<1>4. Header(text) \in Seq(V) /\ Body(text) \in Seq(V)
  BY <1>3, PartsOf
<1>5. Header(text)[Sha(text)] = s
  <2>1. Sha(text) = IF I # {} THEN Max(I) ELSE 0
    BY DEF Sha, SelectLastInSeq
  <2>2. Len(Header(text)) \in Nat /\ I \subseteq 1..Len(Header(text))
    BY <1>4
  <2>3. Sha(text) \in I
    BY <2>1, <2>2, LargestExists
  <2>4. Header(text)[Sha(text)] \in Seals \cap V
    BY <1>4, <2>3
  <2> QED
    BY <1>1, <2>4
<1>6. PICK k \in 1..Len(body[s]) : body[s][k] = "cr"
  BY DEF Contains
<1>7. body[s] \in Seq(V)
  BY <1>4, <1>5
<1>8. body[s][k] \in V
  BY <1>7
<1> QED
  BY <1>1, <1>6, <1>8

\* A record that is whole passes exactly if it is plain.
LEMMA WholePasses ==
  ASSUME NEW s \in Seals, Begun(s)
  PROVE  Passes(Text(s)) <=> Plain(s)
<1>1. CASE ~Contains(body[s], "cr")
  BY <1>1, UnchangedPasses
<1>2. CASE Contains(body[s], "cr")
  <2>1. Text(s) \in Seq({"rule", "nl", "word", s} \cup {"cr"}) /\ body[s] \in Seq(Tokens)
    BY MadeOf, WholeTokens
  <2>2. ~Passes(Text(s))
    BY <1>2, <2>1, CrFails
  <2> QED
    BY <1>2, <2>2 DEF Plain
<1> QED
  BY <1>1, <1>2

\* What is written of one does not, if its header has no rule.
LEMMA PartFails ==
  ASSUME NEW s \in Seals, Begun(s), RuleFree(s), NEW f, Part(f, s)
  PROVE  ~Passes(f)
<1> DEFINE T == Text(s)
           b == body[s]
           c == SubSeq(f, 6, Len(f))
<1> SUFFICES ASSUME Decodes(f), Splits(ReadText(f))
             PROVE  ~Passes(f)
  BY DEF Passes
<1>1. /\ Len(T) = 6 + Len(b) /\ Len(b) \in Nat \ {0}
      /\ T[1] = "rule" /\ T[2] = "nl" /\ T[3] = "word" /\ T[4] = s /\ T[5] = "rule" /\ T[6] = "nl"
  <2>1. header[s] = <<"word", s>>
    BY RuleFreeIf
  <2> QED
    BY <2>1, TextOf
<1>2. f \in Seq(Tokens) /\ Len(f) < Len(T) /\ \A k \in 1..Len(f) : f[k] = T[k]
  <2>1. f \in Seq(Tokens) /\ at[s] \in Nat /\ Len(f) \in {at[s], at[s] + 1} /\ at[s] < Len(T)
    BY DEF Part
  <2>2. Len(f) # at[s] + 1
    <3> SUFFICES ASSUME Len(f) = at[s] + 1 PROVE FALSE
      OBVIOUS
    <3>1. f[at[s] + 1] = "half" /\ at[s] + 1 \in 1..Len(f)
      BY <2>1 DEF Part
    <3> QED
      BY <3>1 DEF Decodes, Contains
  <2> QED
    BY <2>1, <2>2 DEF Part
<1>3a. CASE Contains(f, "cr")
  <2> DEFINE V == {"rule", "nl", "word", s}
  <2>1. T \in Seq(V \cup {"cr"}) /\ (Contains(T, "cr") => Contains(b, "cr"))
    BY MadeOf
  <2> HIDE DEF V, T
  <2>2. \A k \in 1..Len(f) : k \in 1..Len(T) /\ f[k] = T[k]
    BY <1>2, <1>1
  <2>3. \A k \in 1..Len(f) : f[k] \in V \cup {"cr"}
    BY <2>1, <2>2
  <2>4. f \in Seq(V \cup {"cr"})
    BY <1>2, <2>3
  <2>5. Contains(T, "cr")
    BY <1>3a, <2>2 DEF Contains
  <2> QED
    BY <2>1, <2>4, <2>5, WholeTokens, CrFails DEF V
<1> SUFFICES ASSUME ~Contains(f, "cr") PROVE ~Passes(f)
  BY <1>3a
<1>3b. ReadText(f) = f
  BY DEF ReadText
<1> HIDE DEF T
<1>3. Len(f) >= 5
  <2>1. PICK k \in 2..Len(f) : f[k] = "rule"
    BY <1>2, <1>3b, SplitsOnly
  <2>2. T[k] = "rule" /\ k \notin {2, 3, 4}
    BY <1>1, <1>2, <2>1, RecordsAssumption
  <2> QED
    BY <1>2, <2>1, <2>2
<1>4. f[2] = "nl" /\ f[3] = "word" /\ f[4] = s /\ f[5] = "rule" /\ (Len(f) >= 6 => f[6] = "nl")
  BY <1>1, <1>2, <1>3, SMTT(30)
<1>5. Sha(f) = 3 /\ Header(f)[Sha(f)] = s /\ Body(f) = LStrip(c)
  BY <1>2, <1>3, <1>4, CodecOf
<1>6. c \in Seq(Tokens) /\ Len(c) = Len(f) - 5 /\ (c # <<>> => c[1] = "nl")
  <2>1. c \in Seq(Tokens) /\ Len(c) = Len(f) - 5 /\ \A k \in 1..Len(c) : c[k] = f[k + 5]
    BY <1>2, <1>3, RestOf
  <2> HIDE DEF c
  <2> QED
    BY <1>2, <1>3, <1>4, <2>1
<1> HIDE DEF c
<1>7. Len(LStrip(c)) < Len(b)
  <2>1. CASE c = <<>>
    <3>1. LStrip(c) = <<>> /\ Len(<<>>) = 0
      BY <2>1, <1>6, LStripOf
    <3> QED
      BY <1>1, <3>1
  <2>2. CASE c # <<>>
    <3>1. Len(LStrip(c)) < Len(c)
      BY <1>6, <2>2, LStripOf
    <3>2. Len(c) <= Len(b) /\ Len(c) \in Nat
      BY <1>1, <1>2, <1>6
    <3> QED
      BY <1>1, <3>1, <3>2, <1>6
  <2> QED
    BY <2>1, <2>2
<1> QED
  BY <1>1, <1>5, <1>7, <1>3b DEF Passes

-----------------------------------------------------------------------------
(* What a file holds *)

\* A seal has an id, a header and a body from the time it begins.
Draws ==
  \A s \in Seals :
    IF pc[s] \in {"idle", "refused"} THEN id[s] = NoId /\ at[s] = 0
    ELSE id[s] \in Ids /\ Begun(s) /\ (pc[s] = "opening" => at[s] = 0)

\* A file is there if a seal has opened it, and none is if no seal drew its id.
Files ==
  /\ \A s \in Seals : pc[s] \in {"writing", "sealed"} => file[id[s]] # Absent
  /\ \A i \in Ids : (\A s \in Seals : id[s] # i) => file[i] = Absent

\* What a seal has written, as far as it has come.
Holds(s) ==
  /\ pc[s] = "opening" => file[id[s]] = Absent
  /\ pc[s] = "writing" => Part(file[id[s]], s)
  /\ pc[s] = "dead" => file[id[s]] = Absent \/ Part(file[id[s]], s)
  /\ pc[s] = "sealed" => file[id[s]] = Text(s)

\* A file whose id one seal has drawn holds what that one has written.
Content == \A s \in Seals : Alone(s) => Holds(s)

IInv == TypeOK /\ Draws /\ Files /\ Content

\* What a seal may be given it can write.
LEMMA GivenIsBegun ==
  ASSUME NEW s \in Seals, NEW b \in Bodies
  PROVE  /\ Normal(b) \in Words /\ Normal(b) # <<>>
         /\ Headers(s) \subseteq Seq(Tokens) /\ Words \subseteq Seq(Tokens)
<1> DEFINE W == {"rule", "nl", "cr", "word"}
           I == {k \in 1..Len(b) : b[k] # "nl"}
           last == IF I # {} THEN Max(I) ELSE 0
           c == SubSeq(b, 1, last)
<1>1. b \in Seq(W) /\ Len(b) \in Nat
  BY RecordsAssumption
<1>2. last \in 0..Len(b)
  <2>1. I \subseteq 1..Len(b)
    OBVIOUS
  <2>2. I # {} => Max(I) \in I
    BY <1>1, <2>1, LargestExists
  <2> QED
    BY <1>1, <2>1, <2>2
<1>3. Normal(b) = Append(c, "nl")
  BY DEF Normal, SelectLastInSeq
<1> HIDE DEF last
<1>4. c \in Seq(W)
  BY <1>1, <1>2
<1> HIDE DEF c
<1>5. Append(c, "nl") \in Seq(W) /\ Append(c, "nl") # <<>>
  BY <1>4
<1>6. /\ <<"word", s>> \in Seq(Tokens) /\ <<"rule", s>> \in Seq(Tokens)
      /\ <<"word", s, "rule", "word", "rule", "nl">> \in Seq(Tokens)
  BY DEF Tokens
<1>7. W \subseteq Tokens
  BY DEF Tokens
<1> QED
  BY <1>3, <1>5, <1>6, <1>7 DEF Headers, Words

\* A write within a text leaves the file a text.
LEMMA WrittenType ==
  ASSUME NEW old \in Seq(Tokens), NEW text \in Seq(Tokens), NEW a \in Nat \ {0}, NEW b \in a..Len(text)
  PROVE  Written(old, text, a, b) \in Seq(Tokens)
<1> DEFINE n == IF Len(old) > b THEN Len(old) ELSE b
<1>1. n \in Nat /\ Len(old) \in Nat /\ b \in 1..Len(text)
  OBVIOUS
<1>2. "nul" \in Tokens
  BY DEF Tokens
<1>3. ASSUME NEW k \in 1..n
      PROVE  (IF k \in a..b THEN text[k] ELSE IF k <= Len(old) THEN old[k] ELSE "nul") \in Tokens
  BY <1>1, <1>2
<1>4. Written(old, text, a, b) \in [1..n -> Tokens]
  BY <1>3 DEF Written
<1> QED
  BY <1>1, <1>4

\* A write that begins where the file ends, or in what was cut there.
LEMMA WrittenNext ==
  ASSUME NEW old \in Seq(Tokens), NEW text \in Seq(Tokens), NEW n \in Nat, NEW m \in (n + 1)..Len(text),
         Len(old) \in {n, n + 1}, \A k \in 1..n : old[k] = text[k]
  PROVE  LET new == Written(old, text, n + 1, m)
         IN  Len(new) = m /\ new \in Seq(Tokens) /\ \A k \in 1..m : new[k] = text[k]
<1> DEFINE new == Written(old, text, n + 1, m)
<1>1. new \in Seq(Tokens)
  BY WrittenType
<1>2. (IF Len(old) > m THEN Len(old) ELSE m) = m
  OBVIOUS
<1>3. new = [k \in 1..m |-> IF k \in (n + 1)..m THEN text[k] ELSE IF k <= Len(old) THEN old[k] ELSE "nul"]
  BY <1>2 DEF Written
<1>4. \A k \in 1..m : new[k] = text[k]
  BY <1>3
<1>5. DOMAIN new = 1..m /\ m \in Nat
  BY <1>3
<1> HIDE DEF new
<1>6. Len(new) = m
  BY <1>1, <1>5
<1> QED
  BY <1>1, <1>4, <1>6 DEF new

LEMMA InitInv == Init => IInv
<1> SUFFICES ASSUME Init PROVE IInv
  OBVIOUS
<1>1. TypeOK
  BY DEF Init, TypeOK
<1>2. Draws
  BY DEF Init, Draws
<1>3. Files
  BY DEF Init, Files
<1>4. Content
  BY DEF Init, Content, Holds
<1> QED
  BY <1>1, <1>2, <1>3, <1>4 DEF IInv

\* A step of s changes no other seal, and no file but its own.
StepOf(s) ==
  /\ \A t \in Seals \ {s} :
       /\ pc'[t] = pc[t] /\ id'[t] = id[t] /\ at'[t] = at[t]
       /\ header'[t] = header[t] /\ body'[t] = body[t]
  /\ \A i \in Ids : i # id'[s] => file'[i] = file[i]
  /\ id[s] \in {NoId, id'[s]} /\ (id[s] = NoId \/ header'[s] = header[s])
  /\ pc[s] # "sealed" /\ lsVars' = lsVars

\* No step removes a file.
FilesStay == \A i \in Ids : file[i] # Absent => file'[i] # Absent

\* So it leaves as it was what is known of the others ...
LEMMA OthersKeep ==
  ASSUME IInv, NEW s \in Seals, StepOf(s), NEW t \in Seals \ {s}
  PROVE  /\ pc[t] = pc'[t] /\ id'[t] = id[t] /\ at'[t] = at[t]
         /\ Begun(t) => Begun(t)'
         /\ Alone(t)' => Holds(t)'
<1>1. pc'[t] = pc[t] /\ id'[t] = id[t] /\ header'[t] = header[t] /\ body'[t] = body[t] /\ at'[t] = at[t]
  BY DEF StepOf
<1>2. Begun(t) => Begun(t)'
  BY <1>1 DEF Begun, Headers, Words
<1>3. ASSUME Alone(t)'
      PROVE  Holds(t)'
  <2>1. CASE pc[t] \in {"idle", "refused"}
    BY <1>1, <2>1 DEF Holds
  <2>2. CASE pc[t] \notin {"idle", "refused"}
    <3>1. id[t] \in Ids /\ id[t] # NoId
      BY <2>2, RecordsAssumption DEF IInv, Draws
    <3>2. id'[s] # id[t]
      BY <1>1, <1>3 DEF Alone
    <3>3. file'[id[t]] = file[id[t]]
      BY <3>1, <3>2 DEF StepOf
    <3>4. Alone(t)
      <4>1. ASSUME NEW u \in Seals \ {t} PROVE id[u] # id[t]
        <5>1. CASE u = s
          BY <3>1, <3>2, <5>1 DEF StepOf
        <5>2. CASE u # s
          BY <1>1, <1>3, <5>2 DEF Alone, StepOf
        <5> QED
          BY <5>1, <5>2
      <4> QED
        BY <4>1 DEF Alone
    <3>5. Holds(t)
      BY <3>4 DEF IInv, Content, Holds
    <3>6. Text(t)' = Text(t)
      BY <1>1 DEF Text, render_record
    <3>7. Part(file[id[t]], t) => Part(file[id[t]], t)'
      <4> DEFINE f == file[id[t]]
      <4>1. f' = f
        BY <1>1, <3>3
      <4> HIDE DEF f
      <4>2. Part(f, t) => Part(f, t)'
        BY <1>1, <3>6, <4>1 DEF Part, Tokens
      <4> QED
        BY <4>2 DEF f
    <3> QED
      BY <1>1, <3>3, <3>5, <3>6, <3>7 DEF Holds
  <2> QED
    BY <2>1, <2>2
<1> QED
  BY <1>1, <1>2, <1>3

\* ... and the invariant holds after it if it does of s.
LEMMA StepKeeps ==
  ASSUME IInv, NEW s \in Seals, StepOf(s), TypeOK',
         IF pc'[s] \in {"idle", "refused"} THEN id'[s] = NoId /\ at'[s] = 0
         ELSE id'[s] \in Ids /\ Begun(s)' /\ (pc'[s] = "opening" => at'[s] = 0),
         FilesStay,
         pc'[s] \in {"writing", "sealed"} => file'[id'[s]] # Absent,
         Alone(s)' => Holds(s)'
  PROVE  IInv' /\ StepOf(s) /\ FilesStay
<1>1. Draws'
  <2>1. ASSUME NEW t \in Seals \ {s}
        PROVE  IF pc'[t] \in {"idle", "refused"} THEN id'[t] = NoId /\ at'[t] = 0
               ELSE id'[t] \in Ids /\ Begun(t)' /\ (pc'[t] = "opening" => at'[t] = 0)
    BY OthersKeep DEF IInv, Draws
  <2> QED
    BY <2>1 DEF Draws
<1>2. Files'
  <2>1. ASSUME NEW t \in Seals, pc'[t] \in {"writing", "sealed"} PROVE file'[id'[t]] # Absent
    <3>1. CASE t = s
      BY <2>1, <3>1
    <3>2. CASE t # s
      <4>1. pc[t] = pc'[t] /\ id'[t] = id[t]
        BY <3>2, OthersKeep
      <4>2. id[t] \in Ids /\ file[id[t]] # Absent
        BY <2>1, <4>1 DEF IInv, Files, Draws
      <4> QED
        BY <4>1, <4>2 DEF FilesStay
    <3> QED
      BY <3>1, <3>2
  <2>2. ASSUME NEW i \in Ids, \A t \in Seals : id'[t] # i PROVE file'[i] = Absent
    <3>1. \A t \in Seals : id[t] # i
      <4>1. id[s] # i
        BY <2>2, RecordsAssumption DEF StepOf
      <4>2. \A t \in Seals \ {s} : id[t] # i
        BY <2>2 DEF StepOf
      <4> QED
        BY <4>1, <4>2
    <3>2. file[i] = Absent
      BY <3>1 DEF IInv, Files
    <3> QED
      BY <2>2, <3>2 DEF StepOf
  <2> QED
    BY <2>1, <2>2 DEF Files
<1>3. Content'
  <2>1. \A t \in Seals : Alone(t)' => Holds(t)'
    BY OthersKeep
  <2> QED
    BY <2>1 DEF Content, Holds
<1> QED
  BY <1>1, <1>2, <1>3 DEF IInv

-----------------------------------------------------------------------------
(* No action breaks the invariant *)

LEMMA RefusesKeeps == ASSUME IInv, NEW s \in Seals, Refuses(s) PROVE IInv' /\ StepOf(s) /\ FilesStay
<1>1. TypeOK'
  BY DEF IInv, TypeOK, Refuses, GoesTo, lsVars
<1>2. StepOf(s)
  BY DEF IInv, TypeOK, Draws, Refuses, GoesTo, StepOf
<1>3. pc'[s] = "refused" /\ id'[s] = NoId /\ at'[s] = 0 /\ file' = file
  BY DEF IInv, TypeOK, Draws, Refuses, GoesTo
<1>4. Holds(s)'
  BY <1>3 DEF Holds
<1> QED
  BY <1>1, <1>2, <1>3, <1>4, StepKeeps DEF FilesStay

LEMMA BeginsKeeps == ASSUME IInv, NEW s \in Seals, Begins(s) PROVE IInv' /\ StepOf(s) /\ FilesStay
<1>1. PICK i \in Ids, h \in Headers(s), b \in Bodies :
        /\ id' = [id EXCEPT ![s] = i] /\ header' = [header EXCEPT ![s] = h]
        /\ body' = [body EXCEPT ![s] = Normal(b)]
  BY DEF Begins
<1>2. /\ pc' = [pc EXCEPT ![s] = "opening"] /\ at' = at /\ file' = file /\ lsVars' = lsVars
      /\ pc[s] = "idle" /\ id[s] = NoId /\ at[s] = 0
  BY DEF Begins, GoesTo, IInv, Draws
<1>3. /\ Normal(b) \in Words /\ Normal(b) # <<>>
      /\ Headers(s) \subseteq Seq(Tokens) /\ Words \subseteq Seq(Tokens)
  BY GivenIsBegun
<1>4. TypeOK'
  BY <1>1, <1>2, <1>3 DEF IInv, TypeOK, Begins, lsVars
<1>5. /\ pc'[s] = "opening" /\ id'[s] = i /\ header'[s] = h /\ body'[s] = Normal(b) /\ at'[s] = 0
      /\ StepOf(s)
  BY <1>1, <1>2 DEF IInv, TypeOK, StepOf
<1>6. Begun(s)'
  BY <1>3, <1>5 DEF Begun, Headers, Words
<1>7. ASSUME Alone(s)' PROVE Holds(s)'
  <2>1. \A t \in Seals : id[t] # i
    BY <1>2, <1>5, <1>7, RecordsAssumption DEF Alone, StepOf
  <2>2. file[i] = Absent
    BY <2>1 DEF IInv, Files
  <2> QED
    BY <1>2, <1>5, <2>2 DEF Holds
<1> QED
  BY <1>2, <1>4, <1>5, <1>6, <1>7, StepKeeps DEF FilesStay

LEMMA OpensKeeps == ASSUME IInv, NEW s \in Seals, Opens(s) PROVE IInv' /\ StepOf(s) /\ FilesStay
<1> DEFINE i == id[s]
<1>1. /\ pc[s] = "opening" /\ pc' = [pc EXCEPT ![s] = "writing"] /\ file' = [file EXCEPT ![i] = <<>>]
      /\ id' = id /\ header' = header /\ body' = body /\ at' = at /\ lsVars' = lsVars
      /\ i \in Ids /\ Begun(s) /\ at[s] = 0
  BY DEF Opens, GoesTo, IInv, Draws
<1>2. <<>> \in Seq(Tokens)
  OBVIOUS
<1>3. TypeOK'
  BY <1>1, <1>2 DEF IInv, TypeOK, Opens, lsVars
<1>4. StepOf(s) /\ pc'[s] = "writing" /\ file'[i] = <<>> /\ id'[s] = i
  BY <1>1 DEF IInv, TypeOK, StepOf
<1>5. Begun(s)'
  BY <1>1 DEF Begun, Headers, Words
<1>6. <<>> # Absent
  BY <1>2, RecordsAssumption
<1>7. FilesStay
  BY <1>1, <1>4, <1>6 DEF StepOf, FilesStay
<1>8. Part(<<>>, s)'
  <2>1. Len(Text(s)) \in Nat \ {0}
    BY <1>1, WholeTokens, TextOf, SMTT(30) DEF Begun, Headers
  <2>2. Text(s)' = Text(s) /\ at'[s] = 0
    BY <1>1 DEF Text, render_record
  <2>3. Part(<<>>, s)' <=>
          /\ <<>> \in Seq(Tokens)' /\ at'[s] \in Nat
          /\ at'[s] < Len(Text(s)') /\ Len(<<>>) \in {at'[s], at'[s] + 1}
          /\ \A k \in 1..at'[s] : <<>>[k] = Text(s)'[k]
          /\ Len(<<>>) = at'[s] + 1 => <<>>[at'[s] + 1] = "half"
    BY DEF Part
  <2> QED
    BY <1>2, <2>1, <2>2, <2>3 DEF Tokens
<1>9. Holds(s)'
  BY <1>4, <1>8 DEF Holds
<1> QED
  BY <1>1, <1>3, <1>4, <1>5, <1>6, <1>7, <1>9, StepKeeps

LEMMA DiesKeeps == ASSUME IInv, NEW s \in Seals, Dies(s) PROVE IInv' /\ StepOf(s) /\ FilesStay
<1>1. /\ pc[s] \in {"opening", "writing"} /\ pc' = [pc EXCEPT ![s] = "dead"]
      /\ id' = id /\ header' = header /\ body' = body /\ at' = at /\ file' = file /\ lsVars' = lsVars
      /\ id[s] \in Ids /\ Begun(s)
  BY DEF Dies, GoesTo, IInv, Draws
<1>2. TypeOK'
  BY <1>1 DEF IInv, TypeOK, Dies, lsVars
<1>3. StepOf(s) /\ pc'[s] = "dead" /\ id'[s] = id[s]
  BY <1>1 DEF IInv, TypeOK, StepOf
<1>4. Begun(s)'
  BY <1>1 DEF Begun, Headers, Words
<1>5. ASSUME Alone(s)' PROVE Holds(s)'
  <2>1. Alone(s)
    BY <1>1, <1>5 DEF Alone
  <2>2. file[id[s]] = Absent \/ Part(file[id[s]], s)
    BY <1>1, <2>1 DEF IInv, Content, Holds
  <2>3. Part(file[id[s]], s) => Part(file[id[s]], s)'
    BY <1>1 DEF Part, Text, render_record, Tokens
  <2> QED
    BY <1>1, <1>3, <2>2, <2>3 DEF Holds
<1> QED
  BY <1>1, <1>2, <1>3, <1>4, <1>5, StepKeeps DEF FilesStay

\* What is so of a seal before it writes.
LEMMA WritesFrom ==
  ASSUME IInv, NEW s \in Seals, pc[s] = "writing"
  PROVE  /\ id[s] \in Ids /\ Begun(s) /\ at[s] \in Nat /\ file[id[s]] \in Seq(Tokens)
         /\ Text(s) \in Seq(Tokens) /\ Len(Text(s)) \in Nat /\ (Alone(s) => Part(file[id[s]], s))
<1>1. id[s] \in Ids /\ Begun(s) /\ at[s] \in Nat /\ file[id[s]] # Absent
  BY DEF IInv, TypeOK, Draws, Files
<1>2. file[id[s]] \in Seq(Tokens)
  BY <1>1 DEF IInv, TypeOK
<1>3. Text(s) \in Seq(Tokens)
  BY <1>1, WholeTokens
<1>4. Alone(s) => Part(file[id[s]], s)
  BY DEF IInv, Content, Holds
<1> QED
  BY <1>1, <1>2, <1>3, <1>4

LEMMA WritesKeeps == ASSUME IInv, NEW s \in Seals, Writes(s) PROVE IInv' /\ StepOf(s) /\ FilesStay
<1> DEFINE i == id[s]
           T == Text(s)
           old == file[i]
<1>1. PICK n \in (at[s] + 1)..Len(T) :
        /\ file' = [file EXCEPT ![i] = Written(old, T, at[s] + 1, n)]
        /\ at' = [at EXCEPT ![s] = n]
        /\ pc' = [pc EXCEPT ![s] = IF n = Len(T) THEN "sealed" ELSE "writing"]
  BY DEF Writes, GoesTo
<1> DEFINE new == Written(old, T, at[s] + 1, n)
<1>2. pc[s] = "writing" /\ id' = id /\ header' = header /\ body' = body /\ lsVars' = lsVars
  BY DEF Writes
<1>3. /\ i \in Ids /\ Begun(s) /\ at[s] \in Nat /\ old \in Seq(Tokens)
      /\ T \in Seq(Tokens) /\ Len(T) \in Nat /\ (Alone(s) => Part(old, s))
  BY <1>2, WritesFrom
<1>4. new \in Seq(Tokens) /\ n \in Nat
  <2> HIDE DEF T, old, i
  <2>1. at[s] + 1 \in Nat \ {0} /\ n \in Nat
    BY <1>3
  <2> QED
    BY <1>3, <2>1, WrittenType
<1>5. Alone(s) => Len(new) = n /\ \A k \in 1..n : new[k] = T[k]
  <2>1. Alone(s) => Len(old) \in {at[s], at[s] + 1} /\ \A k \in 1..at[s] : old[k] = T[k]
    BY <1>3 DEF Part
  <2> HIDE DEF T, old
  <2> QED
    BY <1>3, <2>1, WrittenNext
<1> HIDE DEF new
<1>6. TypeOK'
  BY <1>1, <1>2, <1>3, <1>4 DEF IInv, TypeOK, Writes, lsVars, new
<1>7. /\ StepOf(s) /\ id'[s] = i /\ file'[i] = new /\ at'[s] = n
      /\ pc'[s] = IF n = Len(T) THEN "sealed" ELSE "writing"
  BY <1>1, <1>2, <1>3 DEF IInv, TypeOK, StepOf, new
<1>8. Begun(s)'
  BY <1>2, <1>3 DEF Begun, Headers, Words
<1>9. new # Absent /\ FilesStay
  BY <1>4, <1>7, RecordsAssumption DEF StepOf, FilesStay
<1>10. ASSUME Alone(s)' PROVE Holds(s)'
  <2>1. Alone(s)
    BY <1>2, <1>10 DEF Alone
  <2>2. Len(new) = n /\ \A k \in 1..n : new[k] = T[k]
    BY <1>5, <2>1
  <2>3. Text(s)' = T
    BY <1>2 DEF Text, render_record
  <2> HIDE DEF T, old, i
  <2>4. CASE n = Len(T)
    <3>1. new = T
      BY <1>3, <1>4, <2>2, <2>4, SeqEqual
    <3> QED
      BY <1>7, <2>3, <2>4, <3>1 DEF Holds
  <2>5. CASE n # Len(T)
    <3>1. n < Len(T)
      BY <1>3, <1>4, <2>5
    <3>2. Part(file[id[s]], s)'
      BY <1>4, <1>7, <2>2, <2>3, <3>1 DEF Part, Tokens
    <3> QED
      BY <1>7, <2>5, <3>2 DEF Holds
  <2> QED
    BY <2>4, <2>5
<1> QED
  BY <1>3, <1>6, <1>7, <1>8, <1>9, <1>10, StepKeeps

LEMMA CutsKeeps == ASSUME IInv, NEW s \in Seals, Cuts(s) PROVE IInv' /\ StepOf(s) /\ FilesStay
<1> DEFINE i == id[s]
           T == Text(s)
           old == file[i]
<1>1. PICK n \in (at[s] + 1)..Len(T) :
        /\ file' = [file EXCEPT ![i] = Written(old, [T EXCEPT ![n] = "half"], at[s] + 1, n)]
        /\ at' = [at EXCEPT ![s] = n - 1]
  BY DEF Cuts
<1> DEFINE C == [T EXCEPT ![n] = "half"]
           new == Written(old, C, at[s] + 1, n)
<1>2. pc[s] = "writing" /\ pc' = pc /\ id' = id /\ header' = header /\ body' = body /\ lsVars' = lsVars
  BY DEF Cuts
<1>3. /\ i \in Ids /\ Begun(s) /\ at[s] \in Nat /\ old \in Seq(Tokens)
      /\ T \in Seq(Tokens) /\ Len(T) \in Nat /\ (Alone(s) => Part(old, s))
  BY <1>2, WritesFrom
<1>4. /\ C \in Seq(Tokens) /\ Len(C) = Len(T) /\ C[n] = "half" /\ n \in Nat \ {0}
      /\ \A k \in 1..(n - 1) : C[k] = T[k]
  <2>1. "half" \in Tokens
    BY DEF Tokens
  <2> HIDE DEF T, old, i
  <2> QED
    BY <1>3, <2>1
<1>5. new \in Seq(Tokens)
  <2> HIDE DEF C, T, old, i
  <2>1. at[s] + 1 \in Nat \ {0} /\ n \in (at[s] + 1)..Len(C)
    BY <1>3, <1>4
  <2> QED
    BY <1>3, <1>4, <2>1, WrittenType
<1>6. Alone(s) => Len(new) = n /\ \A k \in 1..n : new[k] = C[k]
  <2>1. Alone(s) => Len(old) \in {at[s], at[s] + 1} /\ \A k \in 1..at[s] : old[k] = T[k]
    BY <1>3 DEF Part
  <2> HIDE DEF C, T, old
  <2>2. Alone(s) => \A k \in 1..at[s] : old[k] = C[k]
    BY <1>3, <1>4, <2>1
  <2> QED
    BY <1>3, <1>4, <2>1, <2>2, WrittenNext
<1> HIDE DEF new
<1>7. n - 1 \in Nat
  BY <1>4
<1>8. TypeOK'
  BY <1>1, <1>2, <1>3, <1>5, <1>7 DEF IInv, TypeOK, Cuts, lsVars, new
<1>9. StepOf(s) /\ id'[s] = i /\ file'[i] = new /\ at'[s] = n - 1 /\ pc'[s] = "writing"
  BY <1>1, <1>2, <1>3 DEF IInv, TypeOK, StepOf, new
<1>10. Begun(s)'
  BY <1>2, <1>3 DEF Begun, Headers, Words
<1>11. new # Absent /\ FilesStay
  BY <1>5, <1>9, RecordsAssumption DEF StepOf, FilesStay
<1>12. ASSUME Alone(s)' PROVE Holds(s)'
  <2>1. Alone(s)
    BY <1>2, <1>12 DEF Alone
  <2>2. Text(s)' = T
    BY <1>2 DEF Text, render_record
  <2> HIDE DEF C, T, old, i
  <2>3. /\ Len(new) = (n - 1) + 1 /\ new[(n - 1) + 1] = "half"
        /\ n - 1 < Len(T) /\ \A k \in 1..(n - 1) : new[k] = T[k]
    BY <1>3, <1>4, <1>6, <2>1
  <2>4. Part(file[id[s]], s)'
    BY <1>5, <1>7, <1>9, <2>2, <2>3 DEF Part, Tokens
  <2> QED
    BY <1>9, <2>4 DEF Holds
<1> QED
  BY <1>3, <1>8, <1>9, <1>10, <1>11, <1>12, StepKeeps

\* Nor does the invariant depend on what a listing changes.
LEMMA SameFiles ==
  ASSUME IInv, sealVars' = sealVars, file' = file, TypeOK'
  PROVE  IInv'
<1>1. pc' = pc /\ id' = id /\ header' = header /\ body' = body /\ at' = at
  BY DEF sealVars
<1>2. Draws'
  BY <1>1 DEF IInv, Draws, Begun, Headers, Words
<1>3. Files'
  BY <1>1 DEF IInv, Files
<1>4. Content'
  <2> SUFFICES ASSUME NEW s \in Seals, Alone(s)'
               PROVE  Holds(s)'
    BY DEF Content, Holds
  <2>1. Holds(s)
    BY <1>1 DEF IInv, Content, Alone, Holds
  <2>2. Text(s)' = Text(s)
    BY <1>1 DEF Text, render_record
  <2>3. Part(file[id[s]], s) => Part(file[id[s]], s)'
    BY <1>1, <2>2 DEF Part, Tokens
  <2> QED
    BY <1>1, <2>1, <2>2, <2>3 DEF Holds
<1> QED
  BY <1>2, <1>3, <1>4 DEF IInv

\* A listing changes no seal and no file.
LEMMA LsKeeps ==
  ASSUME IInv, LsBegins \/ LsEnds \/ (\E i \in Ids : LsReads(i) \/ LsTrips(i))
  PROVE  IInv'
<1>1. sealVars' = sealVars /\ file' = file
  BY DEF LsBegins, LsEnds, LsReads, LsTrips
<1>2. TypeOK'
  <2>1. ls' \in {"idle", "reading", "done", "traceback"} /\ todo' \subseteq Ids /\ before' \subseteq Seals
    BY DEF IInv, TypeOK, LsBegins, LsEnds, LsReads, LsTrips
  <2>2. listing' \in [Ids -> {"unlisted", "ok", "sha mismatch", "UNREADABLE"}]
    BY DEF IInv, TypeOK, LsBegins, LsEnds, LsReads, LsTrips
  <2> QED
    BY <1>1, <2>1, <2>2 DEF IInv, TypeOK, sealVars
<1> QED
  BY <1>1, <1>2, SameFiles

LEMMA StutterKeeps == ASSUME IInv, UNCHANGED vars PROVE IInv'
<1>1. sealVars' = sealVars /\ file' = file
  BY DEF vars
<1>2. TypeOK'
  BY DEF IInv, TypeOK, vars, sealVars, lsVars
<1> QED
  BY <1>1, <1>2, SameFiles

LEMMA InvariantStep == ASSUME IInv, [Next]_vars PROVE IInv'
<1>1. CASE \E s \in Seals : Refuses(s) \/ Begins(s) \/ Opens(s) \/ Writes(s) \/ Cuts(s) \/ Dies(s)
  BY <1>1, RefusesKeeps, BeginsKeeps, OpensKeeps, WritesKeeps, CutsKeeps, DiesKeeps
<1>2. CASE LsBegins \/ LsEnds \/ (\E i \in Ids : LsReads(i) \/ LsTrips(i))
  BY <1>2, LsKeeps
<1>3. CASE UNCHANGED vars
  BY <1>3, StutterKeeps
<1> QED
  BY <1>1, <1>2, <1>3 DEF Next

LEMMA Invariance == Spec => []IInv
<1>1. IInv /\ [Next]_vars => IInv'
  BY InvariantStep
<1> QED
  BY InitInv, <1>1, PTL DEF Spec

-----------------------------------------------------------------------------
(* What a listing says *)

\* What it has of a seal that had returned when it began, ...
Shows(s) ==
  listing[id[s]] # "unlisted" /\ (Alone(s) => (listing[id[s]] = "ok" <=> Plain(s)))

\* ... and who is behind an id that it has as ok.
Backed(i) ==
  (\A s \in Seals : id[s] = i => RuleFree(s))
    => \E s \in Seals : id[s] = i /\ (pc[s] = "sealed" \/ ~Alone(s))

LInv ==
  /\ \A i \in todo : file[i] # Absent
  /\ \A s \in before : pc[s] = "sealed"
  /\ ls = "idle" => \A i \in Ids : listing[i] = "unlisted"
  /\ ls \in {"reading", "done"} => \A s \in before : id[s] \in todo \/ Shows(s)
  /\ ls = "done" => todo = {}
  /\ \A i \in Ids : listing[i] = "ok" => Backed(i)

\* No id that is drawn is given back, so a seal that is alone with its id always was.
LEMMA AloneBefore ==
  ASSUME IInv, NEW s \in Seals, StepOf(s), NEW t \in Seals, id[t] # NoId, Alone(t)'
  PROVE  Alone(t)
<1>1. \A u \in Seals : id[u] \in {NoId, id'[u]}
  BY DEF StepOf
<1> QED
  BY <1>1 DEF Alone

LEMMA SealKeepsListing ==
  ASSUME IInv, LInv, NEW s \in Seals, StepOf(s), FilesStay
  PROVE  LInv'
<1>1. ls' = ls /\ todo' = todo /\ listing' = listing /\ before' = before
  BY DEF StepOf, lsVars
<1>2. \A t \in before : t \in Seals \ {s} /\ pc[t] = "sealed" /\ id[t] \in Ids /\ id[t] # NoId
  <2> SUFFICES ASSUME NEW t \in before
               PROVE  t \in Seals \ {s} /\ pc[t] = "sealed" /\ id[t] \in Ids /\ id[t] # NoId
    OBVIOUS
  <2>1. t \in Seals /\ pc[t] = "sealed"
    BY DEF IInv, TypeOK, LInv
  <2>2. t # s
    BY <2>1 DEF StepOf
  <2>3. id[t] \in Ids
    BY <2>1 DEF IInv, Draws
  <2> QED
    BY <2>1, <2>2, <2>3, RecordsAssumption
<1>3. \A t \in before : pc'[t] = "sealed"
  BY <1>2 DEF StepOf
<1>4. \A i \in todo : file'[i] # Absent
  BY DEF IInv, TypeOK, LInv, FilesStay
<1>5. ASSUME NEW t \in before, Shows(t) PROVE Shows(t)'
  <2>1. /\ t \in Seals /\ id'[t] = id[t] /\ header'[t] = header[t] /\ body'[t] = body[t]
        /\ id[t] # NoId
    BY <1>2 DEF StepOf
  <2>2. Alone(t)' => Alone(t)
    BY <2>1, AloneBefore
  <2>3. Plain(t)' <=> Plain(t)
    BY <2>1 DEF Plain, RuleFree
  <2> QED
    BY <1>1, <1>5, <2>1, <2>2, <2>3 DEF Shows
<1>6. \A t \in before : id'[t] = id[t]
  BY <1>2 DEF StepOf
<1>7. ASSUME NEW i \in Ids, Backed(i) PROVE Backed(i)'
  <2> SUFFICES ASSUME \A t \in Seals : id'[t] = i => RuleFree(t)'
               PROVE  \E t \in Seals : id'[t] = i /\ (pc'[t] = "sealed" \/ ~Alone(t)')
    BY DEF Backed
  <2>1. i # NoId
    BY RecordsAssumption
  <2>2. ASSUME NEW t \in Seals, id[t] = i
        PROVE  id'[t] = i /\ header'[t] = header[t] /\ (pc[t] = "sealed" => pc'[t] = "sealed")
    BY <2>1, <2>2 DEF StepOf
  <2>3. \A t \in Seals : id[t] = i => RuleFree(t)
    BY <2>2 DEF RuleFree
  <2>4. PICK t \in Seals : id[t] = i /\ (pc[t] = "sealed" \/ ~Alone(t))
    BY <1>7, <2>3 DEF Backed
  <2>5. Alone(t)' => Alone(t)
    BY <2>1, <2>4, AloneBefore
  <2> QED
    BY <2>2, <2>4, <2>5
<1> QED
  BY <1>1, <1>3, <1>4, <1>5, <1>6, <1>7 DEF LInv

\* What a listing that reads a file says of it.
LEMMA ReadsWhatIs ==
  ASSUME IInv, LInv, NEW i \in Ids, LsReads(i)
  PROVE  /\ listing'[i] # "unlisted" /\ (listing'[i] = "ok" <=> Passes(file[i]))
         /\ \A j \in Ids : j # i => listing'[j] = listing[j]
         /\ file[i] # Absent
<1>1. listing' = [listing EXCEPT ![i] = IF ~Splits(ReadText(file[i])) THEN "UNREADABLE"
                                        ELSE IF Passes(file[i]) THEN "ok" ELSE "sha mismatch"]
  BY DEF LsReads
<1>2. Passes(file[i]) => Splits(ReadText(file[i]))
  BY DEF Passes
<1> QED
  BY <1>1, <1>2 DEF IInv, TypeOK, LInv, LsReads

LEMMA LsKeepsListing ==
  ASSUME IInv, LInv, LsBegins \/ LsEnds \/ (\E i \in Ids : LsReads(i) \/ LsTrips(i))
  PROVE  LInv'
<1>1. pc' = pc /\ id' = id /\ header' = header /\ body' = body /\ file' = file
  BY DEF LsBegins, LsEnds, LsReads, LsTrips, sealVars
<1>2. \A i \in Ids : Backed(i)' <=> Backed(i)
  BY <1>1 DEF Backed, RuleFree, Alone
<1>3. CASE LsBegins
  <2>1. ls' = "reading" /\ listing' = listing /\ before' = {s \in Seals : pc[s] = "sealed"}
        /\ todo' = {i \in Ids : file[i] # Absent}
    BY <1>3 DEF LsBegins
  <2>2. \A s \in before' : id[s] \in todo'
    BY <2>1 DEF IInv, Draws, Files
  <2> QED
    BY <1>1, <1>2, <2>1, <2>2 DEF LInv
<1>4. CASE \E i \in Ids : LsReads(i)
  <2>1. PICK i \in Ids : LsReads(i)
    BY <1>4
  <2>2. ls = "reading" /\ ls' = ls /\ todo' = todo \ {i} /\ before' = before
    BY <2>1 DEF LsReads
  <2>3. /\ listing'[i] # "unlisted" /\ (listing'[i] = "ok" <=> Passes(file[i]))
        /\ \A j \in Ids : j # i => listing'[j] = listing[j]
        /\ file[i] # Absent
    BY <2>1, ReadsWhatIs
  <2>4. ASSUME NEW s \in before, id[s] \notin todo'
        PROVE  Shows(s)'
    <3>1. s \in Seals /\ pc[s] = "sealed" /\ id[s] \in Ids /\ Begun(s)
      BY DEF IInv, TypeOK, Draws, LInv
    <3>2. CASE id[s] = i
      <4>1. Alone(s) => (Passes(file[i]) <=> Plain(s))
        BY <3>1, <3>2, WholePasses DEF IInv, Content, Holds
      <4> QED
        BY <1>1, <2>3, <3>2, <4>1 DEF Shows, Alone, Plain, RuleFree
    <3>3. CASE id[s] # i
      <4>1. Shows(s) /\ listing'[id[s]] = listing[id[s]]
        BY <2>2, <2>3, <2>4, <3>1, <3>3 DEF LInv
      <4> QED
        BY <1>1, <4>1 DEF Shows, Alone, Plain, RuleFree
    <3> QED
      BY <3>2, <3>3
  <2>5. ASSUME Passes(file[i]) PROVE Backed(i)
    <3> SUFFICES ASSUME \A s \in Seals : id[s] = i => RuleFree(s)
                 PROVE  \E s \in Seals : id[s] = i /\ (pc[s] = "sealed" \/ ~Alone(s))
      BY DEF Backed
    <3>1. PICK s \in Seals : id[s] = i
      BY <2>3 DEF IInv, Files
    <3>2. Begun(s) /\ pc[s] \in {"opening", "writing", "sealed", "dead"} /\ RuleFree(s)
      BY <3>1, RecordsAssumption DEF IInv, TypeOK, Draws
    <3>3. CASE Alone(s)
      <4>1. Holds(s)
        BY <3>3 DEF IInv, Content
      <4>2. ~Part(file[i], s)
        BY <2>5, <3>2, PartFails
      <4> QED
        BY <2>3, <3>1, <3>2, <4>1, <4>2 DEF Holds
    <3> QED
      BY <3>1, <3>3
  <2>6. \A j \in Ids : listing'[j] = "ok" => Backed(j)
    BY <2>3, <2>5 DEF LInv
  <2> QED
    BY <1>1, <1>2, <2>2, <2>4, <2>6 DEF LInv
<1>5. CASE LsEnds \/ \E i \in Ids : LsTrips(i)
  <2>1. todo' = todo /\ listing' = listing /\ before' = before /\ ls = "reading"
        /\ (ls' = "traceback" \/ (ls' = "done" /\ todo = {}))
    BY <1>5 DEF LsEnds, LsTrips
  <2>2. \A s \in before : Shows(s)' <=> Shows(s)
    BY <1>1, <2>1 DEF Shows, Alone, Plain, RuleFree
  <2> QED
    BY <1>1, <1>2, <2>1, <2>2 DEF LInv
<1> QED
  BY <1>3, <1>4, <1>5

LEMMA ListingInvariance == Spec => []LInv
<1>1. Init => LInv
  BY DEF Init, LInv
<1>2. IInv /\ LInv /\ [Next]_vars => LInv'
  <2> SUFFICES ASSUME IInv, LInv, [Next]_vars PROVE LInv'
    OBVIOUS
  <2>1. CASE \E s \in Seals : Refuses(s) \/ Begins(s) \/ Opens(s) \/ Writes(s) \/ Cuts(s) \/ Dies(s)
    <3>1. PICK s \in Seals : StepOf(s) /\ FilesStay
      BY <2>1, RefusesKeeps, BeginsKeeps, OpensKeeps, WritesKeeps, CutsKeeps, DiesKeeps
    <3> QED
      BY <3>1, SealKeepsListing
  <2>2. CASE LsBegins \/ LsEnds \/ (\E i \in Ids : LsReads(i) \/ LsTrips(i))
    BY <2>2, LsKeepsListing
  <2>3. CASE UNCHANGED vars
    BY <2>3 DEF vars, sealVars, lsVars, LInv, Shows, Backed, Alone, Plain, RuleFree
  <2> QED
    BY <2>1, <2>2, <2>3 DEF Next
<1> QED
  BY Invariance, <1>1, <1>2, PTL DEF Spec

-----------------------------------------------------------------------------

\* Whatever two seals do to one file, it holds a text, and every variable is of its type.
THEOREM TypeCorrect == Spec => []TypeOK
<1>1. IInv => TypeOK
  BY DEF IInv
<1> QED
  BY Invariance, <1>1, PTL

\* wkb.py:136-149, 374, 476: a record that was sealed, and that no other seal has drawn
\* the id of, passes the check exactly if it is plain, whatever bodies there are.
THEOREM PlainPasses == Spec => []PassesIfPlain
<1>1. IInv => PassesIfPlain
  <2> SUFFICES ASSUME IInv, NEW s \in Seals, pc[s] = "sealed", Alone(s)
               PROVE  Passes(file[id[s]]) <=> Plain(s)
    BY DEF PassesIfPlain
  <2>1. Begun(s) /\ file[id[s]] = Text(s)
    BY DEF IInv, Draws, Content, Holds
  <2> QED
    BY <2>1, WholePasses
<1> QED
  BY Invariance, <1>1, PTL

\* wkb.py:407: wherever a seal that is alone with its id has come to, or has died, what
\* it has left does not pass.
THEOREM UnfinishedNeverPasses == Spec => []UnfinishedFails
<1>1. IInv => UnfinishedFails
  <2> SUFFICES ASSUME IInv, NEW s \in Seals, pc[s] \in {"writing", "dead"}, Alone(s), RuleFree(s),
                      file[id[s]] # Absent
               PROVE  ~Passes(file[id[s]])
    BY DEF UnfinishedFails
  <2>1. Begun(s) /\ Part(file[id[s]], s)
    BY DEF IInv, Draws, Content, Holds
  <2> QED
    BY <2>1, PartFails
<1> QED
  BY Invariance, <1>1, PTL

\* wkb.py:498-524: a listing shows every record that was sealed before it began as the
\* check would, and none as ok that a single seal has not finished, whatever seals do
\* while it reads.
THEOREM ListingIsTrue == Spec => []ListsWhatIsSealed
<1>1. IInv /\ LInv => ListsWhatIsSealed
  BY DEF LInv, Shows, Backed, ListsWhatIsSealed
<1> QED
  BY Invariance, ListingInvariance, <1>1, PTL
=============================================================================
